----------------------------- MODULE AdminPage ------------------------------
(***************************************************************************)
(* The administration page, admin.js: the session, the tables with their   *)
(* reloads, one form for each table, and the dialog that confirms a        *)
(* deletion.                                                               *)
(*                                                                         *)
(* The page runs one handler at a time, but every await lets the others    *)
(* in: the buttons stay usable, forms and dialogs can be closed and opened *)
(* anew while a request is under way, and answers come in any order.       *)
(*                                                                         *)
(* A row is an id, never given out twice; what the fields of a row say,    *)
(* the table of live buses and the names of the administrator are left     *)
(* out.  The server refuses what has no valid token, and may refuse        *)
(* anything else; an answer that is lost looks like a refusal.             *)
(***************************************************************************)
EXTENDS Naturals, FiniteSets

CONSTANTS
    Kind,       \* the tables: routes, fleet, alerts
    Row,        \* ids
    KindOf,     \* KindOf[i]: the table of row i
    Dialog,     \* names the write that the dialog confirms
    Reload,     \* names the reload by the button or at the entry
    None,
    MaxAsked    \* bound: requests under way at a time

ASSUME AdminAssumption ==
    /\ KindOf \in [Row -> Kind]
    /\ Dialog \notin Kind /\ Reload \notin Kind /\ Dialog # Reload
    /\ None \notin Row
    /\ MaxAsked \in Nat

Writer == Kind \union {Dialog}      \* what may have a write under way
Loader == Writer \union {Reload}    \* what may have a reload under way

VARIABLES
    token,      \* sessionStorage: "none", "valid" or "expired"
    shell,      \* whether the console is shown, not the login form
    ticks,      \* intervals that refresh the live buses
    login,      \* whether a login is under way
    resume,     \* the request of a page that resumes a session
    rows,       \* the rows at the server
    unborn,     \* ids not given out yet
    list,       \* routes, buses and alerts
    form,       \* form[k]: its modal, editing..Id and the row its fields are of
    dialog,     \* confirm-modal, the row it names and confirmAction
    write,      \* write[w]: the write under way
    load        \* load[l]: the reload under way

vars == <<token, shell, ticks, login, resume, rows, unborn, list, form, dialog, write, load>>
session == <<token, shell, ticks, login, resume>>
server == <<rows, unborn>>
modals == <<form, dialog>>

Rows == Row \union {None}
Auth == {"none", "valid", "expired"}
Of(k) == {i \in Row : KindOf[i] = k}

\* A write goes to the row id, from a form or dialog that showed another maybe.
Write == [pc : {"idle", "sent", "reload"}, id : Rows, shown : Rows, auth : Auth]
NoWrite == [pc |-> "idle", id |-> None, shown |-> None, auth |-> "none"]

\* The tables a reload has read so far, and what was in them.
Load == [pc : {"idle", "sent"}, read : SUBSET Kind, got : SUBSET Row, auth : Auth]
NoLoad == [pc |-> "idle", read |-> {}, got |-> {}, auth |-> "none"]

TypeOK ==
    /\ token \in Auth
    /\ shell \in BOOLEAN /\ ticks \in Nat
    /\ login \in BOOLEAN /\ resume \in {"idle", "valid", "expired"}
    /\ rows \subseteq Row /\ unborn \subseteq Row /\ list \subseteq Row
    /\ form \in [Kind -> [open : BOOLEAN, id : Rows, shown : Rows]]
    /\ dialog \in [open : BOOLEAN, named : Rows, action : Rows]
    /\ write \in [Writer -> Write]
    /\ load \in [Loader -> Load]

\* The page asks who its user is if a token is stored, and with that token.
\* (mutant: it asks in any case)
ResumesAnyway(t) == t
Resumes(t) == IF t = "none" THEN "idle" ELSE t

Init ==
    /\ token \in Auth /\ resume = Resumes(token)
    /\ shell = FALSE /\ ticks = 0 /\ login = FALSE
    /\ rows \in SUBSET Row /\ unborn = Row \ rows /\ list = {}
    /\ form = [k \in Kind |-> [open |-> FALSE, id |-> None, shown |-> None]]
    /\ dialog = [open |-> FALSE, named |-> None, action |-> None]
    /\ write = [w \in Writer |-> NoWrite]
    /\ load = [l \in Loader |-> NoLoad]

-----------------------------------------------------------------------------
(* The session.                                                            *)

\* stopLiveRefresh, and startLiveRefresh, which stops the interval first.
StopLiveRefresh == ticks' = 0
AnotherRefresh == ticks' = ticks + 1    \* (mutant: without stopping)
StartLiveRefresh == ticks' = 1
StartLoad(l) == load' = [load EXCEPT ![l] = [NoLoad EXCEPT !.pc = "sent", !.auth = token']]

\* The bounds; of the reloads that nothing waits for one is under way at a time.
MayAsk ==
    Cardinality({w \in Writer : write[w].pc = "sent"}) + Cardinality({l \in Loader : load[l].pc = "sent"})
      + (IF login THEN 1 ELSE 0) + (IF resume # "idle" THEN 1 ELSE 0) < MaxAsked
MayReload == load[Reload].pc = "idle"

EnterShell ==
    /\ MayReload
    /\ shell' = TRUE /\ StartLiveRefresh /\ StartLoad(Reload)

\* signOut: the modals stay as they are.
SignOut == token' = "none" /\ shell' = FALSE /\ StopLiveRefresh

\* The button is disabled until the answer.
SubmitLogin ==
    /\ ~ shell /\ ~ login /\ MayAsk
    /\ login' = TRUE
    /\ UNCHANGED <<token, shell, ticks, resume, server, list, modals, write, load>>

LoginSucceeds ==
    /\ login
    /\ login' = FALSE /\ token' = "valid"
    /\ EnterShell
    /\ UNCHANGED <<resume, server, list, modals, write>>

\* Refused, no answer, or an account of another role.
LoginFails ==
    /\ login
    /\ login' = FALSE
    /\ UNCHANGED <<token, shell, ticks, resume, server, list, modals, write, load>>

\* The answer to /auth/me: the stored session is resumed, or discarded.
ResumeSucceeds ==
    /\ resume = "valid"
    /\ resume' = "idle" /\ token' = token
    /\ EnterShell
    /\ UNCHANGED <<login, server, list, modals, write>>

ResumeFails ==
    /\ resume # "idle"
    /\ resume' = "idle"
    /\ SignOut
    /\ UNCHANGED <<login, server, list, modals, write, load>>

Logout ==
    /\ shell
    /\ SignOut
    /\ UNCHANGED <<login, resume, server, list, modals, write, load>>

\* The token has come of age, and with it the ones before.
TokenExpires ==
    LET Aged(r) == IF r.auth = "valid" THEN [r EXCEPT !.auth = "expired"] ELSE r
    IN /\ token = "valid"
       /\ token' = "expired"
       /\ resume' = IF resume = "valid" THEN "expired" ELSE resume
       /\ write' = [w \in Writer |-> Aged(write[w])]
       /\ load' = [l \in Loader |-> Aged(load[l])]
       /\ UNCHANGED <<shell, ticks, login, server, list, modals>>

-----------------------------------------------------------------------------
(* Reloads: loadAll.                                                       *)

PressRefresh ==
    /\ shell /\ MayAsk /\ MayReload
    /\ token' = token
    /\ StartLoad(Reload)
    /\ UNCHANGED <<shell, ticks, login, resume, server, list, modals, write>>

\* The server answers the request for one table.
ReadTable(l, k) ==
    /\ load[l].pc = "sent" /\ k \notin load[l].read
    /\ load' = [load EXCEPT ![l].read = @ \union {k}, ![l].got = @ \union (rows \cap Of(k))]
    /\ UNCHANGED <<session, server, list, modals, write>>

\* (mutant: the action is forgotten, the buttons are not enabled)
OnlyForgets(l) ==
    /\ load' = [load EXCEPT ![l] = NoLoad]
    /\ UNCHANGED write
    /\ dialog' = IF l = Dialog THEN [dialog EXCEPT !.action = None] ELSE dialog

\* What waited for the reload goes on: the button is enabled again, and
\* runConfirmedAction forgets its action.
GoesOn(l) ==
    /\ load' = [load EXCEPT ![l] = NoLoad]
    /\ write' = IF l \in Writer THEN [write EXCEPT ![l] = NoWrite] ELSE write
    /\ dialog' = IF l = Dialog THEN [dialog EXCEPT !.action = None] ELSE dialog

\* Everything has come.  The requests of one table need a valid token.
LoadSucceeds(l) ==
    /\ load[l].pc = "sent" /\ load[l].auth = "valid" /\ load[l].read = Kind
    /\ list' = load[l].got
    /\ GoesOn(l)
    /\ UNCHANGED <<session, server, form>>

\* A request fails; with a 401 the session ends.
LoadFails(l) ==
    /\ load[l].pc = "sent"
    /\ \/ UNCHANGED <<token, shell, ticks>>
       \/ load[l].auth # "valid" /\ SignOut
    /\ GoesOn(l)
    /\ UNCHANGED <<login, resume, server, list, form>>

-----------------------------------------------------------------------------
(* Forms: openRouteModal, openBusModal, openAlertModal and their saves.    *)

\* The rows of a table whose buttons find what they are about.
Listed(k) == list \cap Of(k)

\* A form that has been emptied and, for a row, filled with it.
Opened(i) == [open |-> TRUE, id |-> i, shown |-> i]

\* (mutant: "New" forgets to clear the id)
OpenFormKeepsId(k, i) ==
    /\ shell
    /\ i \in Listed(k) \union {None}
    /\ form' = [form EXCEPT ![k] = [open |-> TRUE, shown |-> i,
                                    id |-> IF i = None THEN @.id ELSE i]]
    /\ UNCHANGED <<session, server, list, dialog, write, load>>

OpenForm(k, i) ==
    /\ shell
    /\ i \in Listed(k) \union {None}
    /\ form' = [form EXCEPT ![k] = Opened(i)]
    /\ UNCHANGED <<session, server, list, dialog, write, load>>

\* Its buttons, the backdrop, or Escape.
CloseForm(k) ==
    /\ form[k].open
    /\ form' = [form EXCEPT ![k].open = FALSE]
    /\ UNCHANGED <<session, server, list, dialog, write, load>>

Send(w, i, seen) ==
    write' = [write EXCEPT ![w] = [pc |-> "sent", id |-> i, shown |-> seen, auth |-> token]]

\* The button is disabled until the reload after the save.
Save(k) ==
    /\ form[k].open /\ write[k].pc = "idle" /\ MayAsk
    /\ Send(k, form[k].id, form[k].shown)
    /\ UNCHANGED <<session, server, list, modals, load>>

Accepted(w) == write[w].pc = "sent" /\ write[w].auth = "valid"

\* The modal is closed, whatever it shows by now, and the tables are reloaded.
Saved(k) ==
    /\ Accepted(k)
    /\ IF write[k].id = None
       THEN \E i \in unborn \cap Of(k) : rows' = rows \union {i} /\ unborn' = unborn \ {i}
       ELSE write[k].id \in rows /\ UNCHANGED server
    /\ form' = [form EXCEPT ![k].open = FALSE]
    /\ write' = [write EXCEPT ![k].pc = "reload"]
    /\ token' = token /\ StartLoad(k)
    /\ UNCHANGED <<shell, ticks, login, resume, list, dialog>>

\* What the server does with a write whose answer is lost.
Lost(w) ==
    \/ UNCHANGED server
    \/ /\ Accepted(w) /\ w = Dialog
       /\ rows' = rows \ {write[w].id} /\ unborn' = unborn
    \/ /\ Accepted(w) /\ w # Dialog /\ write[w].id = None
       /\ \E i \in unborn \cap Of(w) : rows' = rows \union {i} /\ unborn' = unborn \ {i}

\* The modal stays open.
SaveFails(k) ==
    /\ write[k].pc = "sent"
    /\ \/ Lost(k) /\ UNCHANGED <<token, shell, ticks>>
       \/ write[k].auth # "valid" /\ SignOut /\ UNCHANGED server
    /\ write' = [write EXCEPT ![k] = NoWrite]
    /\ UNCHANGED <<login, resume, list, modals, load>>

-----------------------------------------------------------------------------
(* Deletions: confirmDelete and runConfirmedAction.                        *)

\* (mutant: an action that is pending is kept)
ConfirmDeleteOnce(i) ==
    /\ shell /\ i \in Listed(KindOf[i])
    /\ dialog' = [open |-> TRUE, named |-> i,
                  action |-> IF dialog.action = None THEN i ELSE dialog.action]
    /\ UNCHANGED <<session, server, list, form, write, load>>

ConfirmDelete(i) ==
    /\ shell /\ i \in Listed(KindOf[i])
    /\ dialog' = [open |-> TRUE, named |-> i, action |-> i]
    /\ UNCHANGED <<session, server, list, form, write, load>>

CloseDialog ==
    /\ dialog.open
    /\ dialog' = [dialog EXCEPT !.open = FALSE]
    /\ UNCHANGED <<session, server, list, form, write, load>>

RunConfirmedAction ==
    /\ dialog.open /\ dialog.action # None /\ write[Dialog].pc = "idle" /\ MayAsk
    /\ Send(Dialog, dialog.action, dialog.named)
    /\ UNCHANGED <<session, server, list, modals, load>>

Deleted ==
    /\ Accepted(Dialog) /\ write[Dialog].id \in rows
    /\ rows' = rows \ {write[Dialog].id}
    /\ dialog' = [dialog EXCEPT !.open = FALSE]
    /\ write' = [write EXCEPT ![Dialog].pc = "reload"]
    /\ token' = token /\ StartLoad(Dialog)
    /\ UNCHANGED <<shell, ticks, login, resume, unborn, list, form>>

DeleteFails ==
    /\ write[Dialog].pc = "sent"
    /\ \/ Lost(Dialog) /\ UNCHANGED <<token, shell, ticks>>
       \/ write[Dialog].auth # "valid" /\ SignOut /\ UNCHANGED server
    /\ dialog' = [dialog EXCEPT !.open = FALSE, !.action = None]
    /\ write' = [write EXCEPT ![Dialog] = NoWrite]
    /\ UNCHANGED <<login, resume, list, form, load>>

-----------------------------------------------------------------------------
Answer(w) == IF w = Dialog THEN Deleted \/ DeleteFails ELSE Saved(w) \/ SaveFails(w)

Next ==
    \/ SubmitLogin \/ LoginSucceeds \/ LoginFails \/ ResumeSucceeds \/ ResumeFails
    \/ Logout \/ TokenExpires \/ PressRefresh
    \/ \E l \in Loader :
         LoadSucceeds(l) \/ LoadFails(l) \/ \E k \in Kind : ReadTable(l, k)
    \/ \E k \in Kind : CloseForm(k) \/ Save(k) \/ \E i \in Rows : OpenForm(k, i)
    \/ CloseDialog \/ RunConfirmedAction \/ \E i \in Row : ConfirmDelete(i)
    \/ \E w \in Writer : Answer(w)

Spec == Init /\ [][Next]_vars

-----------------------------------------------------------------------------
(* Properties.                                                             *)

\* One interval refreshes the live table while the console is shown and none
\* does afterwards, whatever order a resumed session, a login and a 401 end in.
OneInterval == ticks = IF shell THEN 1 ELSE 0

\* A save goes to the row its form showed: an edit of one row is not written
\* over another, nor a new row over the one that was edited before, however
\* the forms were closed and opened while answers were under way.
EditsWhatItShows ==
    \A k \in Kind :
        /\ form[k].open => form[k].id = form[k].shown
        /\ write[k].pc = "sent" => write[k].id = write[k].shown

\* What is deleted is what the dialog named when it was confirmed, although
\* the action of an earlier confirmation may still be under way.
DeletesWhatItNames ==
    /\ dialog.action \in {None, dialog.named}
    /\ write[Dialog].pc = "sent" => write[Dialog].id = write[Dialog].shown /\ write[Dialog].id # None

\* Nobody waits for nothing: a button that is disabled after its write was
\* answered waits for its own reload, and that is under way.
WaitsForItsReload ==
    \A w \in Writer : write[w].pc = "reload" <=> load[w].pc = "sent"

\* admin.js: "State lives server-side; this client just renders and edits it":
\* the tables do not go back, a row that was deleted and is shown no more
\* does not come again.
DeletedRowStaysAway ==
    [][\A i \in Row \ (rows \union unborn) : i \notin list => i \notin list']_vars
=============================================================================
