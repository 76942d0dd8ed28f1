-------------------------- MODULE AdminPageProofs ---------------------------
(***************************************************************************)
(* The invariants of AdminPage hold for any tables, any rows and any       *)
(* number of requests under way.  Together they are inductive; two facts   *)
(* carry most steps: a reload is under way for a writer exactly when its   *)
(* button waits for it, and an action that is pending deletes the row the  *)
(* dialog names.                                                           *)
(***************************************************************************)
EXTENDS AdminPage, TLAPS

Inv == TypeOK /\ OneInterval /\ EditsWhatItShows /\ DeletesWhatItNames /\ WaitsForItsReload

\* Saves, the dialog's delete and the plain reload do not share a name.
LEMMA Names == /\ Dialog \notin Kind /\ Reload \notin Writer /\ Dialog \in Writer
               /\ Kind \subseteq Writer /\ Writer \subseteq Loader /\ Reload \in Loader
               /\ \A w \in Writer : w # Dialog => w \in Kind
BY AdminAssumption DEF Writer, Loader

\* Ids and tokens are typed; a request carries the token of its start.
LEMMA Records ==
    /\ NoWrite \in Write /\ NoLoad \in Load
    /\ NoWrite.pc = "idle" /\ NoLoad.pc = "idle"
    /\ \A t \in Auth : [NoLoad EXCEPT !.pc = "sent", !.auth = t] \in Load
    /\ \A t \in Auth : [NoLoad EXCEPT !.pc = "sent", !.auth = t].pc = "sent"
BY DEF NoWrite, NoLoad, Write, Load, Auth, Rows

\* The first state: nothing is under way, no interval runs.
LEMMA InvInit == Init => Inv
<1> SUFFICES ASSUME Init PROVE Inv
  OBVIOUS
<1>1. TypeOK
  BY Records DEF Init, Resumes, TypeOK, Auth, Rows
<1>2. OneInterval /\ EditsWhatItShows /\ DeletesWhatItNames /\ WaitsForItsReload
  BY Records, Names DEF Init, OneInterval, EditsWhatItShows, DeletesWhatItNames, WaitsForItsReload,
                 NoWrite, NoLoad, Writer, Loader
<1> QED
  BY <1>1, <1>2 DEF Inv

-----------------------------------------------------------------------------
(* The session.                                                            *)

\* Entering the console starts one reload that no button waits for.
LEMMA EnterShellStep ==
    ASSUME Inv, EnterShell, token' \in Auth, resume' \in {"idle", "valid", "expired"}, login' \in BOOLEAN,
           UNCHANGED <<server, list, modals, write>>
    PROVE  Inv'
<1> USE DEF Inv
<1>1. load' \in [Loader -> Load] /\ \A w \in Writer : load'[w] = load[w]
  BY Records, Names DEF EnterShell, StartLoad, TypeOK
<1>2. TypeOK'
  BY <1>1 DEF TypeOK, EnterShell, StartLiveRefresh, server, modals, Rows
<1>3. OneInterval'
  BY DEF OneInterval, EnterShell, StartLiveRefresh
<1>4. EditsWhatItShows' /\ DeletesWhatItNames'
  BY DEF EditsWhatItShows, DeletesWhatItNames, modals
<1>5. WaitsForItsReload'
  BY <1>1 DEF WaitsForItsReload
<1> QED
  BY <1>2, <1>3, <1>4, <1>5

\* A login, the answer to a resumed session, a logout.
LEMMA SessionStep ==
    ASSUME Inv,
           \/ SubmitLogin \/ LoginSucceeds \/ LoginFails \/ ResumeSucceeds \/ ResumeFails \/ Logout
    PROVE  Inv'
<1> USE DEF Inv
<1>1. CASE SubmitLogin \/ LoginFails
  <2> USE <1>1 DEF SubmitLogin, LoginFails
  <2>1. TypeOK'
    BY DEF TypeOK, server, modals
  <2>2. OneInterval' /\ EditsWhatItShows' /\ DeletesWhatItNames' /\ WaitsForItsReload'
    BY DEF OneInterval, EditsWhatItShows, DeletesWhatItNames, WaitsForItsReload, modals
  <2> QED
    BY <2>1, <2>2
<1>2. CASE LoginSucceeds
  BY <1>2, EnterShellStep DEF LoginSucceeds, TypeOK, Auth
<1>3. CASE ResumeSucceeds
  BY <1>3, EnterShellStep DEF ResumeSucceeds, TypeOK
<1>4. CASE ResumeFails \/ Logout
  <2> USE <1>4 DEF ResumeFails, Logout, SignOut, StopLiveRefresh
  <2>0. token' \in Auth /\ resume' \in {"idle", "valid", "expired"} /\ ticks' = 0 /\ shell' = FALSE
    BY DEF TypeOK, Auth
  <2>1. TypeOK'
    BY <2>0 DEF TypeOK, server, modals
  <2>2. OneInterval' /\ EditsWhatItShows' /\ DeletesWhatItNames' /\ WaitsForItsReload'
    BY DEF OneInterval, EditsWhatItShows, DeletesWhatItNames, WaitsForItsReload, modals
  <2> QED
    BY <2>1, <2>2
<1> QED
  BY <1>1, <1>2, <1>3, <1>4

\* The requests under way grow old with their token.
LEMMA ExpiryStep ==
    ASSUME Inv, TokenExpires PROVE Inv'
<1> USE DEF Inv, TokenExpires
<1> DEFINE Aged(r) == IF r.auth = "valid" THEN [r EXCEPT !.auth = "expired"] ELSE r
<1>1. \A w \in Writer : /\ write'[w] \in Write /\ write'[w].pc = write[w].pc
                        /\ write'[w].id = write[w].id /\ write'[w].shown = write[w].shown
  BY DEF TypeOK, Write, Auth
<1>2. \A l \in Loader : load'[l] \in Load /\ load'[l].pc = load[l].pc
  BY DEF TypeOK, Load, Auth
<1>3. write' \in [Writer -> Write] /\ load' \in [Loader -> Load]
  BY <1>1, <1>2
<1>4. token' \in Auth /\ resume' \in {"idle", "valid", "expired"}
  BY DEF TypeOK, Auth
<1>5. TypeOK'
  BY <1>3, <1>4 DEF TypeOK, server, modals
<1>6. OneInterval'
  BY DEF OneInterval
<1>7. EditsWhatItShows' /\ DeletesWhatItNames' /\ WaitsForItsReload'
  BY <1>1, <1>2, Names DEF EditsWhatItShows, DeletesWhatItNames, WaitsForItsReload, modals
<1> QED
  BY <1>5, <1>6, <1>7

-----------------------------------------------------------------------------
(* Reloads.                                                                *)

\* The button for it starts a reload that nothing waits for.
LEMMA RefreshStep ==
    ASSUME Inv, PressRefresh PROVE Inv'
<1> USE DEF Inv, PressRefresh
<1>1. load' \in [Loader -> Load] /\ \A w \in Writer : load'[w] = load[w]
  BY Records, Names DEF StartLoad, TypeOK
<1>2. TypeOK'
  BY <1>1 DEF TypeOK, server, modals
<1>3. OneInterval' /\ EditsWhatItShows' /\ DeletesWhatItNames' /\ WaitsForItsReload'
  BY <1>1 DEF OneInterval, EditsWhatItShows, DeletesWhatItNames, WaitsForItsReload, modals
<1> QED
  BY <1>2, <1>3

\* One table is read.
LEMMA ReadStep ==
    ASSUME Inv, NEW l \in Loader, NEW k \in Kind, ReadTable(l, k) PROVE Inv'
<1> USE DEF Inv, ReadTable
<1>1. load' \in [Loader -> Load] /\ \A x \in Loader : load'[x].pc = load[x].pc
  BY DEF TypeOK, Load, Of
<1>2. TypeOK'
  BY <1>1 DEF TypeOK, session, server, modals
<1>3. OneInterval' /\ EditsWhatItShows' /\ DeletesWhatItNames' /\ WaitsForItsReload'
  BY <1>1, Names DEF OneInterval, EditsWhatItShows, DeletesWhatItNames, WaitsForItsReload, session, modals
<1> QED
  BY <1>2, <1>3

\* A reload is over, and so is what its button waited for.
LEMMA GoesOnStep ==
    ASSUME Inv, NEW l \in Loader, GoesOn(l), load[l].pc = "sent"
    PROVE  /\ load' \in [Loader -> Load] /\ write' \in [Writer -> Write]
           /\ dialog' \in [open : BOOLEAN, named : Rows, action : Rows]
           /\ DeletesWhatItNames' /\ WaitsForItsReload'
           /\ form' = form => EditsWhatItShows'
<1> USE DEF Inv
<1>1. load' \in [Loader -> Load] /\ write' \in [Writer -> Write]
  BY Records, Names DEF GoesOn, TypeOK
<1>2. dialog' \in [open : BOOLEAN, named : Rows, action : Rows]
  BY DEF GoesOn, TypeOK, Rows
<1>3. dialog'.named = dialog.named /\ dialog'.action \in {None, dialog.action}
  BY DEF GoesOn, TypeOK
<1>4. \A w \in Writer : write'[w] = IF w = l THEN NoWrite ELSE write[w]
  <2>1. CASE l \in Writer
    BY <2>1 DEF GoesOn, TypeOK
  <2>2. CASE l \notin Writer
    BY <2>2 DEF GoesOn
  <2> QED
    BY <2>1, <2>2
<1>5. \A w \in Writer : load'[w] = IF w = l THEN NoLoad ELSE load[w]
  <2>1. \A w \in Loader : load'[w] = IF w = l THEN NoLoad ELSE load[w]
    BY DEF GoesOn, TypeOK
  <2> QED
    BY <2>1, Names
<1>6. DeletesWhatItNames'
  BY <1>3, <1>4, Records, Names DEF DeletesWhatItNames
<1>7. WaitsForItsReload'
  <2>1. ASSUME NEW w \in Writer PROVE write'[w].pc = "reload" <=> load'[w].pc = "sent"
    BY <1>4, <1>5, Records DEF WaitsForItsReload
  <2> QED
    BY <2>1 DEF WaitsForItsReload
<1>8. form' = form => EditsWhatItShows'
  BY <1>4, Records, Names DEF EditsWhatItShows
<1> QED
  BY <1>1, <1>2, <1>6, <1>7, <1>8

LEMMA LoadStep ==
    ASSUME Inv, NEW l \in Loader, LoadSucceeds(l) \/ LoadFails(l) PROVE Inv'
<1> USE DEF Inv
<1>1. CASE LoadSucceeds(l)
  <2> USE <1>1 DEF LoadSucceeds
  <2>1. load[l].got \subseteq Row
    BY DEF TypeOK, Load
  <2>2. /\ load' \in [Loader -> Load] /\ write' \in [Writer -> Write]
        /\ dialog' \in [open : BOOLEAN, named : Rows, action : Rows]
        /\ DeletesWhatItNames' /\ WaitsForItsReload' /\ EditsWhatItShows'
    BY GoesOnStep
  <2>4. TypeOK'
    BY <2>1, <2>2 DEF TypeOK, session, server
  <2>3. OneInterval'
    BY DEF OneInterval, session
  <2> QED
    BY <2>2, <2>3, <2>4
<1>2. CASE LoadFails(l)
  <2> USE <1>2 DEF LoadFails, SignOut, StopLiveRefresh
  <2>1. token' \in Auth /\ ticks' \in Nat /\ shell' \in BOOLEAN
    <3>1. CASE UNCHANGED <<token, shell, ticks>>
      BY <3>1 DEF TypeOK
    <3>2. CASE SignOut
      BY <3>2 DEF Auth
    <3> QED
      BY <3>1, <3>2
  <2>2. TypeOK'
    BY <2>1, GoesOnStep DEF TypeOK, server
  <2>3. OneInterval'
    BY DEF OneInterval
  <2> QED
    BY <2>2, <2>3, GoesOnStep
<1> QED
  BY <1>1, <1>2

-----------------------------------------------------------------------------
(* Forms.                                                                  *)

\* A form is opened or closed: its id and what it shows go together.
LEMMA FormStep ==
    ASSUME Inv, NEW k \in Kind, CloseForm(k) \/ \E i \in Rows : OpenForm(k, i) PROVE Inv'
<1> USE DEF Inv
<1> DEFINE Kept == /\ form' \in [Kind -> [open : BOOLEAN, id : Rows, shown : Rows]]
                   /\ \A x \in Kind : form'[x].open => form'[x].id = form'[x].shown
                   /\ UNCHANGED <<session, server, list, dialog, write, load>>
<1>1. Kept
  <2>1. CASE CloseForm(k)
    BY <2>1 DEF CloseForm, TypeOK, EditsWhatItShows
  <2>2. ASSUME NEW i \in Rows, OpenForm(k, i) PROVE Kept
    <3>1. form' = [form EXCEPT ![k] = [open |-> TRUE, id |-> i, shown |-> i]]
      BY <2>2 DEF OpenForm, Opened
    <3>2. form' \in [Kind -> [open : BOOLEAN, id : Rows, shown : Rows]]
      BY <3>1 DEF TypeOK
    <3>3. \A x \in Kind : form'[x].open => form'[x].id = form'[x].shown
      BY <3>1 DEF TypeOK, EditsWhatItShows
    <3> QED
      BY <2>2, <3>2, <3>3 DEF OpenForm, Opened
  <2> HIDE DEF Kept
  <2> QED
    BY <2>1, <2>2
<1>2. TypeOK'
  BY <1>1 DEF TypeOK, session, server
<1>3. OneInterval' /\ EditsWhatItShows' /\ DeletesWhatItNames' /\ WaitsForItsReload'
  BY <1>1 DEF OneInterval, EditsWhatItShows, DeletesWhatItNames, WaitsForItsReload, session
<1> QED
  BY <1>2, <1>3

\* A write is sent for the row that was shown: no reload of the writer is
\* under way, for its button was enabled.
LEMMA SendStep ==
    ASSUME Inv, NEW w \in Writer, NEW i \in Rows, write[w].pc = "idle", Send(w, i, i),
           w = Dialog => i # None,
           UNCHANGED <<session, server, list, modals, load>>
    PROVE  Inv'
<1> USE DEF Inv, Send
<1>1. [pc |-> "sent", id |-> i, shown |-> i, auth |-> token] \in Write
  BY DEF TypeOK, Write
<1>2. write' \in [Writer -> Write]
  BY <1>1 DEF TypeOK
<1>3. TypeOK'
  BY <1>2 DEF TypeOK, session, server, modals
<1>4. OneInterval'
  BY DEF OneInterval, session
<1>5. EditsWhatItShows' /\ DeletesWhatItNames' /\ WaitsForItsReload'
  BY Names DEF EditsWhatItShows, DeletesWhatItNames, WaitsForItsReload, TypeOK, modals
<1> QED
  BY <1>3, <1>4, <1>5

LEMMA SaveStep ==
    ASSUME Inv, NEW k \in Kind, Save(k) PROVE Inv'
<1>1. form[k].id \in Rows /\ form[k].id = form[k].shown
  BY DEF Inv, TypeOK, EditsWhatItShows, Save
<1> QED
  BY <1>1, Names, SendStep DEF Save

\* What the server makes of a write.
LEMMA ServerStep ==
    ASSUME Inv, NEW w \in Writer, Lost(w) \/ UNCHANGED server
    PROVE  rows' \subseteq Row /\ unborn' \subseteq Row
BY DEF Inv, TypeOK, Lost, server, Of

\* A write is answered: its writer waits for the reload, which is started.
LEMMA AnswerStep ==
    ASSUME Inv, NEW w \in Writer, write[w].pc = "sent",
           write' = [write EXCEPT ![w].pc = "reload"], token' = token, StartLoad(w)
    PROVE  /\ write' \in [Writer -> Write] /\ load' \in [Loader -> Load]
           /\ WaitsForItsReload'
           /\ \A x \in Writer : write'[x].pc = "sent" => write'[x] = write[x]
<1> USE DEF Inv
<1>1. write' \in [Writer -> Write]
  BY DEF TypeOK, Write
<1>2. load' \in [Loader -> Load]
  BY Records, Names DEF TypeOK, StartLoad
<1>3. WaitsForItsReload'
  <2>1. \A x \in Writer : load'[x].pc = IF x = w THEN "sent" ELSE load[x].pc
    BY Records, Names DEF TypeOK, StartLoad
  <2>2. \A x \in Writer : write'[x].pc = IF x = w THEN "reload" ELSE write[x].pc
    BY DEF TypeOK, Write
  <2> QED
    BY <2>1, <2>2 DEF WaitsForItsReload
<1>4. \A x \in Writer : write'[x].pc = "sent" => write'[x] = write[x]
  BY DEF TypeOK, Write
<1> QED
  BY <1>1, <1>2, <1>3, <1>4

LEMMA SavedStep ==
    ASSUME Inv, NEW k \in Kind, Saved(k) PROVE Inv'
<1> USE DEF Inv, Saved
<1>1. /\ write' \in [Writer -> Write] /\ load' \in [Loader -> Load] /\ WaitsForItsReload'
      /\ \A x \in Writer : write'[x].pc = "sent" => write'[x] = write[x]
  BY Names, AnswerStep DEF Accepted
<1>2. rows' \subseteq Row /\ unborn' \subseteq Row
  BY DEF TypeOK, server, Of
<1>3. /\ form' \in [Kind -> [open : BOOLEAN, id : Rows, shown : Rows]]
      /\ \A x \in Kind : form'[x].open => form'[x] = form[x]
  BY DEF TypeOK
<1>4. TypeOK'
  BY <1>1, <1>2, <1>3 DEF TypeOK
<1>5. OneInterval' /\ EditsWhatItShows' /\ DeletesWhatItNames'
  BY <1>1, <1>3, Names DEF OneInterval, EditsWhatItShows, DeletesWhatItNames
<1> QED
  BY <1>1, <1>4, <1>5

\* A write fails, or is refused and ends the session.
LEMMA FailStep ==
    ASSUME Inv, NEW w \in Writer, write[w].pc = "sent",
           \/ Lost(w) /\ UNCHANGED <<token, shell, ticks>>
           \/ SignOut /\ UNCHANGED server,
           write' = [write EXCEPT ![w] = NoWrite], UNCHANGED <<login, resume, list, form, load>>,
           dialog' = dialog \/ dialog' = [dialog EXCEPT !.open = FALSE, !.action = None]
    PROVE  Inv'
<1> USE DEF Inv
<1>1. \A x \in Writer : write'[x] = IF x = w THEN NoWrite ELSE write[x]
  BY DEF TypeOK
<1>2. write' \in [Writer -> Write]
  BY Records DEF TypeOK
<1>3. token' \in Auth /\ ticks' \in Nat /\ shell' \in BOOLEAN /\ OneInterval'
  <2>1. CASE UNCHANGED <<token, shell, ticks>>
    BY <2>1 DEF TypeOK, OneInterval
  <2>2. CASE SignOut
    BY <2>2 DEF SignOut, StopLiveRefresh, Auth, OneInterval
  <2> QED
    BY <2>1, <2>2
<1>4. /\ dialog' \in [open : BOOLEAN, named : Rows, action : Rows]
      /\ dialog'.named = dialog.named /\ dialog'.action \in {None, dialog.action}
  BY DEF TypeOK, Rows
<1>5. rows' \subseteq Row /\ unborn' \subseteq Row
  BY ServerStep
<1>6. TypeOK'
  BY <1>2, <1>3, <1>4, <1>5 DEF TypeOK
<1>7. EditsWhatItShows' /\ DeletesWhatItNames'
  <2>1. \A x \in Writer : write'[x].pc = "sent" => write'[x] = write[x]
    BY <1>1, Records
  <2>2. EditsWhatItShows'
    BY <2>1, Names DEF EditsWhatItShows
  <2>3. DeletesWhatItNames'
    BY <2>1, <1>4, Names DEF DeletesWhatItNames
  <2> QED
    BY <2>2, <2>3
<1>8. WaitsForItsReload'
  <2>1. load[w].pc # "sent"
    BY DEF WaitsForItsReload
  <2>2. ASSUME NEW x \in Writer PROVE write'[x].pc = "reload" <=> load'[x].pc = "sent"
    <3>1. CASE x = w
      BY <3>1, <1>1, <2>1, Records
    <3>2. CASE x # w
      BY <3>2, <1>1 DEF WaitsForItsReload
    <3> QED
      BY <3>1, <3>2
  <2> QED
    BY <2>2 DEF WaitsForItsReload
<1> QED
  BY <1>3, <1>6, <1>7, <1>8

LEMMA SaveFailsStep ==
    ASSUME Inv, NEW k \in Kind, SaveFails(k) PROVE Inv'
BY Names, FailStep DEF SaveFails, modals

-----------------------------------------------------------------------------
(* Deletions.                                                              *)

\* The dialog is opened for a row, or closed.
LEMMA DialogStep ==
    ASSUME Inv, CloseDialog \/ \E i \in Row : ConfirmDelete(i) PROVE Inv'
<1> USE DEF Inv
<1> DEFINE Kept == /\ dialog' \in [open : BOOLEAN, named : Rows, action : Rows]
                   /\ dialog'.action \in {None, dialog'.named}
                   /\ UNCHANGED <<session, server, list, form, write, load>>
<1>1. Kept
  <2>1. CASE CloseDialog
    BY <2>1 DEF CloseDialog, TypeOK, DeletesWhatItNames
  <2>2. ASSUME NEW i \in Row, ConfirmDelete(i) PROVE Kept
    BY <2>2 DEF ConfirmDelete, Rows
  <2> HIDE DEF Kept
  <2> QED
    BY <2>1, <2>2
<1>2. TypeOK'
  BY <1>1 DEF TypeOK, session, server
<1>3. OneInterval' /\ EditsWhatItShows' /\ DeletesWhatItNames' /\ WaitsForItsReload'
  BY <1>1 DEF OneInterval, EditsWhatItShows, DeletesWhatItNames, WaitsForItsReload, session
<1> QED
  BY <1>2, <1>3

\* The action that runs is of the row that is named.
LEMMA RunStep ==
    ASSUME Inv, RunConfirmedAction PROVE Inv'
<1>1. dialog.action \in Rows /\ dialog.action = dialog.named /\ dialog.action # None
  BY DEF Inv, TypeOK, DeletesWhatItNames, RunConfirmedAction
<1> QED
  BY <1>1, Names, SendStep DEF RunConfirmedAction

LEMMA DeletedStep ==
    ASSUME Inv, Deleted PROVE Inv'
<1> USE DEF Inv, Deleted
<1>1. /\ write' \in [Writer -> Write] /\ load' \in [Loader -> Load] /\ WaitsForItsReload'
      /\ \A x \in Writer : write'[x].pc = "sent" => write'[x] = write[x]
  BY Names, AnswerStep DEF Accepted
<1>2. /\ dialog' \in [open : BOOLEAN, named : Rows, action : Rows]
      /\ dialog'.named = dialog.named /\ dialog'.action = dialog.action
  BY DEF TypeOK
<1>3. TypeOK'
  BY <1>1, <1>2 DEF TypeOK
<1>4. OneInterval' /\ EditsWhatItShows' /\ DeletesWhatItNames'
  BY <1>1, <1>2, Names DEF OneInterval, EditsWhatItShows, DeletesWhatItNames
<1> QED
  BY <1>1, <1>3, <1>4

LEMMA DeleteFailsStep ==
    ASSUME Inv, DeleteFails PROVE Inv'
BY Names, FailStep DEF DeleteFails

-----------------------------------------------------------------------------
(* Every step, and the theorems.                                           *)

LEMMA InvStep == Inv /\ [Next]_vars => Inv'
<1> SUFFICES ASSUME Inv, [Next]_vars PROVE Inv'
  OBVIOUS
<1>1. CASE SubmitLogin \/ LoginSucceeds \/ LoginFails \/ ResumeSucceeds \/ ResumeFails \/ Logout
  BY <1>1, SessionStep
<1>2. CASE TokenExpires
  BY <1>2, ExpiryStep
<1>3. CASE PressRefresh
  BY <1>3, RefreshStep
<1>4. ASSUME NEW l \in Loader, LoadSucceeds(l) \/ LoadFails(l) \/ \E k \in Kind : ReadTable(l, k)
      PROVE  Inv'
  BY <1>4, LoadStep, ReadStep
<1>5. ASSUME NEW k \in Kind, CloseForm(k) \/ Save(k) \/ \E i \in Rows : OpenForm(k, i) PROVE Inv'
  BY <1>5, FormStep, SaveStep
<1>6. CASE CloseDialog \/ RunConfirmedAction \/ \E i \in Row : ConfirmDelete(i)
  BY <1>6, DialogStep, RunStep
<1>7. ASSUME NEW w \in Writer, Answer(w) PROVE Inv'
  BY <1>7, Names, DeletedStep, DeleteFailsStep, SavedStep, SaveFailsStep DEF Answer
<1>8. CASE UNCHANGED vars
  BY <1>8 DEF vars, session, server, modals, Inv, TypeOK, OneInterval, EditsWhatItShows,
              DeletesWhatItNames, WaitsForItsReload
<1> QED
  BY <1>1, <1>2, <1>3, <1>4, <1>5, <1>6, <1>7, <1>8 DEF Next

LEMMA Invariance == Spec => []Inv
BY InvInit, InvStep, PTL DEF Spec

\* Every variable of the page and of the server keeps its type, for any number
\* of tables, rows and requests.
THEOREM AdminTypes == Spec => []TypeOK
BY Invariance, PTL DEF Inv

\* The live table is refreshed by one interval while the console is shown and
\* by none on the login form, in whatever order sessions begin and end.
THEOREM OneIntervalAlways == Spec => []OneInterval
BY Invariance, PTL DEF Inv

\* No save is written over a row its form does not show, although forms are
\* opened, closed and saved while earlier answers are under way.
THEOREM SavesGoHome == Spec => []EditsWhatItShows
BY Invariance, PTL DEF Inv

\* No deletion is of a row its dialog did not name, although the dialog is used
\* again while an earlier deletion is under way.
THEOREM DeletionsAreNamed == Spec => []DeletesWhatItNames
BY Invariance, PTL DEF Inv

\* No button stays disabled without a reload under way that enables it again.
THEOREM NoButtonIsStuck == Spec => []WaitsForItsReload
BY Invariance, PTL DEF Inv
=============================================================================
