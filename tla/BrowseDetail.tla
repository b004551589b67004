---------------------------- MODULE BrowseDetail ----------------------------
(***************************************************************************)
(* The endpoint dialog of the Browse view (views/browse-detail.js).        *)
(* One overlay serves every endpoint: `current` is the endpoint it stands  *)
(* for, and all its handlers read `current` again when an answer arrives.  *)
(* Field values are abstracted to the endpoint they came from, so that a   *)
(* form filled from one endpoint and saved to another can be seen.         *)
(***************************************************************************)
EXTENDS Naturals, FiniteSets

CONSTANTS DialogEndpoints,  \* endpoint ids
          Null,             \* no endpoint
          Loading,          \* the "loading" text of a panel
          Ready,            \* the policy tab with its sets but no result
          MaxDialogCalls,   \* a click is made only below this many open requests
          MaxClicks         \* bound on the operator's clicks

ASSUME DetailAssumption ==
  /\ Null \notin DialogEndpoints /\ Loading \notin DialogEndpoints /\ Ready \notin DialogEndpoints
  /\ Cardinality({Null, Loading, Ready}) = 3
  /\ MaxDialogCalls \in Nat /\ MaxClicks \in Nat

VARIABLES backend,      \* endpoint -> what ISE and the portal hold for it
          current,      \* state.detailCurrentId
          form,         \* the dialog's fields, and the #d-id they were filled for
          badge,        \* the status shown
          buttons,      \* the status buttons that are visible
          anc,          \* the quarantine badge: of whom, and what it says
          panel,        \* the lazily loaded tabs: whose content they hold
          wizard,       \* the endpoint the open rule wizard was prefilled from
          dialogRows,   \* endpoint -> status in state.allRows
          drawn,        \* endpoint -> status its row was last drawn with
          undrawn,      \* history: endpoints set Aktiv or Inaktiv since then
          catalog,      \* the role catalog holds the endpoints' role
          coaOnSave,    \* the toolbar's "CoA on save"
          busy,         \* disabled buttons
          retry,        \* the retry button of a failed load is shown
          dialogCalls,  \* requests out, and answers not yet handled
          clicks,       \* clicks so far
          disturbed     \* history: endpoints whose dialog met an overlap or error

dialogVars == <<backend, current, form, badge, buttons, anc, panel, wizard, dialogRows,
                drawn, undrawn, catalog, coaOnSave, busy, retry, dialogCalls, clicks,
                disturbed>>
dialog  == <<form, badge, buttons, anc, wizard>>
drawing == <<drawn, undrawn>>

Ids       == DialogEndpoints \cup {Null}
Active    == {"Aktiv", "Inaktiv"}
StatusCmd == {"decommission", "undecommission"} \cup Active
AncCmd    == {"quarantine", "clear"}
\* Commands asked about first, by the MAC address that stands in the form.
Confirmed == {"decommission", "undecommission"} \cup AncCmd
Buttons   == StatusCmd \cup AncCmd \cup {"save"}
Panels    == {"profil", "iseids", "historik", "session", "match"}

\* What the backend holds: the field values (by the endpoint they came from),
\* a role, the status, the quarantine, and whether it was ever saved or CoA'd.
Endpoint == [vals : Ids, role : BOOLEAN, decomm : BOOLEAN, active : Active,
             quar : BOOLEAN, saved : BOOLEAN, coa : BOOLEAN]
Status   == [decomm : BOOLEAN, active : Active]
StatusOf(x) == [decomm |-> x.decomm, active |-> x.active]

\* The form of an endpoint; a blank active means the select was never set.
Form   == [of : Ids, vals : Ids, role : BOOLEAN, known : BOOLEAN,
           active : Active \cup {""}]
BlankForm == [of |-> Null, vals |-> Null, role |-> FALSE, known |-> FALSE,
              active |-> ""]

ReadOps == {"get", "anc", "refresh", "sets", "sim", "rule", "timer"} \cup Panels
DialogOps == ReadOps \cup StatusCmd \cup AncCmd \cup {"save", "coa"}
\* by: the button this request leaves disabled until it is handled
DialogCall == [op : DialogOps, id : Ids, done : BOOLEAN, by : Buttons \cup {"none"},
               sent : Form, got : Endpoint]

Fresh(e) == [vals |-> e, role |-> TRUE, decomm |-> FALSE, active |-> "Aktiv",
             quar |-> FALSE, saved |-> FALSE, coa |-> FALSE]
Request(o, e, b) == [op |-> o, id |-> e, done |-> FALSE, by |-> b,
                     sent |-> CASE o = "save" -> form
                                [] o \in Confirmed -> [BlankForm EXCEPT !.of = form.of]
                                [] OTHER -> BlankForm,
                     got |-> Fresh(Null)]

\* The buttons an editor sees for a status.
ButtonsFor(s) ==
  IF s.decomm THEN {"undecommission"}
  ELSE {"decommission", IF s.active = "Aktiv" THEN "Inaktiv" ELSE "Aktiv"}

DialogInit ==
  /\ backend = [e \in DialogEndpoints |-> Fresh(e)]
  /\ current = Null
  /\ form = BlankForm
  /\ badge = [decomm |-> FALSE, active |-> "Aktiv"]
  /\ buttons = {}
  /\ anc = [of |-> Null, quar |-> FALSE]
  /\ panel = [p \in Panels |-> Null]
  /\ wizard = Null
  /\ dialogRows = [e \in DialogEndpoints |-> StatusOf(Fresh(e))]
  /\ drawn = dialogRows
  /\ undrawn = {}
  /\ catalog \in BOOLEAN
  /\ coaOnSave \in BOOLEAN
  /\ busy = {}
  /\ retry = FALSE
  /\ dialogCalls = {}
  /\ clicks = 0
  /\ disturbed = {}

-----------------------------------------------------------------------------
(* The operator's clicks *)

\* A request that must be over before e's dialog is used, if its answer is
\* not to meet another endpoint: anything of another endpoint, and e's own
\* load, save, CoA, refresh and commands.
Overlaps(e) == \E c \in dialogCalls : c.id # e \/ c.op \notin ReadOps \ {"get", "refresh"}

Clicked(e, overlaps) ==
  /\ clicks < MaxClicks /\ Cardinality(dialogCalls) < MaxDialogCalls
  /\ clicks' = clicks + 1
  /\ disturbed' = IF overlaps THEN disturbed \cup {e} ELSE disturbed
Click(e) == Clicked(e, Overlaps(e))
\* A click that closes the dialog, now or when it is answered, or that loads the
\* quarantine badge again.
Leave(e) == Clicked(e, dialogCalls # {})

\* Opened from the table while the overlay is hidden, or by the retry button.
OpenDetail(e) ==
  /\ current = Null \/ (current = e /\ retry)
  /\ Click(e)
  /\ current' = e
  /\ retry' = FALSE
  /\ dialogCalls' = dialogCalls \cup {Request("get", e, "none")}
  /\ UNCHANGED <<backend, dialog, panel, dialogRows, drawing, catalog, coaOnSave, busy>>

\* closeDetail: the fields keep their values, the tabs are cleared. An answer
\* to a simulation goes to an element that is no longer in the page.
Closed ==
  /\ current' = Null
  /\ retry' = FALSE
  /\ panel' = [p \in Panels |-> Null]
  /\ wizard' = Null

CloseDetail ==
  /\ current # Null
  /\ Leave(current)
  /\ Closed
  /\ dialogCalls' = {c \in dialogCalls : c.op # "sim"}
  /\ UNCHANGED <<backend, form, badge, buttons, anc, dialogRows, drawing, catalog, coaOnSave,
                 busy>>

\* Decommission, reactivate, set Aktiv, set Inaktiv.
ClickStatus(k) ==
  /\ current # Null
  /\ k \in buttons \ busy
  /\ Click(current)
  /\ busy' = busy \cup {k}
  /\ dialogCalls' = dialogCalls \cup {Request(k, current, k)}
  /\ UNCHANGED <<backend, current, dialog, panel, dialogRows, drawing, catalog, coaOnSave,
                 retry>>

\* Quarantine is offered by a badge that says free, clearing by the other.
ClickAnc(k) ==
  /\ current # Null
  /\ anc.of # Null
  /\ k \notin busy
  /\ anc.quar = (k = "clear")
  /\ Leave(current)
  /\ busy' = busy \cup {k}
  /\ dialogCalls' = dialogCalls \cup {Request(k, current, k)}
  /\ UNCHANGED <<backend, current, dialog, panel, dialogRows, drawing, catalog, coaOnSave,
                 retry>>

\* Variant: only the options that are selected are sent.
SavedRoleSelected == form.role /\ form.known

\* Roles that are in the form but not in the catalog are kept as they are;
\* of the catalog's roles, those whose option is selected. An option exists
\* for the roles the catalog had when the form was filled.
SavedRole == form.role /\ (~catalog \/ form.known)

ClickSave ==
  /\ current # Null
  /\ "save" \notin busy
  /\ Leave(current)
  /\ busy' = busy \cup {"save"}
  /\ dialogCalls' = dialogCalls \cup {[Request("save", current, "save")
                             EXCEPT !.sent.role = SavedRole]}
  /\ UNCHANGED <<backend, current, dialog, panel, dialogRows, drawing, catalog, coaOnSave,
                 retry>>

\* The profile tab asks twice, for what is still empty.
OpenProfil ==
  /\ current # Null
  /\ LET empty == {p \in {"profil", "iseids"} : panel[p] = Null}
     IN /\ empty # {}
        /\ Click(current)
        /\ panel' = [p \in Panels |-> IF p \in empty THEN Loading ELSE panel[p]]
        /\ dialogCalls' = dialogCalls \cup {Request(p, current, "none") : p \in empty}
  /\ UNCHANGED <<backend, current, dialog, dialogRows, drawing, catalog, coaOnSave, busy, retry>>

\* History and session are asked for at every click on their tab, the session
\* for the MAC address that stands in the form.
OpenTab(p) ==
  /\ current # Null
  /\ LET id == IF p = "session" THEN form.of ELSE current
     IN /\ id # Null
        /\ Click(current)
        /\ panel' = [panel EXCEPT ![p] = Loading]
        /\ dialogCalls' = dialogCalls \cup {Request(p, id, "none")}
  /\ UNCHANGED <<backend, current, dialog, dialogRows, drawing, catalog, coaOnSave, busy, retry>>

\* The policy tab loads the policy sets once per dialog.
OpenRadius ==
  /\ current # Null
  /\ panel["match"] = Null
  /\ Click(current)
  /\ panel' = [panel EXCEPT !["match"] = Loading]
  /\ dialogCalls' = dialogCalls \cup {Request("sets", current, "none")}
  /\ UNCHANGED <<backend, current, dialog, dialogRows, drawing, catalog, coaOnSave, busy, retry>>

RunSimulate ==
  /\ current # Null
  /\ panel["match"] \notin {Null, Loading}
  /\ Click(current)
  /\ dialogCalls' = dialogCalls \cup {Request("sim", current, "none")}
  /\ UNCHANGED <<backend, current, dialog, panel, dialogRows, drawing, catalog, coaOnSave, busy,
                 retry>>

\* The wizard is prefilled from the form, and closes itself after a save.
ShowRuleWizard ==
  /\ current # Null
  /\ panel["match"] \notin {Null, Loading}
  /\ wizard = Null
  /\ Click(current)
  /\ wizard' = form.of
  /\ UNCHANGED <<backend, current, form, badge, buttons, anc, panel, dialogRows, drawing,
                 catalog, coaOnSave, busy, retry, dialogCalls>>

SaveWizard ==
  /\ wizard # Null
  /\ Click(current)
  /\ dialogCalls' = dialogCalls \cup {Request("rule", current, "none")}
  /\ UNCHANGED <<backend, current, dialog, panel, dialogRows, drawing, catalog, coaOnSave, busy,
                 retry>>

\* A reload of the table under the dialog brings the catalog as it is now.
ReloadCatalog ==
  /\ clicks < MaxClicks
  /\ clicks' = clicks + 1
  /\ catalog' = ~catalog
  /\ disturbed' = IF ~catalog /\ current # Null THEN disturbed \cup {current}
                  ELSE disturbed
  /\ UNCHANGED <<backend, current, dialog, panel, dialogRows, drawing, coaOnSave, busy, retry,
                 dialogCalls>>

\* renderRows, of all rows: at the end of applyFilter, which the dialog calls below
\* and which session lookups, events, filters and loads end with.
DrawRows ==
  /\ drawn' = dialogRows'
  /\ undrawn' = {}

TableRedrawn ==
  /\ UNCHANGED <<backend, current, dialog, panel, dialogRows, catalog, coaOnSave, busy,
                 retry, dialogCalls, clicks, disturbed>>
  /\ DrawRows
-----------------------------------------------------------------------------
(* The backend *)

Effect(c, x) ==
  CASE c.op = "decommission"   -> [x EXCEPT !.decomm = TRUE, !.active = "Inaktiv"]
    [] c.op = "undecommission" -> [x EXCEPT !.decomm = FALSE, !.active = "Aktiv"]
    [] c.op \in Active         -> [x EXCEPT !.active = c.op]
    [] c.op \in AncCmd         -> [x EXCEPT !.quar = (c.op = "quarantine")]
    [] c.op = "coa"            -> [x EXCEPT !.coa = TRUE]
    [] c.op = "save" ->
         [x EXCEPT !.vals = c.sent.vals, !.role = c.sent.role, !.saved = TRUE,
                   !.active = IF c.sent.active = "" THEN @ ELSE c.sent.active]
    [] OTHER -> x

DialogServe(c) ==
  /\ ~c.done /\ c.id # Null /\ c.op # "timer"
  /\ LET x == Effect(c, backend[c.id])
     IN /\ backend' = [backend EXCEPT ![c.id] = x]
        /\ dialogCalls' = (dialogCalls \ {c}) \cup {[c EXCEPT !.done = TRUE, !.got = x]}
  /\ UNCHANGED <<current, dialog, panel, dialogRows, drawing, catalog, coaOnSave, busy, retry,
                 clicks, disturbed>>
-----------------------------------------------------------------------------
(* Answers *)

Freed(c) == busy \ {c.by}
Answered(o, c) == c.op = o /\ c.done
Elsewhere == UNCHANGED <<backend, catalog, coaOnSave, clicks, disturbed>>

\* Variant: the identification is filled in, the fields are not.
FillFormIdOnly(c) ==
  /\ Answered("get", c)
  /\ form' = [form EXCEPT !.of = c.id, !.role = c.got.role, !.known = catalog,
                          !.active = c.got.active]
  /\ badge' = StatusOf(c.got)
  /\ buttons' = ButtonsFor(c.got)
  /\ dialogCalls' = (dialogCalls \ {c}) \cup {Request("anc", c.id, "none")}
  /\ UNCHANGED <<current, anc, wizard, panel, dialogRows, drawing, busy, retry>> /\ Elsewhere

\* openDetail goes on: the answer fills the form, whatever is open by now.
FillForm(c) ==
  /\ Answered("get", c)
  /\ form' = [of |-> c.id, vals |-> c.got.vals, role |-> c.got.role,
              known |-> catalog, active |-> c.got.active]
  /\ badge' = StatusOf(c.got)
  /\ buttons' = ButtonsFor(c.got)
  /\ dialogCalls' = (dialogCalls \ {c}) \cup {Request("anc", c.id, "none")}
  /\ UNCHANGED <<current, anc, wizard, panel, dialogRows, drawing, busy, retry>> /\ Elsewhere

ShowAnc(c) ==
  /\ Answered("anc", c)
  /\ anc' = [of |-> c.id, quar |-> c.got.quar]
  /\ busy' = Freed(c)
  /\ dialogCalls' = dialogCalls \ {c}
  /\ UNCHANGED <<current, form, badge, buttons, wizard, panel, dialogRows, drawing, retry>>
  /\ Elsewhere

\* After a quarantine or its end, the badge of what is open now is loaded.
AncCommandDone(c) ==
  /\ c.op \in AncCmd /\ c.done
  /\ dialogCalls' = (dialogCalls \ {c}) \cup {Request("anc", current, c.by)}
  /\ UNCHANGED <<current, dialog, panel, dialogRows, drawing, busy, retry>> /\ Elsewhere

\* The row of the endpoint that is open now takes the new status, and is drawn.
SetRow(s) ==
  /\ dialogRows' = IF current = Null THEN dialogRows ELSE [dialogRows EXCEPT ![current] = s]
  /\ DrawRows

DecommissionDone(c) ==
  /\ Answered("decommission", c)
  /\ badge' = [decomm |-> TRUE, active |-> "Inaktiv"]
  /\ buttons' = (buttons \ ({"decommission"} \cup Active)) \cup {"undecommission"}
  /\ SetRow(badge')
  /\ busy' = Freed(c)
  /\ dialogCalls' = dialogCalls \ {c}
  /\ UNCHANGED <<current, form, anc, wizard, panel, retry>> /\ Elsewhere

UndecommissionDone(c) ==
  /\ Answered("undecommission", c)
  /\ badge' = [decomm |-> FALSE, active |-> "Aktiv"]
  /\ buttons' = (buttons \ {"undecommission", "Aktiv"})
                  \cup {"decommission", "Inaktiv"}
  /\ SetRow(badge')
  /\ busy' = Freed(c)
  /\ dialogCalls' = dialogCalls \ {c}
  /\ UNCHANGED <<current, form, anc, wizard, panel, retry>> /\ Elsewhere

\* Variant: the row is forgotten.
SetActiveDoneBadgeOnly(c) ==
  /\ c.op \in Active /\ c.done
  /\ badge' = [badge EXCEPT !.active = c.op]
  /\ buttons' = (buttons \ Active) \cup (Active \ {c.op})
  /\ busy' = Freed(c)
  /\ dialogCalls' = dialogCalls \ {c}
  /\ UNCHANGED <<current, form, anc, wizard, panel, dialogRows, drawing, retry>> /\ Elsewhere

\* Aktiv or Inaktiv: the row in memory takes it, and the rows are not drawn.
SetActiveDone(c) ==
  /\ c.op \in Active /\ c.done
  /\ badge' = [badge EXCEPT !.active = c.op]
  /\ buttons' = (buttons \ Active) \cup (Active \ {c.op})
  /\ dialogRows' = IF current = Null THEN dialogRows
             ELSE [dialogRows EXCEPT ![current].active = c.op]
  /\ drawn' = drawn /\ undrawn' = undrawn \cup ({current} \ {Null})
  /\ busy' = Freed(c)
  /\ dialogCalls' = dialogCalls \ {c}
  /\ UNCHANGED <<current, form, anc, wizard, panel, retry>> /\ Elsewhere

\* `savedId` is what is open when the save is answered: it gets the CoA and
\* the refresh. The dialog closes after the CoA.
DialogSaved(c) ==
  /\ Answered("save", c)
  /\ IF coaOnSave
     THEN /\ dialogCalls' = (dialogCalls \ {c}) \cup {Request("coa", current, c.by)}
          /\ UNCHANGED <<current, panel, wizard, retry>>
     ELSE /\ Closed
          /\ dialogCalls' = {d \in dialogCalls \ {c} : d.op # "sim"}
                        \cup {Request("refresh", current, c.by)}
  /\ UNCHANGED <<form, badge, buttons, anc, dialogRows, drawing, busy>> /\ Elsewhere

\* The result of the CoA is only reported, a failed one goes on the same way.
CoaDone(c) ==
  /\ c.op = "coa"
  /\ Closed
  /\ dialogCalls' = {d \in dialogCalls \ {c} : d.op # "sim"}
                \cup {Request("refresh", c.id, c.by)}
  /\ UNCHANGED <<form, badge, buttons, anc, dialogRows, drawing, busy>> /\ Elsewhere

RefreshDone(c) ==
  /\ Answered("refresh", c)
  /\ dialogRows' = [dialogRows EXCEPT ![c.id] = StatusOf(c.got)]
  /\ DrawRows
  /\ busy' = Freed(c)
  /\ dialogCalls' = dialogCalls \ {c}
  /\ UNCHANGED <<current, dialog, panel, retry>> /\ Elsewhere

PanelDone(c) ==
  /\ c.op \in Panels /\ c.done
  /\ panel' = [panel EXCEPT ![c.op] = c.id]
  /\ dialogCalls' = dialogCalls \ {c}
  /\ UNCHANGED <<current, dialog, dialogRows, drawing, busy, retry>> /\ Elsewhere

\* The sets replace the whole area, a result that was in it included.
SetsDone(c) ==
  /\ Answered("sets", c)
  /\ panel' = [panel EXCEPT !["match"] = Ready]
  /\ dialogCalls' = {d \in dialogCalls \ {c} : d.op # "sim"}
  /\ UNCHANGED <<current, dialog, dialogRows, drawing, busy, retry>> /\ Elsewhere

SimDone(c) ==
  /\ Answered("sim", c)
  /\ panel' = [panel EXCEPT !["match"] = c.id]
  /\ dialogCalls' = dialogCalls \ {c}
  /\ UNCHANGED <<current, dialog, dialogRows, drawing, busy, retry>> /\ Elsewhere

RuleDone(c) ==
  /\ Answered("rule", c)
  /\ dialogCalls' = (dialogCalls \ {c}) \cup {Request("timer", c.id, "none")}
  /\ UNCHANGED <<current, dialog, panel, dialogRows, drawing, busy, retry>> /\ Elsewhere

WizardTimer(c) ==
  /\ c.op = "timer"
  /\ wizard' = Null
  /\ dialogCalls' = dialogCalls \ {c}
  /\ UNCHANGED <<current, form, badge, buttons, anc, panel, dialogRows, drawing, busy, retry>>
  /\ Elsewhere

\* A request that fails, served or not: the error is shown where its answer
\* would have been; a quarantine badge whose status failed says "free".
CallFails(c) ==
  /\ c.op \notin {"coa", "timer"}
  /\ retry' = IF c.op = "get" THEN TRUE ELSE retry
  /\ anc'   = IF c.op = "anc" THEN [of |-> c.id, quar |-> FALSE] ELSE anc
  /\ panel' = CASE c.op \in Panels \ {"match"} -> [panel EXCEPT ![c.op] = c.id]
                [] OTHER -> panel
  /\ busy' = Freed(c)
  /\ dialogCalls' = dialogCalls \ {c}
  /\ disturbed' = disturbed \cup ({c.id} \ {Null})
  /\ UNCHANGED <<backend, current, form, badge, buttons, wizard, dialogRows, drawing, catalog,
                 coaOnSave, clicks>>
-----------------------------------------------------------------------------
Operator ==
  \/ \E e \in DialogEndpoints : OpenDetail(e)
  \/ CloseDetail
  \/ \E k \in StatusCmd : ClickStatus(k)
  \/ \E k \in AncCmd : ClickAnc(k)
  \/ ClickSave
  \/ OpenProfil
  \/ \E p \in {"historik", "session"} : OpenTab(p)
  \/ OpenRadius
  \/ RunSimulate
  \/ ShowRuleWizard
  \/ SaveWizard
  \/ ReloadCatalog

Answer(c) ==
  \/ FillForm(c) \/ ShowAnc(c) \/ AncCommandDone(c)
  \/ DecommissionDone(c) \/ UndecommissionDone(c) \/ SetActiveDone(c)
  \/ DialogSaved(c) \/ CoaDone(c) \/ RefreshDone(c)
  \/ PanelDone(c) \/ SetsDone(c) \/ SimDone(c) \/ RuleDone(c) \/ WizardTimer(c)
  \/ CallFails(c)

DialogNext ==
  \/ Operator
  \/ TableRedrawn
  \/ \E c \in dialogCalls : DialogServe(c) \/ Answer(c)

DialogSpec == DialogInit /\ [][DialogNext]_dialogVars
-----------------------------------------------------------------------------
(* Properties *)

DialogTypeOK ==
  /\ backend \in [DialogEndpoints -> Endpoint]
  /\ current \in Ids
  /\ form \in Form
  /\ badge \in Status
  /\ buttons \subseteq StatusCmd
  /\ anc \in [of : Ids, quar : BOOLEAN]
  /\ panel \in [Panels -> Ids \cup {Loading, Ready}]
  /\ wizard \in Ids
  /\ dialogRows \in [DialogEndpoints -> Status]
  /\ drawn \in [DialogEndpoints -> Status] /\ undrawn \subseteq DialogEndpoints
  /\ catalog \in BOOLEAN /\ coaOnSave \in BOOLEAN /\ retry \in BOOLEAN
  /\ busy \subseteq Buttons
  /\ dialogCalls \subseteq DialogCall
  /\ clicks \in 0 .. MaxClicks
  /\ disturbed \subseteq DialogEndpoints

Undisturbed == DialogEndpoints \ disturbed
Out(ops, e) == \E c \in dialogCalls : c.op \in ops /\ c.id = e

\* An endpoint whose dialog was used one request at a time is never saved with
\* another endpoint's values, whatever overlaps the dialogs of others meet: no
\* answer, close or blank form of theirs reaches it.
OwnValues == \A e \in Undisturbed : backend[e].vals = e

\* Nor does it lose a role: roles the form does not offer are sent back as they
\* were, unless the catalog came to hold the role under the open dialog.
RolesSurvive == \A e \in Undisturbed : backend[e].role

\* Once nothing of it is out, its row in memory says what the backend holds, after
\* any sequence of commands and saves on it and on the others. The row on screen says
\* the same, unless the endpoint was set Aktiv or Inaktiv since the rows were last
\* drawn: then its badge may be the old one (browse-detail.js:1110), not more.
RowsTellTruth ==
  \A e \in Undisturbed :
    ~Out(StatusCmd \cup {"save", "coa", "refresh"}, e)
      => LET status == StatusOf(backend[e])
         IN  /\ dialogRows[e] = status
             /\ drawn[e].decomm = status.decomm
             /\ e \in undrawn \/ drawn[e] = status

\* Its dialog, once loaded, shows its status and quarantine, and offers exactly
\* the commands that status allows.
DialogTellsTruth ==
  \A e \in Undisturbed :
    (current = e /\ form.of = e
       /\ ~Out(DialogOps \ ({"sets", "sim", "rule", "timer"} \cup Panels), e))
      => /\ badge = StatusOf(backend[e])
         /\ buttons = ButtonsFor(badge)
         /\ anc.of = e => anc.quar = backend[e].quar

\* The table and the dialog tell the truth of it, each as far as stated above.
TruthShown == RowsTellTruth /\ DialogTellsTruth

=============================================================================
