----------------------------- MODULE Templates -----------------------------
(***************************************************************************)
(* The templates section of the settings (settings/section-templates.js):  *)
(* one form, hidden until a template is opened from the list or a new one is*)
(* begun, and hidden again by every answer of a save or a deletion, of     *)
(* whatever template the form shows by then.                               *)
(*                                                                         *)
(* A field's value is named for the template it was stored or entered for; *)
(* "" is empty.  A select drops a value it does not offer.                 *)
(***************************************************************************)
EXTENDS AdminCalls

CONSTANTS
    Ids,        \* ids a template may have
    FirstIds,   \* those there are at first
    WithGroup     \* templates whose group is in the list of groups

Fields == {"name", "group", "static"}
Selects == {"group"}
Blank == ""

VARIABLES
    tpls,       \* external: the templates of the server, [id -> fields]
    listed,     \* the list as it is shown
    draft,      \* shown or hidden, the id it saves to, its fields
    saving      \* the Save button is off

templateVars == <<tpls, listed, draft, saving>>

Empty == [f \in Fields |-> Blank]
Hidden == [shown |-> FALSE, id |-> Blank, fields |-> Empty]
NoList == [t \in {} |-> Empty]
Subject == IF draft.id = Blank THEN "new" ELSE draft.id

TemplatesInit ==
    /\ tpls = [t \in FirstIds |-> [f \in Fields |-> t]]
    /\ listed = NoList /\ draft = Hidden /\ saving = FALSE

Call(op, id, body) == [n |-> Slot, op |-> op, id |-> id, body |-> body]
FirstList == {[n |-> 1, op |-> "list", id |-> Blank, body |-> Empty]}

----------------------------------------------------------------------------
(* The list's answer; its buttons know the templates they were drawn with. *)
Listed(c) ==
    /\ c.op = "list"
    /\ listed' \in {tpls, NoList}
    /\ out' = out \ {c}
    /\ UNCHANGED <<tpls, draft, saving, acts>>

resetForm == Hidden

fillForm(t) ==
    [shown |-> TRUE, id |-> t,
     fields |-> [f \in Fields |->
         IF f \in Selects /\ t \notin WithGroup THEN Blank ELSE listed[t][f]]]

New ==
    /\ User
    /\ draft' = [resetForm EXCEPT !.shown = TRUE]
    /\ UNCHANGED <<tpls, listed, saving, out>>

Edit(t) ==
    /\ User
    /\ t \in DOMAIN listed
    /\ draft' = fillForm(t)
    /\ UNCHANGED <<tpls, listed, saving, out>>

Cancel ==
    /\ User
    /\ draft.shown
    /\ draft' = resetForm
    /\ UNCHANGED <<tpls, listed, saving, out>>

Enter(f) ==
    /\ User
    /\ draft.shown
    /\ draft' = [draft EXCEPT !.fields[f] = Subject]
    /\ UNCHANGED <<tpls, listed, saving, out>>

----------------------------------------------------------------------------
(* Saving takes the form as it is at the click; a name is required.        *)
Save ==
    /\ User /\ Room
    /\ draft.shown /\ ~saving
    /\ draft.fields["name"] # Blank
    /\ out' = out \cup {Call(IF draft.id = Blank THEN "create" ELSE "update", draft.id, draft.fields)}
    /\ saving' = TRUE
    /\ UNCHANGED <<tpls, listed, draft>>

Delete(t) ==
    /\ User /\ Room
    /\ t \in DOMAIN listed
    /\ out' = out \cup {Call("delete", t, Empty)}
    /\ UNCHANGED templateVars

(* The template with its values named for it.                              *)
Named(body, t) == [f \in Fields |-> IF body[f] = "new" THEN t ELSE body[f]]

Done(c) ==
    CASE c.op = "update" -> c.id \in DOMAIN tpls /\ tpls' = [tpls EXCEPT ![c.id] = c.body]
      [] c.op = "create" -> \E t \in Ids \ DOMAIN tpls :
            tpls' = [s \in DOMAIN tpls \cup {t} |->
                          IF s = t THEN Named(c.body, t) ELSE tpls[s]]
      [] c.op = "delete" -> /\ c.id \in DOMAIN tpls
                            /\ tpls' = [s \in DOMAIN tpls \ {c.id} |-> tpls[s]]

(* The form is reset and the list fetched; Save comes on when that has ended*)
(* too, however it ended.                                                  *)
Written(c) ==
    /\ c.op \in {"create", "update", "delete"}
    /\ Done(c)
    /\ draft' = resetForm
    /\ out' = (out \ {c}) \cup {[c EXCEPT !.op = IF c.op = "delete" THEN "list" ELSE "relist",
                                          !.body = Empty]}
    /\ UNCHANGED <<listed, saving, acts>>

Relisted(c) ==
    /\ c.op = "relist"
    /\ listed' \in {tpls, NoList}
    /\ saving' = FALSE
    /\ out' = out \ {c}
    /\ UNCHANGED <<tpls, draft, acts>>

WriteFailed(c) ==
    /\ c.op \in {"create", "update", "delete"}
    /\ saving' = (saving /\ c.op = "delete")
    /\ out' = out \ {c}
    /\ UNCHANGED <<tpls, listed, draft, acts>>

TemplatesNext ==
    \/ New \/ Cancel \/ Save
    \/ \E t \in Ids : Edit(t) \/ Delete(t)
    \/ \E f \in Fields : Enter(f)
    \/ \E c \in out : Listed(c) \/ Written(c) \/ Relisted(c) \/ WriteFailed(c)

----------------------------------------------------------------------------
Values == Ids \cup {Blank, "new"}

TemplatesTypeOK ==
    /\ draft.shown \in BOOLEAN /\ draft.id \in Ids \cup {Blank}
    /\ \A f \in Fields : draft.fields[f] \in Values
    /\ saving \in BOOLEAN

(* What the form shows, and what is saved and stored, is all of one        *)
(* template: nothing of the one the form showed before it is left in it,   *)
(* however the answers that hide it fall between.                          *)
OneTemplate ==
    /\ \A f \in Fields : draft.fields[f] \in {Blank, Subject}
    /\ \A c \in out : \A f \in Fields :
         c.body[f] \in {Blank, IF c.op = "create" THEN "new" ELSE c.id}
    /\ \A t \in DOMAIN tpls : \A f \in Fields : tpls[t][f] \in {Blank, t}
=============================================================================
