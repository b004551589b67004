------------------------------- MODULE Dacls -------------------------------
(***************************************************************************)
(* The page of downloadable ACLs (views/dacls.js): a list, and an editor of  *)
(* the ACL that is selected.  The editor's Save and Delete work on what is   *)
(* selected when they are clicked, and a write, once answered, selects its   *)
(* result at once but draws it only after the list has been fetched again.   *)
(* Until then the editor may show another ACL, one opened meanwhile, and its *)
(* Save and Delete go to the one that was written.                           *)
(*                                                                          *)
(* An ACL's text is what the server has, or typed.  The check of its syntax  *)
(* and the filter of the list are left out.                                  *)
(***************************************************************************)
EXTENDS AdminCalls

CONSTANTS
    Acls,       \* ids an ACL may have
    FirstAcls   \* those there are at first

VARIABLES
    exist,      \* external: the ACLs of ISE
    dacls,      \* the list as it was last fetched
    items,      \* what the list shows: {} while it is loading or has failed
    selected,   \* "none", "new" or an ACL's id
    dirty,      \* leaving the editor asks first
    editor      \* the ACL it was drawn for, its text, its buttons that are off

daclVars == <<exist, dacls, items, selected, dirty, editor>>

Drawn(s) == [of |-> s, typed |-> FALSE, off |-> {}]
Call(op, id) == [n |-> Slot, op |-> op, id |-> id, of |-> editor.of,
                 after |-> {}, seen |-> exist]

(* A list asked for by a write that was answered; a refresh has op "list",   *)
(* the first one "first".  JustSaved: the ACLs whose save asked for one.     *)
AfterWrite == {"saved", "deleted"}
JustSaved == {c.id : c \in {d \in out : d.op = "saved"}}

DaclsInit ==
    /\ exist = FirstAcls
    /\ dacls = {} /\ items = {} /\ selected = "none" /\ dirty = FALSE
    /\ editor = Drawn("none")

(* The page's first loadList(false) is under way from the start.             *)
FirstCall == {[n |-> 1, op |-> "first", id |-> "none", of |-> "none",
               after |-> {}, seen |-> exist]}

----------------------------------------------------------------------------
(* The first list and those after a write end in the editor drawn anew.      *)
(* A mutation: they leave it.                                                *)
EditorLeft(c) == editor
EditorThen(c) == IF c.op = "list" THEN editor ELSE Drawn(selected')

(* The list's answer, read when it was asked for or now.  A new ACL has no   *)
(* id to be found by, so a refresh deselects it.                             *)
ListAnswer(c) ==
    /\ c.op \in AfterWrite \cup {"first", "list"}
    /\ \E ok \in BOOLEAN, got \in {c.seen, exist} :
         /\ dacls' = IF ok THEN got ELSE dacls
         /\ items' = IF ok THEN got ELSE {}
         /\ selected' = IF ok /\ c.op \in {"saved", "list"} /\ selected \notin got
                        THEN "none" ELSE selected
    /\ editor' = EditorThen(c)
    /\ out' = out \ {c}
    /\ UNCHANGED <<exist, dirty, acts>>

Refresh ==
    /\ User /\ Room
    /\ out' = out \cup {Call("list", "none")}
    /\ items' = {}
    /\ UNCHANGED <<exist, dacls, selected, dirty, editor>>

(* What the editor shows is replaced, and the list drawn from what is known; *)
(* before an editor with typed text is left the user is asked, and agrees.   *)
Select(s) ==
    /\ selected' = s /\ dirty' = FALSE
    /\ editor' = Drawn(s)
    /\ items' = dacls

New == User /\ Select("new") /\ UNCHANGED <<exist, dacls, out>>

Cancel ==
    /\ User
    /\ editor.of = "new"
    /\ Select("none")
    /\ UNCHANGED <<exist, dacls, out>>

Open(a) ==
    /\ User /\ Room
    /\ a \in items
    /\ out' = out \cup {Call("get", a)}
    /\ UNCHANGED daclVars

Opened(c) ==
    /\ c.op = "get" /\ c.id \in exist
    /\ Select(c.id)
    /\ out' = out \ {c}
    /\ UNCHANGED <<exist, dacls, acts>>

OpenFailed(c) ==
    /\ c.op = "get"
    /\ out' = out \ {c}
    /\ UNCHANGED <<daclVars, acts>>

Type ==
    /\ User
    /\ editor.of # "none"
    /\ editor' = [editor EXCEPT !.typed = TRUE]
    /\ dirty' = TRUE
    /\ UNCHANGED <<exist, dacls, items, selected, out>>

----------------------------------------------------------------------------
(* A write.  With nothing selected Save and Delete end in an error.  `after` *)
(* (history) are the ACLs just saved at the click.                           *)
Write(button, op) ==
    /\ User /\ Room
    /\ editor.of # "none" /\ button \notin {o[1] : o \in editor.off}
    /\ selected # "none"
    /\ out' = out \cup {[Call(op, selected) EXCEPT !.after = JustSaved]}
    /\ editor' = [editor EXCEPT !.off = @ \cup {<<button, Slot>>}]
    /\ UNCHANGED <<exist, dacls, items, selected, dirty>>

Save == Write("save", IF selected = "new" THEN "post" ELSE "put")
Delete == editor.of # "new" /\ Write("delete", "delete")

(* The result is selected and the list asked for; the editor stays.          *)
Written(c, s, op) ==
    /\ selected' = s /\ dirty' = FALSE
    /\ items' = {}
    /\ out' = (out \ {c}) \cup {[c EXCEPT !.op = op, !.id = s, !.seen = exist']}
    /\ UNCHANGED <<dacls, editor, acts>>

Updated(c) ==
    c.op = "put" /\ c.id \in exist /\ UNCHANGED exist /\ Written(c, c.id, "saved")

Created(c) ==
    /\ c.op = "post"
    /\ \E a \in Acls \ exist : exist' = exist \cup {a} /\ Written(c, a, "saved")

Deleted(c) ==
    /\ c.op = "delete" /\ c.id \in exist
    /\ exist' = exist \ {c.id}
    /\ Written(c, "none", "deleted")

(* The button comes on again, if its editor has not been drawn anew.         *)
WriteFailed(c) ==
    /\ c.op \in {"put", "post", "delete"}
    /\ editor' = [editor EXCEPT !.off = {o \in @ : o[2] # c.n}]
    /\ out' = out \ {c}
    /\ UNCHANGED <<exist, dacls, items, selected, dirty, acts>>

DaclsNext ==
    \/ Refresh \/ New \/ Cancel \/ Type \/ Save \/ Delete
    \/ \E a \in Acls : Open(a)
    \/ \E c \in out : \/ ListAnswer(c) \/ Opened(c) \/ OpenFailed(c)
                      \/ Updated(c) \/ Created(c) \/ Deleted(c) \/ WriteFailed(c)

----------------------------------------------------------------------------
DaclsTypeOK ==
    /\ items \subseteq Acls
    /\ {selected, editor.of} \subseteq Acls \cup {"none", "new"}
    /\ dirty \in BOOLEAN /\ editor.typed \in BOOLEAN
    /\ editor.off \subseteq {"save", "delete"} \X Slots

(* What is selected is what the editor shows, or nothing (a refresh of the   *)
(* list did not find it), or an ACL just saved.  So Save and Delete go to the*)
(* ACL that is shown, or to one that was just saved and whose list is not    *)
(* here yet (dacls.js:224), and to no other.                                 *)
DaclAsShown ==
    /\ selected \in {editor.of, "none"} \cup JustSaved
    /\ \A c \in out : c.op \in {"put", "post", "delete"} => c.id \in {c.of} \cup c.after
=============================================================================
