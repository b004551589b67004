------------------------------ MODULE Settings ------------------------------
(***************************************************************************)
(* The sections of the settings page that store their fields with the one    *)
(* PUT of the backend settings: the ISE connection, the cache, and, each     *)
(* with a GET first to keep what the others stored, the update branch, the   *)
(* pxGrid debug switch, the decommissioning defaults and guest registration. *)
(*                                                                          *)
(* A section's fields are one value: stored (what was there), new (what the  *)
(* user enters), default (what the server's schema gives a field that is not *)
(* sent) and html (what the form holds before it is filled).  One field has  *)
(* a value of its own: authz, the switch decomm_set_authz in the section of  *)
(* the decommissioning defaults.                                             *)
(***************************************************************************)
EXTENDS AdminCalls, Sequences

Sections == {"backend", "cache", "branch", "debug", "decomm", "guest"}
Toggles == {"branch", "debug"}
Fields == Sections \cup {"authz"}
FieldsOf(s) == IF s = "decomm" THEN {"decomm", "authz"} ELSE {s}
SectionOf(f) == IF f = "authz" THEN "decomm" ELSE f
Defaults == [f \in Fields |-> "default"]

VARIABLES
    stored,     \* the settings the server has, per field
    stage,      \* how far the page has filled its sections
    filling,    \* sections whose answer is not here yet
    form,       \* what the sections' forms hold
    busy,       \* sections whose save button is off
    log         \* history: the saves that were stored, in their order

settingsVars == <<stored, stage, filling, form, busy, log>>

(* The page waits for the ISE and the cache section before it goes on, and   *)
(* for others between them; the branch, the debug switch and decommissioning *)
(* are started and not waited for.                                           *)
Order == <<{"backend"}, {"cache"}, {"branch"}, {"debug", "decomm", "guest"}>>
Awaited == {"backend", "cache", "guest"}
Reached == UNION {Order[i] : i \in 1 .. stage}
Guarded == {"decomm", "guest"}

SettingsInit ==
    /\ stored = [f \in Fields |-> "stored"]
    /\ stage = 1 /\ filling = Order[1]
    /\ form = [f \in Fields |-> "html"]
    /\ busy = Guarded
    /\ log = <<>>

NextSections ==
    /\ stage < Len(Order)
    /\ filling \cap Awaited = {}
    /\ stage' = stage + 1
    /\ filling' = filling \cup Order[stage + 1]
    /\ UNCHANGED <<stored, form, busy, log, out, acts>>

(* get_backend_settings does not read decomm_set_authz: its default is told. *)
Reported == [stored EXCEPT !["authz"] = "default"]

(* The answers that fill the sections, or their failures, which leave the    *)
(* forms as the page has them; a save button that was off comes on.          *)
Fill(group) ==
    /\ group \subseteq filling
    /\ \E ok \in BOOLEAN :
         form' = [f \in Fields |->
                    IF ok /\ SectionOf(f) \in group THEN Reported[f] ELSE form[f]]
    /\ filling' = filling \ group
    /\ busy' = busy \ group
    /\ UNCHANGED <<stored, stage, log, out, acts>>

FillBackend == Fill({"backend"})
FillCache == Fill({"cache"})
FillBranch == Fill({"branch"})
FillAdvanced == Fill({"debug", "decomm"})
FillGuest == Fill({"guest"})

(* The handlers of a section the page waits for are set once it is filled.   *)
Wired(s) == s \in Reached /\ (s \in Awaited => s \notin filling)

Enter(f) ==
    /\ User
    /\ SectionOf(f) \in Reached \ Toggles
    /\ form[f] # "new"
    /\ form' = [form EXCEPT ![f] = "new"]
    /\ UNCHANGED <<stored, stage, filling, busy, log, out>>

----------------------------------------------------------------------------
(* Saving.  A call is first the GET of the present settings, then the PUT.   *)
(* What the form held at the click is sent, or what it holds when the GET is *)
(* answered: ReadLate.  `since` (history) is the number of saves that were   *)
(* stored before that answer.                                                *)
ReadLate == {"cache", "debug", "guest"}
Flip(v) == IF v = "new" THEN "stored" ELSE "new"

Of(s, values) == [f \in FieldsOf(s) |-> values[f]]
Call(s, step, v, body) ==
    [n |-> Slot, sec |-> s, step |-> step, val |-> v, body |-> body, since |-> 0]

(* The ISE section sends its own fields and asks for nothing; the browser    *)
(* does not submit it with the address missing.                              *)
BackendBody == [Defaults EXCEPT !["backend"] = form["backend"]]

SaveBackend ==
    /\ User /\ Room
    /\ Wired("backend") /\ form["backend"] # "html"
    /\ out' = out \cup {Call("backend", "put", Of("backend", form), BackendBody)}
    /\ UNCHANGED settingsVars

Ask(s, values) == out' = out \cup {Call(s, "get", Of(s, values), Defaults)}

SaveCache ==
    /\ User /\ Room
    /\ Wired("cache")
    /\ Ask("cache", form)
    /\ UNCHANGED settingsVars

(* A switch is stored when it is turned, again before an earlier turn is     *)
(* answered if the user likes.                                               *)
Turned(s) ==
    /\ User /\ Room
    /\ s \in Reached
    /\ form' = [form EXCEPT ![s] = Flip(@)]
    /\ Ask(s, form')
    /\ UNCHANGED <<stored, stage, filling, busy, log>>
TurnBranch == Turned("branch")
TurnDebug == Turned("debug")

(* A form whose button is off until its save has ended.                      *)
Submitted(s) ==
    /\ User /\ Room
    /\ Wired(s) /\ s \notin busy
    /\ busy' = busy \cup {s}
    /\ Ask(s, form)
    /\ UNCHANGED <<stored, stage, filling, form, log>>
(* With the switch on, an empty default is refused without a word.           *)
SaveDecomm ==
    /\ form["decomm"] = "html" => form["authz"] = "html"
    /\ Submitted("decomm")
SaveGuest == Submitted("guest")

(* The cache section sends the ISE connection it was given and its own       *)
(* fields, the others everything they were given but for their own.          *)
CacheBody(current, v) ==
    [Defaults EXCEPT !["backend"] = current["backend"], !["cache"] = v["cache"]]
With(v, body) == [f \in Fields |-> IF f \in DOMAIN v THEN v[f] ELSE body[f]]
(* A mutation: a section sends its own fields only.                          *)
BodyOwn(s, current, v) ==
    IF s = "cache" THEN CacheBody(current, v) ELSE With(v, Defaults)

Body(s, current, v) ==
    IF s = "cache" THEN CacheBody(current, v) ELSE With(v, current)

GetAnswer(c) ==
    /\ c.step = "get"
    /\ LET v == IF c.sec \in ReadLate THEN Of(c.sec, form) ELSE c.val
       IN out' = (out \ {c}) \cup {[c EXCEPT !.step = "put", !.val = v, !.since = Len(log),
                                           !.body = Body(c.sec, Reported, v)]}
    /\ UNCHANGED <<settingsVars, acts>>

(* update_backend_settings takes every field of the body but for             *)
(* decomm_set_authz; an empty number of the cache section is refused by the  *)
(* schema.                                                                   *)
Store(c) ==
    /\ c.step = "put"
    /\ c.body["cache"] # "html"
    /\ stored' = [c.body EXCEPT !["authz"] = stored["authz"]]
    /\ log' = Append(log, [sec |-> c.sec, val |-> c.val[c.sec], since |-> c.since])
    /\ out' = out \ {c}
    /\ busy' = busy \ {c.sec}
    /\ UNCHANGED <<stage, filling, form, acts>>

(* A failure of either call: a toggle is turned back from where it stands.   *)
SaveFailed(c) ==
    /\ out' = out \ {c}
    /\ busy' = busy \ {c.sec}
    /\ form' = IF c.sec \in Toggles THEN [form EXCEPT ![c.sec] = Flip(@)] ELSE form
    /\ UNCHANGED <<stored, stage, filling, log, acts>>

SettingsNext ==
    \/ NextSections \/ FillBackend \/ FillCache \/ FillBranch \/ FillAdvanced \/ FillGuest
    \/ \E f \in Fields : Enter(f)
    \/ SaveBackend \/ SaveCache \/ TurnBranch \/ TurnDebug \/ SaveDecomm \/ SaveGuest
    \/ \E c \in out : GetAnswer(c) \/ Store(c) \/ SaveFailed(c)

----------------------------------------------------------------------------
SettingsTypeOK ==
    /\ stage \in 1 .. Len(Order)
    /\ filling \subseteq Sections /\ busy \subseteq Guarded
    /\ \A f \in Fields : {stored[f], form[f]} \subseteq {"stored", "new", "default", "html"}
    /\ \A i \in 1 .. Len(log) : log[i].sec \in Sections /\ log[i].since < i

(* The sections that a save of s sets back to the defaults of the schema.    *)
ResetBy(s) ==
    CASE s = "backend" -> Sections \ {"backend"}
      [] s = "cache"   -> Sections \ {"backend", "cache"}
      [] OTHER         -> {}

(* The later save j may undo save i: it is of the same section, it resets    *)
(* that section, or it read the settings before i was stored.                *)
MayUndo(j, i) ==
    \/ log[j].sec = log[i].sec
    \/ log[i].sec \in ResetBy(log[j].sec)
    \/ log[j].since < i

(* What was saved of a section stays, whatever is saved of the others, until *)
(* one of these is stored: a new save of it, a save of the ISE connection    *)
(* (section-backend.js:105) or of the cache (section-cache.js:248), which    *)
(* send their own fields, or a save whose GET was answered before            *)
(* ({...current, ...}: section-update.js:309, 591, 617, 879).  Nothing is    *)
(* said of decomm_set_authz, which no save stores.                           *)
SavedStays ==
    \A i \in 1 .. Len(log) :
        \/ stored[log[i].sec] = log[i].val
        \/ \E j \in i + 1 .. Len(log) : MayUndo(j, i)
=============================================================================
