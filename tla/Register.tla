------------------------------ MODULE Register ------------------------------
\* The register view: its form, what is loaded for it, the vendor hint, the
\* camera, the list of own endpoints, and the page it lives in, which the
\* service worker can start without a connection.
EXTENDS OfflineQueue

CONSTANTS None,      \* no device
          MaxActs    \* bound: registrations, files chosen and what else is done in the view

VARIABLES page,      \* away, loading the lists, open, or dead: not started
          role,      \* registrant, who needs a template, or editor
          templates, \* the templates loaded
          form,      \* the device typed, whose platform is chosen, the template
          hint,      \* the device whose vendor is shown
          typing,    \* the 250 ms of the vendor lookup run
          asks,      \* reads that are out, by what they are for
          mine,      \* the list of own endpoints: hidden, the same but loaded, ...
          camera,    \* off, asked for, scanning, or left on by a cancelled scan
          shell,     \* the files the service worker has cached: part of them or all
          clicks     \* what the user has done besides registering

formVars == <<role, templates, form, hint, typing, asks, mine, camera>>
registerVars == <<page, shell, formVars, clicks>>

BlankForm == [mac |-> None, platform |-> None, tpl |-> "", key |-> FALSE]
Templates == {"t1", "t2"}
Ask == [op : {"lists", "key", "template", "mine"}, mac : {None}]
       \union [op : {"vendor"}, mac : Macs]
Read(op) == [op |-> op, mac |-> None]

RegisterInit == /\ page = "away"
                /\ role \in {"registrant", "editor"}
                /\ templates = {} /\ form = BlankForm
                /\ hint = None /\ typing = FALSE
                /\ asks = {} /\ mine = "hidden" /\ camera = "off"
                /\ shell = "part"
                /\ clicks = 0

----------------------------------------------------------------------------
\* Opening the view: the groups, the other lists and the templates are read.

Open ==
    /\ page = "away" /\ page' = "loading"
    /\ asks' = {Read("lists")}
    /\ form' = BlankForm /\ hint' = None /\ typing' = FALSE /\ mine' = "hidden"
    /\ templates' = {}
    /\ UNCHANGED <<role, camera, shell, clicks, queueVars>>

\* A list that fails is shown as an error and left empty.
ListsLoaded ==
    /\ Read("lists") \in asks
    /\ asks' = asks \ {Read("lists")}
    /\ page' = "open"
    /\ templates' \in {{}, {"t1"}}
    /\ ShowBanner
    /\ UNCHANGED <<role, form, hint, typing, mine, camera, shell, clicks>>

Click == /\ page = "open" /\ clicks + regs < MaxActs /\ clicks' = clicks + 1
         /\ UNCHANGED <<page, role, shell, queueVars>>

\* Every key restarts the 250 ms after which the vendor is looked up.
TypeMac(m) ==
    /\ Click
    /\ form' = [form EXCEPT !.mac = m] /\ typing' = TRUE
    /\ UNCHANGED <<templates, hint, asks, mine, camera>>

LookupVendor ==
    /\ typing /\ typing' = FALSE
    /\ IF form.mac = None THEN hint' = None /\ UNCHANGED asks
       ELSE asks' = asks \union {[op |-> "vendor", mac |-> form.mac]} /\ UNCHANGED hint
    /\ UNCHANGED <<page, role, templates, form, mine, camera, shell, clicks, queueVars>>

\* Shown whatever the form holds by now; a failure hides it.
VendorShown(a) ==
    /\ a \in asks /\ a.op = "vendor"
    /\ asks' = asks \ {a}
    /\ hint' \in {a.mac, None}
    /\ UNCHANGED <<page, role, templates, form, typing, mine, camera, shell, clicks, queueVars>>

ApplyPlatform ==
    /\ Click /\ hint # None
    /\ form' = [form EXCEPT !.platform = hint]
    /\ UNCHANGED <<templates, hint, typing, asks, mine, camera>>

ApplyTemplate ==
    /\ Click /\ templates # {}
    /\ \E tpl \in templates, p \in {form.platform, None} :
          form' = [form EXCEPT !.tpl = tpl, !.platform = p]
    /\ UNCHANGED <<templates, hint, typing, asks, mine, camera>>

\* The button is disabled while its request is out.
AskFor(op) ==
    /\ Click /\ Read(op) \notin asks
    /\ op \in {"key", "template"} => role = "editor"
    /\ asks' = asks \union {Read(op)}
    /\ UNCHANGED <<templates, form, hint, typing, mine, camera>>

KeyGenerated ==
    /\ Read("key") \in asks
    /\ asks' = asks \ {Read("key")}
    /\ \E ok \in BOOLEAN : form' = [form EXCEPT !.key = @ \/ ok]
    /\ UNCHANGED <<page, role, templates, hint, typing, mine, camera, shell, clicks, queueVars>>

\* The list is read again and the choice starts over; a failed read empties it.
TemplateSaved ==
    /\ Read("template") \in asks
    /\ asks' = asks \ {Read("template")}
    /\ \/ UNCHANGED <<templates, form>>
       \/ /\ templates' \in {{}, templates \union {"t2"}}
          /\ form' = [form EXCEPT !.tpl = ""]
    /\ UNCHANGED <<page, role, hint, typing, mine, camera, shell, clicks, queueVars>>

\* The list is loaded once; a second click while it loads hides it.
ToggleMine ==
    /\ Click
    /\ CASE mine \in {"loading", "failed"} -> mine' = "hidden" /\ UNCHANGED asks
         [] mine = "shown" -> mine' = "loaded" /\ UNCHANGED asks
         [] mine = "loaded" -> mine' = "shown" /\ UNCHANGED asks
         [] mine = "hidden" -> mine' = "loading" /\ asks' = asks \union {Read("mine")}
    /\ UNCHANGED <<templates, form, hint, typing, camera>>

MineLoaded ==
    /\ Read("mine") \in asks
    /\ asks' = asks \ {Read("mine")}
    /\ mine' \in IF mine = "hidden" THEN {"hidden", "loaded"} ELSE {"shown", "failed"}
    /\ UNCHANGED <<page, role, templates, form, hint, typing, camera, shell, clicks, queueVars>>

\* The camera is asked for, scans until a code holds a device, and is let go;
\* a scan cancelled before the camera is there never lets go of it.
Scan == /\ Click /\ camera = "off" /\ camera' = "asked"
        /\ UNCHANGED <<templates, form, hint, typing, asks, mine>>

CameraGranted ==
    /\ camera \in {"asked", "cancelled"}
    /\ camera' = IF camera = "asked" THEN "scanning" ELSE "left on"
    /\ UNCHANGED <<page, role, templates, form, hint, typing, asks, mine, shell, clicks, queueVars>>

CameraDenied ==
    /\ camera \in {"asked", "cancelled"} /\ camera' = "off"
    /\ UNCHANGED <<page, role, templates, form, hint, typing, asks, mine, shell, clicks, queueVars>>

ScanCancelled ==
    /\ camera \in {"asked", "scanning"}
    /\ camera' = IF camera = "asked" THEN "cancelled" ELSE "off"
    /\ UNCHANGED <<page, role, templates, form, hint, typing, asks, mine, shell, clicks, queueVars>>

Scanned(m) ==
    /\ camera = "scanning" /\ camera' = "off"
    /\ IF page = "open" THEN form' = [form EXCEPT !.mac = m] /\ typing' = TRUE
       ELSE UNCHANGED <<form, typing>>
    /\ UNCHANGED <<page, role, templates, hint, asks, mine, shell, clicks, queueVars>>

----------------------------------------------------------------------------
\* Registering.

\* The device may be typed and the template chosen just before.
SubmitForm ==
    /\ page = "open" /\ clicks + regs < MaxActs
    /\ role = "registrant" => templates # {}
    /\ \E m \in IF form.mac = None THEN Macs ELSE {form.mac} :
          Submit(m) /\ form' = [form EXCEPT !.mac = m]
    /\ UNCHANGED <<page, role, templates, hint, typing, asks, mine, camera, shell, clicks>>

ResetForm == form' = BlankForm /\ hint' = None

\* A form that has registered, or queued, starts over; one that met an error stays.
SubmitDone(c) ==
    /\ SubmitAnswered(c)
    /\ IF c.by = Form /\ c.st = "ok" THEN ResetForm ELSE UNCHANGED <<form, hint>>
    /\ UNCHANGED <<page, role, templates, typing, asks, mine, camera, shell, clicks>>

SubmitQueued(c) ==
    /\ Enqueue(c)
    /\ IF c.by = Form THEN ResetForm ELSE UNCHANGED <<form, hint>>
    /\ UNCHANGED <<page, role, templates, typing, asks, mine, camera, shell, clicks>>

----------------------------------------------------------------------------
\* The page.

Leave ==
    /\ page \in {"loading", "open"} /\ page' = "away"
    /\ LeaveQueue
    /\ asks' = {} /\ form' = BlankForm /\ hint' = None /\ typing' = FALSE /\ mine' = "hidden"
    /\ templates' = {}
    /\ UNCHANGED <<role, camera, shell, clicks>>

\* The worker caches a part of the files when it is installed, at the first
\* visit, and all that are fetched while it is there; without them and without
\* a connection the page does not start.  Log out ends here too.
Cached == IF online THEN "all" ELSE shell

Load ==
    /\ ReloadQueue
    /\ shell' = Cached
    /\ page' = IF online \/ shell = "all" THEN "away" ELSE "dead"
    /\ asks' = {} /\ form' = BlankForm /\ hint' = None /\ typing' = FALSE /\ mine' = "hidden"
    /\ templates' = {} /\ camera' = "off"
    /\ UNCHANGED <<role, clicks>>

LoadAgain ==
    /\ page = "dead" /\ online
    /\ page' = "away"
    /\ shell' = Cached
    /\ UNCHANGED <<formVars, clicks, queueVars>>

Fill == \/ \E m \in Macs \union {None} : TypeMac(m)
        \/ \E m \in Macs : Scanned(m)
        \/ LookupVendor
        \/ \E a \in asks : VendorShown(a)
        \/ ApplyPlatform \/ ApplyTemplate
        \/ \E op \in {"key", "template"} : AskFor(op)
        \/ KeyGenerated \/ TemplateSaved \/ ToggleMine \/ MineLoaded
        \/ Scan \/ CameraGranted \/ CameraDenied \/ ScanCancelled

\* The queue and the network, whatever the view does.
Beneath == /\ \/ FlushClicked \/ FlushAnswered
              \/ \E c \in calls : Serve(c) \/ GhostLost(c)
              \/ GoOffline
              \/ (page # "dead" /\ GoOnline)
           /\ UNCHANGED registerVars

\* Without a page there is nobody to hear that the connection is back.
ReconnectDead == /\ page = "dead" /\ ~online /\ online' = TRUE
                 /\ UNCHANGED <<faults, regs, macOf, queue, todo, sent, origin, calls, ise,
                                made, refused, ready, banner, registerVars>>

RegisterNext == \/ Open \/ ListsLoaded \/ Fill \/ SubmitForm
                \/ \E c \in calls : SubmitDone(c) \/ SubmitQueued(c)
                \/ Leave \/ Load \/ LoadAgain \/ Beneath \/ ReconnectDead
=============================================================================
