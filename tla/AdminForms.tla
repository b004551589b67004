----------------------------- MODULE AdminForms -----------------------------
(***************************************************************************)
(* The administrator's pages without the policy page: the page of            *)
(* downloadable ACLs, and, of the settings page, the sections that store the *)
(* backend settings, the update cards and the templates.  One page is open   *)
(* at a time, and its answers come in any order.  Admin adds the policy      *)
(* page.                                                                     *)
(***************************************************************************)
EXTENDS AdminCalls

CONSTANTS Packages, Good, MaxPolls, Acls, FirstAcls, Ids, FirstIds, WithGroup

VARIABLES page, stored, stage, filling, form, busy, log,
          chosen, validated, preview, on, pullShown, applied, server, poll,
          exist, dacls, items, selected, dirty, editor,
          tpls, listed, draft, saving

S == INSTANCE Settings
U == INSTANCE SystemUpdate
D == INSTANCE Dacls
T == INSTANCE Templates

(* The ids the server gives, and none of them empty.                         *)
ASSUME FormsAssumption ==
    /\ FirstIds \subseteq Ids /\ T!Blank \notin Ids
    /\ FirstAcls \subseteq Acls

settings == <<stored, stage, filling, form, busy, log>>
update == <<chosen, validated, preview, on, pullShown, applied, server, poll>>
acls == <<exist, dacls, items, selected, dirty, editor>>
templates == <<tpls, listed, draft, saving>>
formVars == <<settings, update, acls, templates, out, acts, page>>

(* The lists of ACLs and of templates are asked for at once.                 *)
FormsInit ==
    /\ page \in {"policy", "settings", "update", "dacls", "templates"}
    /\ acts \in 0 .. MaxActs
    /\ S!SettingsInit /\ U!UpdateInit /\ D!DaclsInit /\ T!TemplatesInit
    /\ out = CASE page = "dacls" -> D!FirstCall
                [] page = "templates" -> T!FirstList
                [] OTHER -> {}

FormsNext ==
    \/ /\ page = "settings" /\ S!SettingsNext
       /\ UNCHANGED <<update, acls, templates, page>>
    \/ /\ page = "update" /\ U!UpdateNext
       /\ UNCHANGED <<settings, acls, templates, page>>
    \/ /\ page = "dacls" /\ D!DaclsNext
       /\ UNCHANGED <<settings, update, templates, page>>
    \/ /\ page = "templates" /\ T!TemplatesNext
       /\ UNCHANGED <<settings, update, acls, page>>

----------------------------------------------------------------------------
FormsTypeOK ==
    /\ S!SettingsTypeOK
    /\ U!UpdateTypeOK
    /\ D!DaclsTypeOK
    /\ T!TemplatesTypeOK

(* The properties of the pages, each while its page is open; their modules   *)
(* say more.  What was saved of a section of the settings stays until it is  *)
(* saved again, the ISE connection or the cache is saved, or a save is stored*)
(* that read the settings before (section-update.js:304-324 and 587-624).    *)
SavedStays == page = "settings" => S!SavedStays

(* No package is applied that the server refused, and no pull meets another  *)
(* or a check (section-update.js:46-147 and 380-446).                        *)
UpdatesFit == page = "update" => (U!AppliesFit /\ U!PullAlone)

(* The editor of ACLs saves to, and deletes, the one it shows; or, while the *)
(* list is fetched after a save, the one that was saved (dacls.js:205-252).  *)
(* The form of templates is all of one template, and saved to that one       *)
(* (section-templates.js:86-122 and 219-250).                                *)
EditorsOwn ==
    /\ page = "dacls" => D!DaclAsShown
    /\ page = "templates" => T!OneTemplate
=============================================================================
