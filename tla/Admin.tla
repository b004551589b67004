-------------------------------- MODULE Admin --------------------------------
(***************************************************************************)
(* The administrator's pages: the policy page and those of AdminForms, one   *)
(* of which is open at a time.                                               *)
(***************************************************************************)
EXTENDS PolicyRules, AdminForms

CONSTANTS Clicks          \* what the user does on each page, at most MaxActs

vars == <<policyVars, formVars>>

Init ==
    /\ FormsInit
    /\ acts = MaxActs - Clicks[page]
    /\ PolicyInit

Next ==
    \/ FormsNext /\ UNCHANGED policyVars
    \/ /\ page = "policy" /\ PolicyNext
       /\ UNCHANGED <<settings, update, acls, templates, page>>

Spec == Init /\ [][Next]_vars

----------------------------------------------------------------------------
(* The state of every page has its type.                                     *)
TypeOK == (page = "policy" => PolicyTypeOK) /\ FormsTypeOK

(* On the policy page, a rule is written in its own set (policy.js:246-517). *)
RulesOwnSet == page = "policy" => RuleOwnSet

(* On the policy page, what its editor shows of a condition is what is saved,*)
(* and what was there before it was touched (policy-condition-builder.js:241)*)
ConditionsKept == page = "policy" => (SavedMeansShown /\ OpenedKeepsMeaning)
=============================================================================
