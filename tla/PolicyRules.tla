---------------------------- MODULE PolicyRules ----------------------------
(***************************************************************************)
(* The policy page (views/policy.js): policy sets, the rules of the one that *)
(* was chosen, and a panel with a rule's detail or its editor.  Every answer *)
(* redraws the list, whatever has been chosen since it was asked for; every  *)
(* handler keeps the rule and the set it was made for.                       *)
(*                                                                          *)
(* A rule's id names its set, so a call to the wrong set can be told.  Name, *)
(* rank and state of a rule go with its condition; messages are left out.    *)
(***************************************************************************)
EXTENDS Conditions, AdminCalls

CONSTANTS
    Sets,       \* policy sets
    Profiles,   \* authorization profiles
    Conds,      \* conditions the rules have in ISE
    MaxNodes    \* groups and rows in an editor

\* A condition of ISE is finite: MaxNodes bounds its levels too.
ASSUME PolicyAssumption == MaxNodes \in Nat /\ Conds \subseteq Condition(MaxNodes)

VARIABLES
    rules,      \* external: the rules each set has in ISE
    sel, rid,   \* selectedSetId, selectedRuleId: {} or {it}
    cards,      \* the rule list: the set and rules it was drawn from, the open card
    panel,      \* the right panel
    lists       \* attributes whose values have been loaded (caValues)

policyVars == <<rules, sel, rid, cards, panel, lists>>

Rule(s, n, c, p) == [id |-> <<s, n>>, cond |-> c, profs |-> p]
Home(r) == r.id[1]
IsDefault(r) == r.id[2] = "default"

NoCards == [set |-> {}, rules |-> {}, open |-> {}]
NoRule == Rule("none", "none", <<>>, {})
NoPanel == [kind |-> "none", set |-> {}, rule |-> NoRule, tree |-> <<>>,
            profs |-> {}, busy |-> FALSE, touched |-> FALSE]
IsNew(p) == p.rule = NoRule

PolicyInit ==
    /\ \E c \in Conds :
         rules = [s \in Sets |->
                     {Rule(s, "rule", <<c>>, Profiles), Rule(s, "other", <<c>>, Profiles),
                      Rule(s, "default", <<>>, Profiles)}]
    /\ sel = {} /\ rid = {} /\ cards = NoCards /\ panel = NoPanel
    /\ lists = {}

----------------------------------------------------------------------------
(* Calls.  `here` is whether the panel that sent a save is still the one in  *)
(* the page.                                                                 *)
Call(k, s, r) == [n |-> Slot, kind |-> k, set |-> s, rule |-> r, here |-> TRUE]

Gone(cs) == {[c EXCEPT !.here = FALSE] : c \in cs}

(* The panel is replaced: what the old one sent is no longer shown.          *)
Show(p, r, calls) == panel' = p /\ rid' = r /\ out' = Gone(calls)
ClearDetail(calls) == Show(NoPanel, {}, calls)

(* A mutation: the detail works on the set that is chosen.                   *)
DetailOfChosen(r, s) == [NoPanel EXCEPT !.kind = "detail", !.set = sel, !.rule = r]

DetailOf(r, s) == [NoPanel EXCEPT !.kind = "detail", !.set = {s}, !.rule = r]
ShowDetail(r, s, calls) == Show(DetailOf(r, s), {r.id}, calls)

EditorOf(r, s) ==
    [kind |-> "editor", set |-> {s}, rule |-> r,
     tree |-> IF IsDefault(r) THEN <<>>
              ELSE <<GroupOf(IF r.cond = <<>> THEN Reference ELSE r.cond[1], lists)>>,
     profs |-> r.profs, busy |-> FALSE, touched |-> FALSE]

----------------------------------------------------------------------------
(* The list.                                                                 *)
SelectSet(s) ==
    /\ User /\ Room
    /\ sel' = {s}
    /\ cards' = NoCards
    /\ ClearDetail(out \cup {Call("list", s, NoRule)})
    /\ UNCHANGED <<rules, lists>>

RulesAnswer(c) ==
    /\ c.kind = "list"
    /\ cards' = [set |-> {c.set}, rules |-> rules[c.set],
                 open |-> rid \cap {r.id : r \in rules[c.set]}]
    /\ LET rest == out \ {c}
           still == {r \in rules[c.set] : r.id \in rid}
       IN CASE still # {} -> \E r \in still : ShowDetail(r, c.set, rest)
            [] still = {} /\ (rid # {} \/ rules[c.set] = {}) -> ClearDetail(rest)
            [] OTHER -> out' = rest /\ UNCHANGED <<panel, rid>>
    /\ UNCHANGED <<rules, sel, lists, acts>>

RulesFailed(c) ==
    /\ c.kind = "list"
    /\ cards' = NoCards
    /\ out' = out \ {c}
    /\ UNCHANGED <<rules, sel, rid, panel, lists, acts>>

CardClick(r) ==
    /\ User
    /\ r \in cards.rules
    /\ cards' = [cards EXCEPT !.open = IF r.id \in @ THEN {} ELSE {r.id}]
    /\ CASE r.id \notin cards.open -> \E s \in cards.set : ShowDetail(r, s, out)
         [] r.id \in cards.open /\ rid = {r.id} -> ClearDetail(out)
         [] OTHER -> UNCHANGED <<panel, rid, out>>
    /\ UNCHANGED <<rules, sel, lists>>

(* A card dropped on another takes its rank: the rule is written as the list *)
(* has it.                                                                   *)
CardDrop(r, q) ==
    /\ User /\ Room
    /\ {r, q} \subseteq cards.rules /\ r # q
    /\ ~IsDefault(r) /\ ~IsDefault(q)
    /\ \E s \in cards.set : out' = out \cup {[Call("put", s, r) EXCEPT !.here = FALSE]}
    /\ UNCHANGED <<rules, sel, rid, cards, panel, lists>>

----------------------------------------------------------------------------
(* The detail and the editor.                                                *)
Edit ==
    /\ User
    /\ panel.kind = "detail"
    /\ \E s \in panel.set : Show(EditorOf(panel.rule, s), {panel.rule.id}, out)
    /\ UNCHANGED <<rules, sel, cards, lists>>

NewRule ==
    /\ User
    /\ \E s \in sel : Show(EditorOf(NoRule, s), rid, out)
    /\ UNCHANGED <<rules, sel, cards, lists>>

Cancel ==
    /\ User
    /\ panel.kind = "editor"
    /\ IF IsNew(panel) THEN ClearDetail(out)
       ELSE \E s \in panel.set : ShowDetail(panel.rule, s, out)
    /\ UNCHANGED <<rules, sel, cards, lists>>

Delete ==
    /\ User /\ Room
    /\ panel.kind = "detail" /\ ~IsDefault(panel.rule)
    /\ \E s \in panel.set : out' = out \cup {Call("del", s, panel.rule)}
    /\ UNCHANGED <<rules, sel, rid, cards, panel, lists>>

(* The condition the editor holds, <<>> for none and for the default rule.   *)
ReadCondition == IF panel.tree = <<>> THEN <<>> ELSE ReadGroup(panel.tree[1])

Save ==
    /\ User /\ Room
    /\ panel.kind = "editor" /\ ~panel.busy
    /\ IsDefault(panel.rule) \/ ReadCondition # <<>>
    /\ panel.profs # {}
    /\ panel' = [panel EXCEPT !.busy = TRUE]
    /\ \E s \in panel.set :
         LET id == IF IsNew(panel) THEN <<s, "new">> ELSE panel.rule.id
             kind == IF IsNew(panel) THEN "post" ELSE "put"
         IN out' = out \cup {Call(kind, s, [id |-> id, cond |-> ReadCondition, profs |-> panel.profs])}
    /\ UNCHANGED <<rules, sel, rid, cards, lists>>

(* ISE does a call's work; a rule that is not in the call's set is an error. *)
Without(s, id) == {r \in rules[s] : r.id # id}
Known(c) == c.rule.id \in {r.id : r \in rules[c.set]}
Done(c) ==
    [rules EXCEPT ![c.set] = CASE c.kind = "del" -> Without(c.set, c.rule.id)
                               [] OTHER -> Without(c.set, c.rule.id) \cup {c.rule}]

(* After a write the rules are read again: of the set it went to.            *)
Reload(c) == [c EXCEPT !.kind = "list", !.rule = NoRule, !.here = TRUE]
Writes == {"put", "post", "del"}

WriteAnswer(c) ==
    /\ c.kind \in Writes
    /\ c.kind = "post" \/ Known(c)
    /\ rules' = Done(c)
    /\ cards' = NoCards
    /\ LET next == (out \ {c}) \cup {Reload(c)}
       IN CASE c.kind = "del" -> ClearDetail(next)
            [] c.kind = "post" -> rid' = {} /\ out' = next /\ UNCHANGED panel
            [] OTHER -> out' = next /\ UNCHANGED <<rid, panel>>
    /\ UNCHANGED <<sel, lists, acts>>

(* An error, or an answer that is lost after ISE did the work.               *)
WriteFailed(c) ==
    /\ c.kind \in Writes
    /\ rules' \in {rules} \cup (IF c.kind = "post" \/ Known(c) THEN {Done(c)} ELSE {})
    /\ out' = out \ {c}
    /\ panel' = IF c.here THEN [panel EXCEPT !.busy = FALSE] ELSE panel
    /\ UNCHANGED <<sel, rid, cards, lists, acts>>

(* Attribute values and identity groups arrive whenever they do.             *)
ListsArrive ==
    /\ \E a \in {"Active", "Group"} \ lists : lists' = lists \cup {a}
    /\ UNCHANGED <<rules, sel, rid, cards, panel, out, acts>>

----------------------------------------------------------------------------
(* Editing.                                                                  *)
Edited(tree) ==
    /\ Cardinality(Paths(tree)) <= MaxNodes
    /\ panel' = [panel EXCEPT !.tree = <<tree>>, !.touched = TRUE]

EditCondition ==
    /\ User
    /\ panel.kind = "editor" /\ panel.tree # <<>>
    /\ UNCHANGED <<rules, sel, rid, cards, lists, out>>
    /\ LET tree == panel.tree[1]
       IN \/ \E p \in GroupPaths(tree) :
               \/ Edited(Appended(tree, p, NewRow(lists)))
               \/ Edited(Appended(tree, p, NewGroup(lists)))
               \/ \E t \in {"AND", "OR"} : Edited(Put(tree, p, [At(tree, p) EXCEPT !.type = t]))
          \/ \E p \in Paths(tree) \ {<<>>} :
               \/ Edited(Removed(tree, p))
               \/ \E q \in Paths(tree), b \in BOOLEAN :
                    MayDrop(p, q) /\ Edited(Moved(tree, p, q, b))
          \/ \E p \in RowPaths(tree) :
               LET row == At(tree, p)
               IN \/ \E v \in Offered(row) : Edited(Put(tree, p, ValueChosen(row, v)))
                  \/ \E a \in Editable \ {row.attr} : Edited(Put(tree, p, AttrChosen(row, a, lists)))
                  \/ \E o \in ListedOps : Edited(Put(tree, p, [row EXCEPT !.op = o]))

EditProfiles ==
    /\ User
    /\ panel.kind = "editor"
    /\ \E p \in Profiles :
         panel' = [panel EXCEPT !.profs = IF p \in @ THEN @ \ {p} ELSE @ \cup {p}]
    /\ UNCHANGED <<rules, sel, rid, cards, lists, out>>

PolicyNext ==
    \/ \E s \in Sets : SelectSet(s)
    \/ \E c \in out : RulesAnswer(c) \/ RulesFailed(c) \/ WriteAnswer(c) \/ WriteFailed(c)
    \/ \E r \in cards.rules : CardClick(r) \/ \E q \in cards.rules : CardDrop(r, q)
    \/ Edit \/ NewRule \/ Cancel \/ Delete \/ Save
    \/ ListsArrive \/ EditCondition \/ EditProfiles

----------------------------------------------------------------------------
PolicyTypeOK ==
    /\ sel \in SUBSET Sets /\ Cardinality(rid) <= 1
    /\ panel.kind \in {"none", "detail", "editor"}
    /\ \A c \in out : c.n \in Slots /\ c.set \in Sets
    /\ Cardinality({c.n : c \in out}) = Cardinality(out)

(* A rule is saved, moved and deleted in the set it belongs to, though the   *)
(* list may show the rules of a set whose answer came late, under the name   *)
(* of another (the closures over setId, policy.js:246-393 and 396-517).      *)
RuleOwnSet ==
    \A c \in out : c.kind \in Writes => c.set = Home(c.rule)

(* What the editor saves means what its groups and rows say: empty groups    *)
(* count for nothing, a group of one comparison is that comparison           *)
(* (policy-condition-builder.js:472-509).                                    *)
SavedMeansShown ==
    ReadCondition # <<>> =>
        \A true \in SUBSET (Comparisons(ReadCondition[1])
                               \cup {ShownComparison(r) : r \in Rows(panel.tree[1])}) :
            Holds(ReadCondition[1], true) <=> ShownHolds(panel.tree[1], true)

(* The editor "preserves ISE's nesting" (policy-condition-builder.js:241):   *)
(* a rule with a condition the editor has widgets for can be opened and      *)
(* saved, untouched, without changing what the condition means; and what was *)
(* once read from the editor can be opened again and reads the same.         *)
OpenedKeepsMeaning ==
    /\ (panel.kind = "editor" /\ ~panel.touched) =>
         \A i \in DOMAIN panel.rule.cond :
            Supported(panel.rule.cond[i]) =>
                /\ ReadCondition # <<>>
                /\ Equivalent(ReadCondition[1], panel.rule.cond[i])
    /\ (ReadCondition # <<>> /\ Supported(ReadCondition[1])) =>
         ReadGroup(GroupOf(ReadCondition[1], lists)) = ReadCondition
=============================================================================
