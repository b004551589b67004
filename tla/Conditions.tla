----------------------------- MODULE Conditions -----------------------------
(***************************************************************************)
(* The condition editor of a policy rule (policy-condition-builder.js): a   *)
(* condition of ISE is drawn as a tree of groups and rows, edited there, and *)
(* read back into a condition when the rule is saved.                        *)
(*                                                                          *)
(* Abstractions.  A dictionary and an attribute are one name: Owner (free    *)
(* text), Active (a list of values and "other"), Group (the identity group,  *)
(* a list without "other"), Custom (an attribute the editor does not list in *)
(* a dictionary it does), Foreign (a dictionary it does not list) and None.  *)
(* A value is "" or one of listed (in the attribute's list), bare (a group   *)
(* name without its prefix: the prefix makes it listed) and other.           *)
(***************************************************************************)
EXTENDS Naturals, SequencesExt

Editable == {"Owner", "Active", "Group"}
ListedOps == {"equals", "contains"}
Values == {"", "listed", "bare", "other"}

Attr(a, o, v, n) ==
    [kind |-> "attr", attr |-> a, op |-> o, val |-> v, neg |-> n, kids |-> <<>>]
Block(k, kids, n) ==
    [kind |-> k, attr |-> "None", op |-> "", val |-> "", neg |-> n, kids |-> kids]
Reference == Block("ref", <<>>, FALSE)

IsBlock(c) == c.kind \in {"and", "or"}

(* The conditions with at most n levels beneath the root.                    *)
Nodes(kids) == [kind : {"attr", "ref", "and", "or"}, attr : STRING, op : STRING,
                val : STRING, neg : BOOLEAN, kids : kids]
Condition(n) ==
    LET level[k \in 0 .. n] == Nodes(IF k = 0 THEN {<<>>} ELSE Seq(level[k - 1]))
    IN level[n]

----------------------------------------------------------------------------
(* A tree, of a condition or of the editor, and its places: a path is the    *)
(* sequence of child positions from the root; the root itself is <<>>.       *)
At(n, p) ==
    LET at[k \in 0 .. Len(p)] == IF k = 0 THEN n ELSE at[k - 1].kids[p[k]]
    IN at[Len(p)]

IsPath(n, p) == \A k \in DOMAIN p : p[k] \in DOMAIN At(n, SubSeq(p, 1, k - 1)).kids

(* What a tree comes to, from the leaves up: `of` takes a node and what its  *)
(* children came to.                                                         *)
FromLeaves(n, of(_, _)) ==
    LET come[p \in {q \in Seq(Nat) : IsPath(n, q)}] ==
            LET m == At(n, p) IN of(m, [i \in DOMAIN m.kids |-> come[Append(p, i)]])
    IN come[<<>>]

Paths(n) ==
    FromLeaves(n, LAMBDA m, paths :
        {<<>>} \cup UNION {{<<i>> \o p : p \in paths[i]} : i \in DOMAIN paths})

----------------------------------------------------------------------------
(* What a condition means, for a reader of ISE's policy: the set `true` says *)
(* which comparisons hold.                                                   *)
Comparison(c) == <<c.attr, c.op, c.val>>

Holds(c, true) ==
    FromLeaves(c, LAMBDA d, holds :
        (CASE d.kind = "and" -> \A i \in DOMAIN holds : holds[i]
           [] d.kind = "or" -> \E i \in DOMAIN holds : holds[i]
           [] OTHER -> Comparison(d) \in true) # d.neg)

Leaves(n) == {m \in {At(n, p) : p \in Paths(n)} : m.kids = <<>>}
Comparisons(c) == {Comparison(d) : d \in {e \in Leaves(c) : ~IsBlock(e)}}

Equivalent(c, d) ==
    \A true \in SUBSET (Comparisons(c) \cup Comparisons(d)) : Holds(c, true) <=> Holds(d, true)

(* Conditions the editor has widgets for: listed names, no negation, no      *)
(* reference to a library condition, no block without children.              *)
Supported(c) ==
    \A p \in Paths(c) :
        LET d == At(c, p)
        IN /\ ~d.neg
           /\ IF IsBlock(d) THEN d.kids # <<>>
              ELSE /\ d.kind = "attr"
                   /\ d.attr \in Editable
                   /\ d.op \in ListedOps
                   /\ d.attr = "Group" => d.val = "listed"

----------------------------------------------------------------------------
(* A row's value widget.  An attribute whose values are known gets a list,   *)
(* with "other" and a text beside it unless it is the identity group; else a *)
(* text.  `lists` are the attributes whose values have been loaded.          *)
Widget(a, v, lists) ==
    IF a \notin lists THEN [widget |-> "text", val |-> v]
    ELSE IF a # "Group" THEN [widget |-> "listOrText", val |-> v]
    ELSE [widget |-> "list", val |-> IF v = "listed" THEN v ELSE ""]

NormalizeGroup(a, v) == IF a = "Group" /\ v = "bare" THEN "listed" ELSE v

RowWith(a, o, w) ==
    [kind |-> "row", attr |-> a, op |-> o, val |-> w.val, widget |-> w.widget,
     type |-> "", kids |-> <<>>]

(* The lists of names show their first entry when the condition's own name   *)
(* is not among them; a foreign dictionary has no attributes to show.        *)
ShownAttr(a) ==
    CASE a \in Editable -> a
      [] a = "Foreign" -> "None"
      [] OTHER -> "Owner"

RowOf(c, lists) ==
    IF c.kind = "attr"
    THEN RowWith(ShownAttr(c.attr), IF c.op \in ListedOps THEN c.op ELSE "equals",
                 Widget(c.attr, c.val, lists))
    ELSE RowWith("Owner", "equals", Widget("None", "", lists))

DefaultCondition == Attr("Owner", "equals", "", FALSE)

GroupWith(t, kids) ==
    [kind |-> "group", attr |-> "None", op |-> "", val |-> "", widget |-> "",
     type |-> t, kids |-> kids]

GroupKids(c) ==
    CASE IsBlock(c) /\ c.kids # <<>> -> c.kids
      [] c.kind = "attr" -> <<c>>
      [] OTHER -> <<DefaultCondition>>

GroupOf(c, lists) ==
    FromLeaves(c, LAMBDA d, groups :
        GroupWith(IF d.kind = "or" THEN "OR" ELSE "AND",
                  [i \in DOMAIN GroupKids(d) |->
                      IF IsBlock(GroupKids(d)[i]) THEN groups[i] ELSE RowOf(GroupKids(d)[i], lists)]))

----------------------------------------------------------------------------
(* Reading the editor: a row is a comparison, a group the block of what its  *)
(* children read as.  A group of nothing reads as nothing, a group of one    *)
(* comparison as that comparison.  The result is <<>> or <<condition>>.      *)
ReadRow(r) == Attr(r.attr, r.op, NormalizeGroup(r.attr, r.val), FALSE)

(* A mutation: every group is read as AND.                                   *)
ReadKidsAnd(type, kids) ==
    IF kids = <<>> \/ (Len(kids) = 1 /\ kids[1].kind = "attr") THEN kids
    ELSE <<Block("and", kids, FALSE)>>

ReadKids(type, kids) ==
    IF kids = <<>> \/ (Len(kids) = 1 /\ kids[1].kind = "attr") THEN kids
    ELSE <<Block(IF type = "OR" THEN "or" ELSE "and", kids, FALSE)>>

ReadGroup(g) ==
    FromLeaves(g, LAMBDA n, read :
        IF n.kind = "row" THEN <<ReadRow(n)>> ELSE ReadKids(n.type, FlattenSeq(read)))

(* What the editor shows its user: a group says AND or OR of the rows and    *)
(* groups in it that hold anything.                                          *)
Rows(n) == {m \in {At(n, p) : p \in Paths(n)} : m.kind = "row"}

ShownComparison(r) == <<r.attr, r.op, NormalizeGroup(r.attr, r.val)>>

ShownHolds(g, true) ==
    FromLeaves(g, LAMBDA n, holds :
        LET full == {i \in DOMAIN n.kids : Rows(n.kids[i]) # {}}
        IN CASE n.kind = "row" -> ShownComparison(n) \in true
             [] n.type = "OR" -> \E i \in full : holds[i]
             [] OTHER -> \A i \in full : holds[i])

----------------------------------------------------------------------------
(* Editing: the element at a path becomes another.                           *)
Put(n, p, new) ==
    LET put[k \in 0 .. Len(p)] ==
            IF k = Len(p) THEN new
            ELSE [At(n, SubSeq(p, 1, k)) EXCEPT !.kids[p[k + 1]] = put[k + 1]]
    IN put[0]

(* An element that is taken out leaves a gap until the tree is swept.        *)
Gap == GroupWith("gap", <<>>)
Swept(n) ==
    FromLeaves(n, LAMBDA m, swept :
        [m EXCEPT !.kids =
            FlattenSeq([i \in DOMAIN swept |-> IF swept[i] = Gap THEN <<>> ELSE <<swept[i]>>])])

Removed(n, p) == Swept(Put(n, p, Gap))

GroupPaths(n) == {p \in Paths(n) : At(n, p).kind = "group"}
RowPaths(n) == Paths(n) \ GroupPaths(n)

(* + Row and + Group: at the end of the group the button belongs to.         *)
Appended(n, p, new) == Put(n, p, [At(n, p) EXCEPT !.kids = Append(@, new)])

NewRow(lists) == RowOf(DefaultCondition, lists)
NewGroup(lists) == GroupOf(Reference, lists)

(* Drag and drop: the element p goes before or after q, an element that is   *)
(* not p and not inside it.                                                  *)
MayDrop(p, q) == p # <<>> /\ q # <<>> /\ ~IsPrefix(p, q)
Moved(n, p, q, before) ==
    LET hole == Put(n, p, Gap)
        parent == Front(q)
        place == IF before THEN Last(q) ELSE Last(q) + 1
    IN Swept(Put(hole, parent,
                 [At(hole, parent) EXCEPT !.kids = InsertAt(@, place, At(n, p))]))

(* Choosing a dictionary or an attribute clears the row's value; choosing or *)
(* typing a value keeps to what the widget offers, and a typed group name    *)
(* gets its prefix when the field is left.                                   *)
AttrChosen(r, a, lists) == RowWith(a, r.op, Widget(a, "", lists))
Offered(r) == IF r.widget = "list" THEN {"", "listed"} ELSE Values
ValueChosen(r, v) == [r EXCEPT !.val = NormalizeGroup(r.attr, v)]
=============================================================================
