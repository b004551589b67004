---------------------------- MODULE BrowseTree ----------------------------
\* The group tree of the browse view (browse-tree.js): endpoints in branches
\* along a stack of dimensions, branches merged, hidden and regrouped by the
\* user, and this layout kept in the user's preferences.
\* A path is the sequence of its branches' keys, a key the set of the values
\* that are merged in the branch.
EXTENDS Naturals, Sequences, FiniteSets, SequencesExt

CONSTANTS TreeEndpoints, Dims, TreeValues,
          FirstRows,    \* the endpoints at the start, [id -> [dimension -> value]]
          DefaultDims,  \* DEFAULT_GROUPBY
          FirstStored,  \* what the preferences may hold at the start: <<>> or <<layout>>
          MaxDepth,     \* bound: levels of the tree
          MaxTreeActs   \* bound: what the user does, and what happens in ISE

VARIABLES ise, treeRows,                       \* the endpoints, and those the view has loaded
          groupBy, branchDim, merges, hidden,  \* the layout
          expanded, selected,
          drag,                                \* what is dragged: ids, group and path; <<>> when nothing is
          sig, timer,                          \* the layout last seen, and the one that waits to be saved
          stored,                              \* the layout in the preferences
          treeCalls, treeActs,
          lapsed                               \* a save failed, met another one, or the view was opened over one

layoutVars == <<groupBy, branchDim, merges, hidden>>
renderVars == <<selected, sig, timer>>
treeVars == <<ise, treeRows, layoutVars, renderVars, expanded, drag, stored,
              treeCalls, treeActs, lapsed>>

Keys == (SUBSET TreeValues) \ {{}}
TreePaths == Seq(Keys)
Empty == [p \in {} |-> 0]
At(f, p, otherwise) == IF p \in DOMAIN f THEN f[p] ELSE otherwise
Put(f, p, v) == [q \in DOMAIN f \union {p} |-> IF q = p THEN v ELSE f[q]]
Drop(f, p) == [q \in DOMAIN f \ {p} |-> f[q]]
Without(s, d) == FoldLeft(LAMBDA acc, x : IF x = d THEN acc ELSE Append(acc, x), <<>>, s)

\* A branch's own dimension for its children, or that of the stack; "" for rows.
effectiveDim(p) == At(branchDim, p, IF Len(p) < Len(groupBy) THEN groupBy[Len(p) + 1] ELSE "")

\* The branches of the rows rs below p: one per value; those of a merge that
\* are present become one; then the hidden ones go.
applyMergesHidden(rs, p) ==
    LET Join(ks, g) == LET present == {m \in g : {m} \in ks}
                       IN  IF Cardinality(present) < 2 THEN ks
                           ELSE (ks \ {{m} : m \in present}) \union {present}
    IN  FoldLeft(Join, {{treeRows[e][effectiveDim(p)]} : e \in rs}, At(merges, p, <<>>))
            \ At(hidden, p, {})

Branches(rs, p) == IF effectiveDim(p) = "" THEN {} ELSE applyMergesHidden(rs, p)

\* The rows of a branch.
Under(p) ==
    LET u[n \in 0..Len(p)] ==
            IF n = 0 THEN DOMAIN treeRows
            ELSE LET q == SubSeq(p, 1, n - 1)
                 IN  IF p[n] \in Branches(u[n - 1], q)
                     THEN {e \in u[n - 1] : treeRows[e][effectiveDim(q)] \in p[n]} ELSE {}
    IN  u[Len(p)]

\* All branches, level by level, and those whose parents are open.
collectPaths ==
    LET level[n \in 0..MaxDepth] ==
            IF n = 0 THEN {<<>>}
            ELSE UNION {{Append(p, k) : k \in Branches(Under(p), p)} : p \in level[n - 1]}
    IN  UNION {level[n] : n \in 1..MaxDepth}
Open(p) == \A n \in 1..(Len(p) - 1) : SubSeq(p, 1, n) \in expanded
Displayed == {p \in collectPaths : Open(p)}
Leaves == UNION {{e \in Under(p) : effectiveDim(p) = ""} :
                     p \in {<<>>} \union {q \in Displayed : q \in expanded}}

\* A layout as it is saved: without the entries that are empty.
Saved(l) ==
    [groupBy |-> l.groupBy, branchDim |-> l.branchDim,
     merges |-> [p \in {q \in DOMAIN l.merges : l.merges[q] # <<>>} |-> l.merges[p]],
     hidden |-> [p \in {q \in DOMAIN l.hidden : l.hidden[q] # {}} |-> l.hidden[p]]]

\* What a layout is made of: a merge is of two values at least.
IsLayout(l) ==
    /\ l.groupBy \in Seq(Dims)
    /\ DOMAIN l.branchDim \subseteq TreePaths
    /\ \A p \in DOMAIN l.branchDim : l.branchDim[p] \in Dims \union {""}
    /\ DOMAIN l.hidden \subseteq TreePaths /\ \A p \in DOMAIN l.hidden : l.hidden[p] \subseteq Keys
    /\ DOMAIN l.merges \subseteq TreePaths /\ IsFiniteSet(DOMAIN l.merges)
    /\ \A p \in DOMAIN l.merges : l.merges[p] \in Seq({g \in Keys : \E x, y \in g : x # y})

\* There is an end to the endpoints.  The preferences hold what an earlier visit
\* saved, or nothing.
ASSUME TreeAssumption ==
    /\ IsFiniteSet(TreeEndpoints) /\ "group" \in Dims /\ MaxDepth \in Nat /\ MaxTreeActs \in Nat
    /\ FirstRows \in [TreeEndpoints -> [Dims -> TreeValues]] /\ DefaultDims \in Seq(Dims)
    /\ \A s \in FirstStored : s = <<>> \/ (s[1] = Saved(s[1]) /\ IsLayout(s[1]))

\* The layout that is saved, and the one a saved layout gives the view.
currentLayout == Saved([groupBy |-> groupBy, branchDim |-> branchDim,
                        merges |-> merges, hidden |-> hidden])
DefaultLayout == [groupBy |-> DefaultDims, branchDim |-> Empty, merges |-> Empty, hidden |-> Empty]
Seeded(s) == IF s = <<>> THEN DefaultLayout ELSE s[1]

parentOf(p) == SubSeq(p, 1, Len(p) - 1)
valueOfPath(p) == p[Len(p)]

----------------------------------------------------------------------------
initTreeState(s) ==
    /\ groupBy = Seeded(s).groupBy /\ branchDim = Seeded(s).branchDim
    /\ merges = Seeded(s).merges /\ hidden = Seeded(s).hidden

TreeInit == /\ ise = FirstRows /\ treeRows = FirstRows /\ stored \in FirstStored /\ initTreeState(stored)
            /\ expanded = {} /\ selected = {} /\ drag = <<>>
            /\ sig = <<currentLayout>> /\ timer = <<>> /\ treeCalls = {} /\ treeActs = 0 /\ lapsed = FALSE

TreeAct == treeActs < MaxTreeActs /\ treeActs' = treeActs + 1

\* Variant: a timer that runs is not set again.
persistFirstChange ==
    IF sig = <<currentLayout'>> THEN UNCHANGED <<sig, timer>>
    ELSE sig' = <<currentLayout'>> /\ timer' = IF timer = <<>> THEN <<currentLayout'>> ELSE timer

\* Every action ends in a rendering: what is not there is no longer selected,
\* and a layout that has changed is saved 600 ms after its last change.
persistLayoutIfChanged ==
    IF sig = <<currentLayout'>> THEN UNCHANGED <<sig, timer>>
    ELSE sig' = <<currentLayout'>> /\ timer' = <<currentLayout'>>
renderTree(sel) == selected' = sel \intersect DOMAIN treeRows' /\ persistLayoutIfChanged

\* A click that changes the layout, and one that changes what is open or selected.
Layout == TreeAct /\ UNCHANGED <<ise, treeRows, expanded, drag, stored, treeCalls, lapsed>>
Look == TreeAct /\ UNCHANGED <<ise, treeRows, layoutVars, drag, stored, treeCalls, lapsed>>

AddDim(d) ==
    /\ Layout /\ d \notin ToSet(groupBy) /\ groupBy' = Append(groupBy, d)
    /\ UNCHANGED <<branchDim, merges, hidden>> /\ renderTree(selected)

DelDim(d) ==
    /\ Layout /\ d \in ToSet(groupBy) /\ groupBy' = Without(groupBy, d)
    /\ UNCHANGED <<branchDim, merges, hidden>> /\ renderTree(selected)

\* A branch is hidden, its rows no longer selected.
HideBranch(p) ==
    /\ Layout /\ p \in Displayed
    /\ hidden' = Put(hidden, parentOf(p), At(hidden, parentOf(p), {}) \union {valueOfPath(p)})
    /\ UNCHANGED <<groupBy, branchDim, merges>> /\ renderTree(selected \ Under(p))

\* The dimension of a branch's children: its own, none ("": rows), the default.
SetDim(p, d) ==
    /\ Layout /\ p \in Displayed /\ p \in expanded /\ Len(p) < MaxDepth
    /\ branchDim' = IF d = "default" THEN Drop(branchDim, p) ELSE Put(branchDim, p, d)
    /\ UNCHANGED <<groupBy, merges, hidden>> /\ renderTree(selected)

ResetView ==
    /\ Layout /\ branchDim' = Empty /\ merges' = Empty /\ hidden' = Empty
    /\ UNCHANGED groupBy /\ renderTree(selected)

ToggleBranch(p) ==
    /\ Look /\ p \in Displayed
    /\ expanded' = IF p \in expanded THEN expanded \ {p} ELSE expanded \union {p}
    /\ renderTree(selected)

ExpandAll == Look /\ expanded' = expanded \union collectPaths /\ renderTree(selected)
CollapseAll == Look /\ expanded' = {} /\ renderTree(selected)

\* A checkbox of a branch stands for all its rows, that of a row for itself.
SelectBranch(p) ==
    /\ Look /\ p \in Displayed /\ UNCHANGED expanded
    /\ renderTree(IF Under(p) \subseteq selected THEN selected \ Under(p)
                  ELSE selected \union Under(p))

SelectLeaf(e) ==
    /\ Look /\ e \in Leaves /\ UNCHANGED expanded
    /\ renderTree(IF e \in selected THEN selected \ {e} ELSE selected \union {e})

----------------------------------------------------------------------------
\* Drag and drop.  What is dragged is noted when the drag begins.
GroupOf(p) == IF effectiveDim(parentOf(p)) = "group" /\ Cardinality(valueOfPath(p)) = 1
              THEN CHOOSE g \in valueOfPath(p) : TRUE ELSE ""

DragStart ==
    /\ drag = <<>> /\ treeActs < MaxTreeActs
    /\ \/ \E p \in Displayed : drag' = <<[ids |-> Under(p), gid |-> GroupOf(p), path |-> p]>>
       \/ \E e \in Leaves : drag' = <<[ids |-> {e}, gid |-> "", path |-> <<>>]>>
    /\ UNCHANGED <<ise, treeRows, layoutVars, renderVars, expanded, stored, treeCalls, treeActs, lapsed>>

DragEnd ==
    /\ drag # <<>> /\ drag' = <<>>
    /\ UNCHANGED <<ise, treeRows, layoutVars, renderVars, expanded, stored, treeCalls, treeActs, lapsed>>

siblingMergeTarget(q) ==
    LET p == drag[1].path
    IN  p # <<>> /\ q # p /\ parentOf(q) = parentOf(p)

\* The path of the branch that a merge of two makes.
mergedNodePath(p, q) == Append(parentOf(p), valueOfPath(p) \union valueOfPath(q))

\* Variant: only the branches themselves, not what is below them.
RemappedAlone(k, olds, new) == IF k \in olds THEN new ELSE k

\* Where a path goes when the branches olds become the branch new.
Remapped(k, olds, new) ==
    IF \E o \in olds : IsPrefix(o, k)
    THEN LET o == CHOOSE o \in olds : IsPrefix(o, k) IN new \o SubSeq(k, Len(o) + 1, Len(k))
    ELSE k

\* The customizations of both branches and of what is below them go to the
\* merged one: where both have one, one of the dimensions, all that is hidden,
\* and the merges of both, one list after the other.
remapCustomizationKeys(olds, new) ==
    LET Paths(f) == {Remapped(k, olds, new) : k \in DOMAIN f}
        From(f, p) == {f[k] : k \in {q \in DOMAIN f : Remapped(q, olds, new) = p}}
        Lists(p) == {FlattenSeq(s) : s \in SetToSeqs(From(merges, p))}
    IN  [branchDim : {f \in [Paths(branchDim) -> Dims \union {""}] :
                          \A p \in DOMAIN f : f[p] \in From(branchDim, p)},
         hidden : {[p \in Paths(hidden) |-> UNION From(hidden, p)]},
         merges : {f \in [Paths(merges) -> UNION {Lists(p) : p \in Paths(merges)}] :
                       \A p \in DOMAIN f : f[p] \in Lists(p)}]

\* The groups of a level that share a value with the two become one group.
mergeValues(groups, a, b) ==
    LET Fold(acc, g) == IF g \intersect acc.union # {} THEN [acc EXCEPT !.union = @ \union g]
                        ELSE [acc EXCEPT !.keep = Append(@, g)]
        end == FoldLeft(Fold, [union |-> a \union b, keep |-> <<>>], groups)
    IN  Append(end.keep, end.union)

\* A branch dropped on one beside it: the two are shown as one.
DropMerge(q) ==
    /\ drag # <<>> /\ q \in Displayed /\ siblingMergeTarget(q) /\ TreeAct
    /\ LET p == drag[1].path IN
       \E r \in remapCustomizationKeys({p, q}, mergedNodePath(p, q)) :
          /\ branchDim' = r.branchDim /\ hidden' = r.hidden
          /\ merges' = Put(r.merges, parentOf(p),
                            mergeValues(At(r.merges, parentOf(p), <<>>),
                                        valueOfPath(p), valueOfPath(q)))
    /\ drag' = <<>> /\ UNCHANGED <<groupBy, ise, treeRows, expanded, stored, treeCalls, lapsed>>
    /\ renderTree(selected)

\* Rows dropped on the branch of another group, and confirmed: one by one they
\* are moved in ISE, then the list is loaded again.
DropOnGroup(q) ==
    /\ drag # <<>> /\ q \in Displayed /\ ~siblingMergeTarget(q)
    /\ GroupOf(q) \notin {"", drag[1].gid} /\ drag[1].ids # {} /\ TreeAct /\ drag' = <<>>
    /\ treeCalls' = treeCalls \union {[op |-> "move", ids |-> drag[1].ids, to |-> GroupOf(q)]}
    /\ UNCHANGED <<ise, treeRows, layoutVars, renderVars, expanded, stored, lapsed>>

MoveAnswered(c) ==
    /\ \E e \in c.ids :
        /\ ise' = IF e \in DOMAIN ise THEN [ise EXCEPT ![e]["group"] = c.to] ELSE ise
        /\ treeCalls' = (treeCalls \ {c}) \union
                       {IF c.ids = {e} THEN [op |-> "load"] ELSE [c EXCEPT !.ids = @ \ {e}]}
    /\ UNCHANGED <<treeRows, layoutVars, renderVars, expanded, drag, stored, treeActs, lapsed>>

\* The rows as ISE has them: after moves, or when events of changes arrive.
Loaded(c) ==
    /\ treeRows' = ise /\ UNCHANGED layoutVars /\ renderTree(selected)
    /\ treeCalls' = treeCalls \ {c}
    /\ UNCHANGED <<ise, expanded, drag, stored, treeActs, lapsed>>

\* Somebody else deletes an endpoint or moves it; the view hears of it.
ChangedInIse(e) ==
    /\ TreeAct /\ e \in DOMAIN ise
    /\ ise' \in {Drop(ise, e)} \union {[ise EXCEPT ![e]["group"] = g] : g \in {FirstRows[x]["group"] : x \in TreeEndpoints}}
    /\ treeCalls' = treeCalls \union {[op |-> "load"]}
    /\ UNCHANGED <<treeRows, layoutVars, renderVars, expanded, drag, stored, lapsed>>

----------------------------------------------------------------------------
\* The layout is sent to the preferences; two that are out may cross.
SaveTimer ==
    /\ timer # <<>> /\ timer' = <<>>
    /\ treeCalls' = treeCalls \union {[op |-> "put", layout |-> timer[1]]}
    /\ lapsed' = (lapsed \/ \E c \in treeCalls : c.op = "put")
    /\ UNCHANGED <<ise, treeRows, layoutVars, selected, sig, expanded, drag, stored, treeActs>>

LayoutStored(c) ==
    /\ \/ stored' = <<c.layout>> /\ UNCHANGED lapsed
       \/ lapsed' = TRUE /\ UNCHANGED stored
    /\ treeCalls' = treeCalls \ {c}
    /\ UNCHANGED <<ise, treeRows, layoutVars, renderVars, expanded, drag, treeActs>>

\* The view is left and opened again: its layout is the stored one, or the
\* default if the preferences cannot be read.  A save that waits is not stopped.
Reopen ==
    /\ TreeAct
    /\ \E read \in BOOLEAN :
        LET l == IF read THEN Seeded(stored) ELSE DefaultLayout IN
        /\ groupBy' = l.groupBy /\ branchDim' = l.branchDim
        /\ merges' = l.merges /\ hidden' = l.hidden /\ sig' = <<l>>
        /\ lapsed' = (lapsed \/ ~read \/ timer # <<>> \/ \E c \in treeCalls : c.op = "put")
    /\ treeRows' = ise /\ expanded' = {} /\ selected' = {} /\ drag' = <<>>
    /\ treeCalls' = {c \in treeCalls : c.op # "load"}
    /\ UNCHANGED <<ise, timer, stored>>

TreeAnswer(c) ==
    \/ c.op = "move" /\ MoveAnswered(c)
    \/ c.op = "load" /\ Loaded(c)
    \/ c.op = "put" /\ LayoutStored(c)

TreeClick ==
    \/ \E d \in Dims : AddDim(d) \/ DelDim(d)
    \/ \E p \in Displayed : HideBranch(p) \/ ToggleBranch(p) \/ SelectBranch(p)
                            \/ DropMerge(p) \/ DropOnGroup(p)
                            \/ \E d \in Dims \union {"", "default"} : SetDim(p, d)
    \/ \E e \in Leaves : SelectLeaf(e)
    \/ ResetView \/ ExpandAll \/ CollapseAll \/ DragStart \/ DragEnd

TreeNext == \/ TreeClick \/ SaveTimer \/ Reopen
            \/ \E e \in TreeEndpoints : ChangedInIse(e)
            \/ \E c \in treeCalls : TreeAnswer(c)

TreeSpec == TreeInit /\ [][TreeNext]_treeVars

----------------------------------------------------------------------------
\* What the variables hold (state.tree*, the drag of the module).
TreeTypeOK ==
    /\ \A r \in {ise, treeRows} :
          DOMAIN r \subseteq TreeEndpoints /\ r \in [DOMAIN r -> [Dims -> TreeValues]]
    /\ IsLayout([groupBy |-> groupBy, branchDim |-> branchDim, merges |-> merges, hidden |-> hidden])
    /\ expanded \subseteq TreePaths /\ selected \subseteq DOMAIN treeRows
    /\ drag # <<>> => drag[1].ids \subseteq TreeEndpoints /\ drag[1].path \in TreePaths
    /\ timer # <<>> => IsLayout(timer[1])
    /\ stored # <<>> => IsLayout(stored[1])
    /\ \A c \in treeCalls :
          \/ c.op = "move" /\ c.ids \subseteq TreeEndpoints /\ c.to \in TreeValues
          \/ c.op = "put" /\ IsLayout(c.layout)
          \/ c.op = "load"
    /\ treeActs \in 0..MaxTreeActs /\ lapsed \in BOOLEAN

\* The merges of a level that share no value.
Disjoint(groups) == \A i, j \in DOMAIN groups : i # j => groups[i] \intersect groups[j] = {}

\* Two branches merged are shown as one, unless that one was hidden before, and
\* found under the path computed for it, unless merges of their level overlap;
\* what was hidden in either is still hidden there, and the merges of both are
\* still made (mergedNodePath, applyMergesHidden, remapCustomizationKeys).
Landed(p, q) ==
    LET new == mergedNodePath(p, q)
        moved(k) == new \o SubSeq(k, Len(new) + 1, Len(k)) IN
    /\ p \in Displayed =>
         \E m \in {valueOfPath(k) : k \in {x \in collectPaths' : parentOf(x) = parentOf(p)}}
                  \union At(hidden, parentOf(p), {}) :
            /\ valueOfPath(new) \subseteq m
            /\ Disjoint(At(merges, parentOf(p), <<>>)) => m = valueOfPath(new)
    /\ \A k \in {x \in DOMAIN hidden : IsPrefix(p, x) \/ IsPrefix(q, x)} :
          hidden[k] \subseteq At(hidden', moved(k), {})
    /\ \A k \in {x \in DOMAIN merges : IsPrefix(p, x) \/ IsPrefix(q, x)} :
          ToSet(merges[k]) \subseteq ToSet(At(merges', moved(k), <<>>))
MergeLands ==
    [][drag # <<>> => \A q \in Displayed : DropMerge(q) => Landed(drag[1].path, q)]_treeVars

\* Once no save waits or is out, the preferences hold the layout on screen,
\* unless a save failed or met another (persistLayoutIfChanged).
LayoutKept ==
    ~lapsed /\ timer = <<>> /\ (\A c \in treeCalls : c.op # "put") => Seeded(stored) = currentLayout
=============================================================================
