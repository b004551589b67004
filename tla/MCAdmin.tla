------------------------------- MODULE MCAdmin -------------------------------
(***************************************************************************)
(* An instance of Admin: conditions with nested blocks, with values that are *)
(* in a list and that are not, and with what the editor has no widgets for.  *)
(***************************************************************************)
EXTENDS Admin

owner == Attr("Owner", "equals", "other", FALSE)
active == Attr("Active", "contains", "other", FALSE)
group == Attr("Group", "equals", "listed", FALSE)

MCConds == {
    Block("or", <<active, Block("and", <<owner, group>>, FALSE)>>, FALSE),
    Block("and", <<Block("or", <<group, active>>, FALSE)>>, FALSE),
    Block("and", <<Reference, Attr("Custom", "in", "other", TRUE)>>, FALSE)}

MCClicks == [policy |-> 5, settings |-> 2, update |-> 4, dacls |-> 5, templates |-> 5]
=============================================================================
