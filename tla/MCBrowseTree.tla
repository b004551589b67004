---------------------------- MODULE MCBrowseTree ----------------------------
\* The group tree with three endpoints in two groups, of three owners; the user
\* comes with a layout in which both groups, and a branch in one, have merges,
\* dimensions or hidden branches of their own, one hidden that a merge will make,
\* or with the groups merged and in what they made merges that overlap.
EXTENDS BrowseTree
CONSTANTS e1, e2, e3
MCDims == {"group", "owner"}
MCRows == e1 :> [group |-> "a", owner |-> "x"] @@ e2 :> [group |-> "a", owner |-> "y"]
              @@ e3 :> [group |-> "b", owner |-> "z"]
MCDefault == <<"group", "owner">>
A == <<{"a"}>>
B == <<{"b"}>>
AY == <<{"a"}, {"y"}>>
Apart == [DefaultLayout EXCEPT !.merges = A :> <<{"y", "z"}>> @@ B :> <<{"x", "z"}>>,
                               !.hidden = A :> {{"x", "y"}} @@ AY :> {{"a"}} @@ B :> {{"x"}},
                               !.branchDim = AY :> "group" @@ B :> "owner"]
AB == <<{"a", "b"}>>
Nested == [DefaultLayout EXCEPT !.merges = <<>> :> <<{"a", "b"}>> @@ AB :> <<{"x", "y"}, {"y", "z"}>>,
                               !.hidden = AB :> {{"x", "y", "z"}}]
MCStored == {<<Apart>>, <<Nested>>}
=============================================================================
