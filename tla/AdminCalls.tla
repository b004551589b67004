----------------------------- MODULE AdminCalls -----------------------------
(***************************************************************************)
(* What the administrator's pages share: the calls under way, which are      *)
(* answered in any order, and the number of things the user does.            *)
(***************************************************************************)
EXTENDS Naturals, FiniteSets

CONSTANTS
    MaxOut,     \* calls under way at once
    MaxActs     \* what the user does

ASSUME AdminBounds == MaxOut \in Nat \ {0} /\ MaxActs \in Nat

VARIABLES
    out,        \* calls under way; the field n tells equal ones apart
    acts        \* user actions so far

Slots == 1 .. MaxOut
Taken == {c.n : c \in out}
Room == Taken # Slots
Slot == CHOOSE n \in Slots : n \notin Taken
User == acts < MaxActs /\ acts' = acts + 1
=============================================================================
