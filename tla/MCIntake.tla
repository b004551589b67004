------------------------------ MODULE MCIntake ------------------------------
\* Instances of Intake for TLC.
EXTENDS Intake

CONSTANTS m1, m2, f1, f2, g1

\* A plain text, a quote and a comma, text in apostrophes, a quoted line break.
SomeDescriptions == {<<"x">>, <<Quote, Comma, Quote>>, <<Apostrophe, "x", Apostrophe>>, <<"x", LF, "x">>}
SomeEntries == Entry
HeldEntries == {[group |-> g1, desc |-> <<Quote, Comma, Quote>>, static |-> FALSE]}
RegisteredEntry == [group |-> g1, desc |-> <<"x">>, static |-> TRUE]
OtherColumns == {<<"Vendor", Comma, Space, "Description", Comma, "StaticAssignment">>}
HandWritten == {<<m1, Comma, g1, Comma, Quote, "x", Quote, LF, "x", Comma, Comma>>}
=============================================================================
