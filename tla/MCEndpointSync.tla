--------------------------- MODULE MCEndpointSync ---------------------------
\* Instances of EndpointSync for TLC.
EXTENDS EndpointSync, TLC

CONSTANTS i1, i2, u1, u2, rA, rB

IdSymmetry == Permutations(Ids)

Versions == 0..MaxVersion
OneTier == {1}

\* The first version carries both roles, a later one only one of them.
RolesOfVersion == [v \in Versions |-> IF v = 0 THEN {rA, rB} ELSE {rB}]

\* Later versions are larger.
SizeOfVersion == [v \in Versions |-> v + 1]

=============================================================================
