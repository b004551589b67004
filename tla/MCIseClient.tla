----------------------------- MODULE MCIseClient -----------------------------
\* Instances of IseClient for TLC.
EXTENDS IseClient

CONSTANTS r1, r2, r3

=============================================================================
