--------------------------- MODULE MCSessionSync ---------------------------
\* Instances of SessionSync for TLC.
EXTENDS SessionSync, TLC

CONSTANTS m1, m2

=============================================================================
