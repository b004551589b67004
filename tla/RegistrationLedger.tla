------------------------- MODULE RegistrationLedger -------------------------
\* What the offline queue promises of a registration it has accepted: it is
\* kept until ISE holds the endpoint or an answer has refused it.  It never
\* vanishes and a registered endpoint stays registered.
EXTENDS Naturals

CONSTANT Registrations

VARIABLES pending,     \* accepted and kept by the portal
          registered,  \* in ISE
          refused      \* an answer, not a lost connection, ended it

vars == <<pending, registered, refused>>

Init == pending = {} /\ registered = {} /\ refused = {}

Accept(r) == /\ r \notin pending \union registered \union refused
             /\ pending' = pending \union {r}
             /\ UNCHANGED <<registered, refused>>

\* Also of a registration that is sent at once and one that an answer has
\* refused: the refusal may have been wrong.
Register(r) == /\ r \notin registered
               /\ registered' = registered \union {r}
               /\ pending' = pending \ {r}
               /\ refused' = refused \ {r}

Refuse(r) == /\ r \in pending
             /\ pending' = pending \ {r}
             /\ refused' = refused \union {r}
             /\ UNCHANGED registered

Next == \E r \in Registrations : Accept(r) \/ Register(r) \/ Refuse(r)

Spec == Init /\ [][Next]_vars

=============================================================================
