--------------------------- MODULE CircuitBreaker ---------------------------
(***************************************************************************)
(* The circuit breaker that guards every ISE host                          *)
(* (backend/app/ise/circuit_breaker.py).  A breaker is a value: a record   *)
(* of the three mutable attributes of class CircuitBreaker.  Its methods   *)
(* contain no await, so each is one operator on that record.               *)
(*                                                                         *)
(* Time.  The code stores the wall-clock stamp _opened_at and only ever    *)
(* uses time.time() - _opened_at, compared with _recovery_timeout.  The    *)
(* field open_for is that difference, counted up to RecoveryTimeout, past  *)
(* which the code cannot tell two values apart.                            *)
(*                                                                         *)
(* Counters.  _failures is an unbounded int that is only compared with     *)
(* _threshold; it is counted up to MaxCount >= Threshold.                  *)
(***************************************************************************)
EXTENDS Naturals

CONSTANTS Threshold,        \* _threshold, in failures
          RecoveryTimeout,  \* _recovery_timeout, in ticks
          MaxCount          \* where the counters saturate

\* __init__ clamps both settings with max(1, ...).
ASSUME BreakerAssumption ==
    /\ Threshold \in Nat \ {0}
    /\ RecoveryTimeout \in Nat \ {0}
    /\ MaxCount \in Nat
    /\ MaxCount >= Threshold

CLOSED == "closed"
OPEN == "open"
HALF_OPEN == "half_open"

Breaker == [state : {CLOSED, OPEN, HALF_OPEN},
            failures : 0..MaxCount,
            open_for : 0..RecoveryTimeout]

\* A counter one higher, saturating at MaxCount.
Bump(n) == IF n < MaxCount THEN n + 1 ELSE n

-----------------------------------------------------------------------------
NewBreaker == [state |-> CLOSED, failures |-> 0, open_for |-> 0]

\* The value is_open() returns.
is_open(b) ==
    \/ b.state = HALF_OPEN
    \/ b.state = OPEN /\ b.open_for < RecoveryTimeout

\* Its side effect: the caller it lets through an OPEN breaker is the probe.
after_is_open(b) ==
    IF b.state = OPEN /\ ~is_open(b)
    THEN [b EXCEPT !.state = HALF_OPEN]
    ELSE b

record_success(b) == NewBreaker

\* Mutant of record_failure: the threshold is passed, not reached.
record_failure_late(b) ==
    LET n == Bump(b.failures)
    IN  IF n > Threshold \/ b.state = HALF_OPEN
        THEN [state |-> OPEN, failures |-> n, open_for |-> 0]
        ELSE [b EXCEPT !.failures = n]

record_failure(b) ==
    LET n == Bump(b.failures)
    IN  IF n >= Threshold \/ b.state = HALF_OPEN
        THEN [state |-> OPEN, failures |-> n, open_for |-> 0]
        ELSE [b EXCEPT !.failures = n]

\* One tick of the clock, as time.time() - _opened_at sees it.
Elapse(b) ==
    IF b.state = OPEN /\ b.open_for < RecoveryTimeout
    THEN [b EXCEPT !.open_for = @ + 1]
    ELSE b

=============================================================================
