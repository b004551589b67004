------------------------------ MODULE IseClient ------------------------------
(***************************************************************************)
(* The HTTP client every ISE call goes through                             *)
(* (backend/app/ise/client.py): concurrent requests on one event loop,     *)
(* read/write split with fallback to the Primary, retries of transport     *)
(* errors, and one circuit breaker per host.                               *)
(*                                                                         *)
(* A request runs without interruption from one await to the next, so each *)
(* action below is a whole such stretch: from the call to the first await  *)
(* (Start), and from an answer to the next await or to the end             *)
(* (TransportError, Respond).  In particular the fallback of a read to the *)
(* Primary begins in the very step in which the read host failed.          *)
(*                                                                         *)
(* The ISE nodes and httpx are external: they give any answer in Status,   *)
(* a transport error, or (for the callers in Cancellable) an exception     *)
(* that is no httpx.TransportError, or a cancellation of the caller.       *)
(***************************************************************************)
EXTENDS CircuitBreaker

CONSTANTS Reqs,           \* concurrent callers of IseClient.request / ping
          Drip,           \* the caller that is the pre-warm drip loop
          Split,          \* _split: a read host is configured
          RetryAttempts,  \* _retry_attempts
          Cancellable     \* callers whose await may end by another exception

ASSUME ClientAssumption ==
    /\ Drip \in Reqs
    /\ Split \in BOOLEAN
    /\ RetryAttempts \in Nat \ {0}   \* max(1, self._retry_attempts)
    /\ Cancellable \subseteq Reqs

VARIABLES cb,                \* _cb and _cb_read
          req,               \* the calls
          consecutive_401s,
          healthy            \* external: ISE answers for good from now on

vars == <<cb, req, consecutive_401s, healthy>>

Hosts == IF Split THEN {"primary", "read"} ELSE {"primary"}

\* GET, a write, and ping(), which is a GET that always asks the Primary.
Methods == {"GET", "write", "ping"}

\* error is any 4xx but 401, and any 5xx but 503.
Status == {"2xx", "3xx", "401", "503", "error"}

\* Answers that count as a sign of life of the host.
Answers == {"2xx", "503", "error"}

\* How a call on one host ended: an HTTP status, IseApiError(0) after the last
\* retry, IseApiError(503) by the breaker, or another exception.
Outcomes == Status \cup {"transport", "cb_open", "aborted"}

(***************************************************************************)
(* One call.  pc is idle or sending; attempt counts the tries on host;     *)
(* probe says that this call took the breaker of its host from OPEN to     *)
(* HALF_OPEN; cause is the outcome on the read host that made it fall back *)
(* to the Primary; result is how the last call ended.                      *)
(***************************************************************************)
Call == [pc : {"idle", "sending"},
         method : Methods,
         host : {"primary", "read"},
         attempt : 1..RetryAttempts,
         probe : BOOLEAN,
         cause : Outcomes \cup {"none"},
         result : Outcomes \cup {"none"}]

Idle == [pc |-> "idle", method |-> "GET", host |-> "primary", attempt |-> 1,
         probe |-> FALSE, cause |-> "none", result |-> "none"]

InFlight(r, h) == req[r].pc = "sending" /\ req[r].host = h

TypeOK ==
    /\ cb \in [Hosts -> Breaker]
    /\ req \in [Reqs -> Call]
    /\ \A r \in Reqs : req[r].pc = "sending" => req[r].host \in Hosts
    /\ consecutive_401s \in 0..MaxCount
    /\ healthy \in BOOLEAN

Init ==
    /\ cb = [h \in Hosts |-> NewBreaker]
    /\ req = [r \in Reqs |-> Idle]
    /\ consecutive_401s = 0
    /\ healthy = FALSE

-----------------------------------------------------------------------------
RouteTo(m) == IF Split /\ m = "GET" THEN "read" ELSE "primary"

\* Mutant of FallsBack: a redirect of the read host is passed on.
FallsBackNotOn3xx(outcome) == outcome \in {"transport", "cb_open", "503"}

\* request() falls back on status_code 0, on 503 and on 3xx: the code sees the
\* same 503 whether the breaker raised it or ISE answered it.
FallsBack(outcome) == outcome \in {"transport", "cb_open", "503", "3xx"}

\* The call ends with the given outcome on host h.
Finish(r, m, h, b, outcome, cause) ==
    /\ cb' = b
    /\ req' = [req EXCEPT ![r] = [Idle EXCEPT !.method = m, !.host = h,
                                              !.cause = cause,
                                              !.result = outcome]]

\* _request_on past the breaker check, up to its first await; b holds the
\* breakers as the caller left them.
Send(r, m, h, b, cause) ==
    /\ cb' = [b EXCEPT ![h] = after_is_open(@)]
    /\ req' = [req EXCEPT ![r] =
                  [Idle EXCEPT !.pc = "sending", !.method = m, !.host = h,
                               !.probe = (b[h].state = OPEN),
                               !.cause = cause]]

\* _request_on against the Primary; there is nothing to fall back to.
OnPrimary(r, m, b, cause) ==
    IF is_open(b["primary"])
    THEN Finish(r, m, "primary", b, "cb_open", cause)
    ELSE Send(r, m, "primary", b, cause)

\* The exception handler of request() around the read host.
EndOn(r, h, b, outcome) ==
    IF h = "read" /\ FallsBack(outcome)
    THEN OnPrimary(r, req[r].method, b, outcome)
    ELSE Finish(r, req[r].method, h, b, outcome, req[r].cause)

-----------------------------------------------------------------------------
\* The drip loop pings while the Primary's breaker is open (cb_is_open) and
\* refreshes endpoints with GETs otherwise.
DripMethod == IF cb["primary"].state = OPEN THEN "ping" ELSE "GET"

Start(r, m) ==
    /\ req[r].pc = "idle"
    /\ r = Drip => m = DripMethod
    /\ IF RouteTo(m) = "primary" THEN OnPrimary(r, m, cb, "none")
       ELSE IF is_open(cb["read"]) THEN OnPrimary(r, m, cb, "cb_open")
       ELSE Send(r, m, "read", cb, "none")
    /\ UNCHANGED <<consecutive_401s, healthy>>

\* Mutant of Retry: one attempt too many.
RetryOnceMore(r) ==
    /\ req[r].pc = "sending"
    /\ ~healthy
    /\ req[r].attempt <= RetryAttempts
    /\ req' = [req EXCEPT ![r].attempt = @ + 1]
    /\ UNCHANGED <<cb, consecutive_401s, healthy>>

\* An attempt fails in the transport and is retried after a back-off; the
\* breaker is not asked again.
Retry(r) ==
    /\ req[r].pc = "sending"
    /\ ~healthy
    /\ req[r].attempt < RetryAttempts
    /\ req' = [req EXCEPT ![r].attempt = @ + 1]
    /\ UNCHANGED <<cb, consecutive_401s, healthy>>

\* The last attempt fails in the transport.
TransportError(r) ==
    LET h == req[r].host
        b == [cb EXCEPT ![h] = record_failure(@)]
    IN  /\ req[r].pc = "sending"
        /\ ~healthy
        /\ req[r].attempt = RetryAttempts
        /\ EndOn(r, h, b, "transport")
        /\ UNCHANGED <<consecutive_401s, healthy>>

\* Mutant of RespondBad: a redirect is left out of the breaker's account.
RespondBadOnly401(r, status) ==
    LET h == req[r].host
        b == IF status = "401" THEN [cb EXCEPT ![h] = record_failure(@)]
             ELSE cb
    IN  /\ req[r].pc = "sending"
        /\ ~healthy
        /\ status \in Status \ Answers
        /\ consecutive_401s' = IF status = "401" THEN Bump(consecutive_401s)
                               ELSE consecutive_401s
        /\ EndOn(r, h, b, status)
        /\ UNCHANGED healthy

\* Mutant of RespondBad: any HTTP response resets the breaker, 401 included.
RespondBadBlind(r, status) ==
    LET h == req[r].host
        b == [cb EXCEPT ![h] = record_success(@)]
    IN  /\ req[r].pc = "sending"
        /\ ~healthy
        /\ status \in Status \ Answers
        /\ consecutive_401s' = IF status = "401" THEN Bump(consecutive_401s)
                               ELSE consecutive_401s
        /\ EndOn(r, h, b, status)
        /\ UNCHANGED healthy

\* A redirect or a 401 is a failure for the breaker.
RespondBad(r, status) ==
    LET h == req[r].host
        b == [cb EXCEPT ![h] = record_failure(@)]
    IN  /\ req[r].pc = "sending"
        /\ ~healthy
        /\ status \in Status \ Answers
        /\ consecutive_401s' = IF status = "401" THEN Bump(consecutive_401s)
                               ELSE consecutive_401s
        /\ EndOn(r, h, b, status)
        /\ UNCHANGED healthy

\* Mutant of RespondGood: only a 2xx closes the breaker.
RespondGoodOnly2xx(r, status) ==
    LET h == req[r].host
        b == IF status = "2xx" THEN [cb EXCEPT ![h] = record_success(@)]
             ELSE cb
    IN  /\ req[r].pc = "sending"
        /\ status \in Answers
        /\ consecutive_401s' = 0
        /\ EndOn(r, h, b, status)
        /\ UNCHANGED healthy

\* Any other response, whatever the breaker's state by then.
RespondGood(r, status) ==
    LET h == req[r].host
        b == [cb EXCEPT ![h] = record_success(@)]
    IN  /\ req[r].pc = "sending"
        /\ status \in Answers
        /\ consecutive_401s' = 0
        /\ EndOn(r, h, b, status)
        /\ UNCHANGED healthy

\* The await ends by cancellation of the caller, or by an exception that is
\* no httpx.TransportError: neither record_success nor record_failure runs.
Abort(r) ==
    /\ req[r].pc = "sending"
    /\ r \in Cancellable
    /\ Finish(r, req[r].method, req[r].host, cb, "aborted", req[r].cause)
    /\ UNCHANGED <<consecutive_401s, healthy>>

\* close_ise_client() and the get_ise_client() after it, on a settings change:
\* a new client with new breakers.  The calls on the old one end against
\* objects nobody holds any more.
ReplaceClient ==
    /\ cb' = [h \in Hosts |-> NewBreaker]
    /\ req' = [r \in Reqs |-> IF req[r].pc = "sending"
                              THEN [Idle EXCEPT !.result = "aborted"]
                              ELSE req[r]]
    /\ consecutive_401s' = 0
    /\ UNCHANGED healthy

Tick ==
    /\ cb' = [h \in Hosts |-> Elapse(cb[h])]
    /\ UNCHANGED <<req, consecutive_401s, healthy>>

\* External: the ISE nodes and the network are sound from now on.
IseRecovers ==
    /\ ~healthy
    /\ healthy' = TRUE
    /\ UNCHANGED <<cb, req, consecutive_401s>>

Next ==
    \/ \E r \in Reqs, m \in Methods : Start(r, m)
    \/ \E r \in Reqs : Retry(r)
    \/ \E r \in Reqs : TransportError(r)
    \/ \E r \in Reqs, s \in Status : RespondBad(r, s)
    \/ \E r \in Reqs, s \in Status : RespondGood(r, s)
    \/ \E r \in Reqs : Abort(r)
    \/ ReplaceClient
    \/ Tick
    \/ IseRecovers

Spec == Init /\ [][Next]_vars

(***************************************************************************)
(* Fairness.  Every attempt ends, because httpx has a timeout; the clock   *)
(* advances; the drip loop keeps calling.  ISE need not recover, and no    *)
(* caller but the drip loop need ever make a call.                         *)
(***************************************************************************)
Ends(r) ==
    \/ Retry(r)
    \/ TransportError(r)
    \/ \E s \in Status : RespondBad(r, s) \/ RespondGood(r, s)

Fairness ==
    /\ \A r \in Reqs : WF_vars(Ends(r))
    /\ WF_vars(Tick)
    /\ WF_vars(\E m \in Methods : Start(Drip, m))

FairSpec == Spec /\ Fairness

-----------------------------------------------------------------------------
(***************************************************************************)
(*                         Properties                                      *)
(***************************************************************************)

\* A breaker is away from CLOSED exactly when Threshold failures in a row have
\* been recorded, however the results of concurrent, retried and late calls
\* interleave: no late failure leaves it CLOSED at the threshold, and no probe
\* that comes back leaves a short count behind (record_success,
\* record_failure and is_open taken together).
TripsAtThreshold ==
    \A h \in Hosts : cb[h].state = CLOSED <=> cb[h].failures < Threshold

\* A HALF_OPEN breaker blocks every caller, so somebody must still be out who
\* will move it: as long as no await can end by another exception, a probe of
\* that very host is in flight ("Probe already in flight", is_open).
HalfOpenHasProbe ==
    Cancellable = {} =>
        \A h \in Hosts : cb[h].state = HALF_OPEN =>
            \E r \in Reqs : InFlight(r, h) /\ req[r].probe

\* Wrong credentials stop hammering ISE: while every breaker still lets calls
\* through, fewer than Threshold 401s in a row have been counted per host,
\* although the 401 counter is shared by the hosts and reset by either of them
\* (_request_on, the 401 branch).
AuthFailuresTrip ==
    (\A h \in Hosts : cb[h].state = CLOSED) =>
        consecutive_401s <= (IF Split THEN 2 ELSE 1) * (Threshold - 1)

\* A read is never given up because the read host is out of reach: when a GET
\* ends unserved under the split, the Primary was asked as well (request).
ReadFailureReachesPrimary ==
    \A r \in Reqs :
        /\ Split
        /\ req[r].pc = "idle"
        /\ req[r].method = "GET"
        /\ req[r].result \in {"transport", "cb_open", "3xx"}
        => req[r].host = "primary" /\ req[r].cause # "none"

\* Once ISE is sound again every breaker closes for good: no order of late
\* failures, probes and lost probes leaves the portal cut off from ISE
\* (circuit_breaker.py: "Succes -> CLOSED").
Recovers == <>healthy => <>[](\A h \in Hosts : cb[h].state = CLOSED)

=============================================================================
