--------------------------- MODULE IseClientProofs ---------------------------
(***************************************************************************)
(* Proofs that the ISE client and its circuit breakers keep the safety     *)
(* properties of IseClient for any number of callers, any threshold,       *)
(* recovery timeout and number of retries, with and without the split.     *)
(***************************************************************************)
EXTENDS IseClient, TLAPS

USE DEF CLOSED, OPEN, HALF_OPEN

-----------------------------------------------------------------------------
\* What one breaker promises: it is CLOSED exactly below the threshold.
Trips(b) == b.state = CLOSED <=> b.failures < Threshold

\* Every operation on a breaker gives a breaker, and keeps Trips.
LEMMA BreakerOps ==
    ASSUME NEW b \in Breaker, Trips(b)
    PROVE  /\ after_is_open(b) \in Breaker /\ Trips(after_is_open(b))
           /\ record_success(b) \in Breaker /\ Trips(record_success(b))
           /\ record_failure(b) \in Breaker /\ Trips(record_failure(b))
           /\ Elapse(b) \in Breaker /\ Trips(Elapse(b))
<1>1. after_is_open(b) \in Breaker /\ Trips(after_is_open(b))
  BY BreakerAssumption DEF Breaker, Trips, after_is_open, is_open
<1>2. record_success(b) \in Breaker /\ Trips(record_success(b))
  BY BreakerAssumption DEF Breaker, Trips, record_success, NewBreaker
<1>3. record_failure(b) \in Breaker /\ Trips(record_failure(b))
  BY BreakerAssumption DEF Breaker, Trips, record_failure, Bump
<1>4. Elapse(b) \in Breaker /\ Trips(Elapse(b))
  BY BreakerAssumption DEF Breaker, Trips, Elapse
<1>. QED BY <1>1, <1>2, <1>3, <1>4

\* What the operations do to the state and the failure count of a breaker.
LEMMA BreakerMoves ==
    ASSUME NEW b \in Breaker
    PROVE  /\ record_failure(b).state # HALF_OPEN
           /\ record_failure(b).failures = Bump(b.failures)
           /\ record_success(b).state # HALF_OPEN
           /\ Elapse(b).state = b.state
           /\ Elapse(b).failures = b.failures
           /\ after_is_open(b).failures = b.failures
           /\ ~is_open(b) /\ after_is_open(b).state = HALF_OPEN
              => b.state = OPEN
BY BreakerAssumption
   DEF Breaker, record_failure, record_success, NewBreaker, Elapse, Bump,
       after_is_open, is_open

-----------------------------------------------------------------------------
\* The failures recorded by all hosts together, given their breakers.
AllFailures(b) ==
    b["primary"].failures + (IF Split THEN b["read"].failures ELSE 0)

\* Every 401 since the last answer is one of the failures still recorded.
AuthFailuresRecorded == consecutive_401s <= AllFailures(cb)

\* What is known of one call: it runs on a host of the client; under the split
\* a GET is at the Primary only because the read host failed it.
CallOK(c) ==
    /\ c.pc = "sending" => c.host \in Hosts
    /\ Split /\ c.pc = "sending" /\ c.method = "GET" /\ c.host = "primary"
       => c.cause # "none"
    /\ /\ Split
       /\ c.pc = "idle"
       /\ c.method = "GET"
       /\ c.result \in {"transport", "cb_open", "3xx"}
       => c.host = "primary" /\ c.cause # "none"

CallsOK == \A r \in Reqs : CallOK(req[r])

\* The inductive invariant.
IInv ==
    /\ TypeOK
    /\ TripsAtThreshold
    /\ HalfOpenHasProbe
    /\ AuthFailuresRecorded
    /\ CallsOK

(***************************************************************************)
(* The end of every step of a call r: it left the breakers as b, and then  *)
(* either ended, or went on to some host whose breaker let it through.     *)
(***************************************************************************)
Goes(r, b) ==
    /\ req' = [req EXCEPT ![r] = req'[r]]
    /\ req'[r] \in Call
    /\ CallOK(req'[r])
    /\ \/ cb' = b
       \/ \E h \in Hosts :
             /\ cb' = [b EXCEPT ![h] = after_is_open(@)]
             /\ ~is_open(b[h])
             /\ req'[r].pc = "sending"
             /\ req'[r].host = h
             /\ req'[r].probe = (b[h].state = OPEN)

LEMMA HostFacts == "primary" \in Hosts /\ Hosts \subseteq {"primary", "read"}
                   /\ (Split => "read" \in Hosts) /\ ("read" \in Hosts => Split)
BY ClientAssumption DEF Hosts

\* A call that ends, and one that is sent, go somewhere.
LEMMA FinishGoes ==
    ASSUME req \in [Reqs -> Call], NEW r \in Reqs, NEW m \in Methods,
           NEW h \in Hosts, NEW b, NEW o \in Outcomes,
           NEW c \in Outcomes \cup {"none"},
           Finish(r, m, h, b, o, c),
           /\ Split /\ m = "GET" /\ o \in {"transport", "cb_open", "3xx"}
           => h = "primary" /\ c # "none"
    PROVE  Goes(r, b)
<1>1. req'[r] = [pc |-> "idle", method |-> m, host |-> h, attempt |-> 1,
                 probe |-> FALSE, cause |-> c, result |-> o]
  BY DEF Finish, Idle
<1>2. req'[r] \in Call
  <2>1. 1 \in 1..RetryAttempts /\ h \in {"primary", "read"}
    BY HostFacts, ClientAssumption
  <2>. QED BY <1>1, <2>1 DEF Call
<1>3. CallOK(req'[r])
  BY <1>1 DEF CallOK, Idle
<1>4. req' = [req EXCEPT ![r] = req'[r]] /\ cb' = b
  BY DEF Finish
<1>. QED BY <1>2, <1>3, <1>4 DEF Goes

LEMMA SendGoes ==
    ASSUME req \in [Reqs -> Call], NEW r \in Reqs, NEW m \in Methods,
           NEW h \in Hosts, NEW b \in [Hosts -> Breaker],
           NEW c \in Outcomes \cup {"none"},
           Send(r, m, h, b, c), ~is_open(b[h]),
           Split /\ m = "GET" /\ h = "primary" => c # "none"
    PROVE  Goes(r, b)
<1>. DEFINE p == b[h].state = OPEN
<1>1. req'[r] = [pc |-> "sending", method |-> m, host |-> h, attempt |-> 1,
                 probe |-> p, cause |-> c, result |-> "none"]
  BY DEF Send, Idle
<1>2. req'[r] \in Call
  <2>1. 1 \in 1..RetryAttempts /\ h \in {"primary", "read"}
    BY HostFacts, ClientAssumption
  <2>2. p \in BOOLEAN
    OBVIOUS
  <2>. HIDE DEF p
  <2>. QED BY <1>1, <2>1, <2>2 DEF Call
<1>3. CallOK(req'[r])
  BY <1>1, HostFacts DEF CallOK, Idle
<1>4. /\ req'[r].pc = "sending"
      /\ req'[r].host = h
      /\ req'[r].probe = (b[h].state = OPEN)
  BY <1>1 DEF Idle
<1>5. /\ req' = [req EXCEPT ![r] = req'[r]]
      /\ cb' = [b EXCEPT ![h] = after_is_open(@)]
  BY DEF Send
<1>. QED BY <1>2, <1>3, <1>4, <1>5 DEF Goes

LEMMA OnPrimaryGoes ==
    ASSUME req \in [Reqs -> Call], NEW r \in Reqs, NEW m \in Methods,
           NEW b \in [Hosts -> Breaker], NEW c \in Outcomes \cup {"none"},
           OnPrimary(r, m, b, c),
           Split /\ m = "GET" => c # "none"
    PROVE  Goes(r, b)
<1>1. CASE is_open(b["primary"])
  <2>1. Finish(r, m, "primary", b, "cb_open", c)
    BY <1>1 DEF OnPrimary
  <2>. QED BY <2>1, FinishGoes, HostFacts DEF Outcomes
<1>2. CASE ~is_open(b["primary"])
  <2>1. Send(r, m, "primary", b, c)
    BY <1>2 DEF OnPrimary
  <2>. QED BY <2>1, <1>2, SendGoes, HostFacts
<1>. QED BY <1>1, <1>2

LEMMA EndOnGoes ==
    ASSUME TypeOK, CallsOK, NEW r \in Reqs, req[r].pc = "sending",
           NEW b \in [Hosts -> Breaker], NEW o \in Outcomes \ {"cb_open"},
           EndOn(r, req[r].host, b, o)
    PROVE  Goes(r, b)
<1>1. /\ req[r] \in Call /\ req[r].method \in Methods
      /\ req[r].host \in Hosts /\ req[r].cause \in Outcomes \cup {"none"}
      /\ CallOK(req[r])
  BY DEF TypeOK, CallsOK, Call
<1>2. CASE req[r].host = "read" /\ FallsBack(o)
  <2>1. OnPrimary(r, req[r].method, b, o)
    BY <1>2 DEF EndOn
  <2>2. o # "none"
    BY DEF Outcomes, Status
  <2>. QED BY <2>1, <2>2, <1>1, OnPrimaryGoes DEF TypeOK
<1>3. CASE ~(req[r].host = "read" /\ FallsBack(o))
  <2>1. Finish(r, req[r].method, req[r].host, b, o, req[r].cause)
    BY <1>3 DEF EndOn
  <2>2. Split /\ req[r].method = "GET" /\ o \in {"transport", "cb_open", "3xx"}
        => req[r].host = "primary" /\ req[r].cause # "none"
    BY <1>1, <1>3, HostFacts DEF FallsBack, CallOK
  <2>. QED BY <2>1, <2>2, <1>1, FinishGoes DEF TypeOK
<1>. QED BY <1>2, <1>3

-----------------------------------------------------------------------------
(***************************************************************************)
(* A step of call r that leaves sound breakers b, each HALF_OPEN one with  *)
(* a probe other than r, keeps everything that is said of breakers and     *)
(* calls, and adds no failure.                                             *)
(***************************************************************************)
LEMMA GoesKeeps ==
    ASSUME TypeOK, CallsOK, NEW r \in Reqs, NEW b \in [Hosts -> Breaker],
           \A h \in Hosts : Trips(b[h]),
           Cancellable = {} =>
              \A h \in Hosts : b[h].state = HALF_OPEN =>
                 \E s \in Reqs : s # r /\ InFlight(s, h) /\ req[s].probe,
           Goes(r, b)
    PROVE  /\ cb' \in [Hosts -> Breaker]
           /\ req' \in [Reqs -> Call]
           /\ TripsAtThreshold'
           /\ HalfOpenHasProbe'
           /\ CallsOK'
           /\ AllFailures(cb') = AllFailures(b)
<1>1. /\ req' = [req EXCEPT ![r] = req'[r]]
      /\ req'[r] \in Call
      /\ CallOK(req'[r])
  BY DEF Goes
<1>2. req' \in [Reqs -> Call]
  BY <1>1 DEF TypeOK
<1>3. \A s \in Reqs : s # r => req'[s] = req[s]
  BY <1>1 DEF TypeOK
<1>4. CallsOK'
  <2>. SUFFICES ASSUME NEW s \in Reqs PROVE CallOK(req[s])'
    BY DEF CallsOK
  <2>1. CallOK(req'[s])
    BY <1>1, <1>3 DEF CallsOK
  <2>. QED BY <2>1 DEF CallOK
<1>5. CASE cb' = b
  <2>1. TripsAtThreshold'
    BY <1>5 DEF TripsAtThreshold, Trips
  <2>2. HalfOpenHasProbe'
    BY <1>5, <1>3 DEF HalfOpenHasProbe, InFlight
  <2>. QED BY <1>2, <1>4, <1>5, <2>1, <2>2
<1>6. ASSUME NEW h \in Hosts,
             cb' = [b EXCEPT ![h] = after_is_open(@)],
             ~is_open(b[h]),
             req'[r].pc = "sending",
             req'[r].host = h,
             req'[r].probe = (b[h].state = OPEN)
      PROVE  /\ cb' \in [Hosts -> Breaker]
             /\ TripsAtThreshold'
             /\ HalfOpenHasProbe'
             /\ AllFailures(cb') = AllFailures(b)
  <2>1. cb' \in [Hosts -> Breaker]
    BY <1>6, BreakerOps
  <2>2. TripsAtThreshold'
    BY <1>6, BreakerOps DEF TripsAtThreshold, Trips
  <2>3. AllFailures(cb') = AllFailures(b)
    BY <1>6, BreakerMoves, HostFacts DEF AllFailures
  <2>4. HalfOpenHasProbe'
    <3>. SUFFICES ASSUME Cancellable = {}, NEW g \in Hosts,
                         cb'[g].state = HALF_OPEN
                  PROVE  \E s \in Reqs : InFlight(s, g)' /\ req'[s].probe
      BY DEF HalfOpenHasProbe
    <3>1. CASE g = h
      <4>1. b[h].state = OPEN
        BY <1>6, <3>1, BreakerMoves
      <4>. QED BY <4>1, <1>6, <3>1 DEF InFlight
    <3>2. CASE g # h
      <4>1. b[g].state = HALF_OPEN
        BY <3>2, <1>6
      <4>. QED BY <4>1, <1>3 DEF InFlight
    <3>. QED BY <3>1, <3>2
  <2>. QED BY <2>1, <2>2, <2>3, <2>4
<1>. QED BY <1>2, <1>4, <1>5, <1>6 DEF Goes

\* The breakers after a result of call r has been recorded on its host.
LEMMA RecordedBreakers ==
    ASSUME IInv, NEW r \in Reqs, req[r].pc = "sending",
           NEW n \in Breaker, Trips(n), n.state # HALF_OPEN
    PROVE  LET b == [cb EXCEPT ![req[r].host] = n]
           IN  /\ b \in [Hosts -> Breaker]
               /\ \A h \in Hosts : Trips(b[h])
               /\ Cancellable = {} =>
                    \A h \in Hosts : b[h].state = HALF_OPEN =>
                      \E s \in Reqs : s # r /\ InFlight(s, h) /\ req[s].probe
<1>. DEFINE b == [cb EXCEPT ![req[r].host] = n]
<1>1. b \in [Hosts -> Breaker]
  BY DEF IInv, TypeOK
<1>2. \A h \in Hosts : Trips(b[h])
  BY DEF IInv, TypeOK, TripsAtThreshold, Trips
<1>3. ASSUME Cancellable = {}, NEW h \in Hosts, b[h].state = HALF_OPEN
      PROVE  \E s \in Reqs : s # r /\ InFlight(s, h) /\ req[s].probe
  <2>1. h # req[r].host /\ cb[h].state = HALF_OPEN
    BY <1>3 DEF IInv, TypeOK
  <2>. QED BY <2>1, <1>3 DEF IInv, HalfOpenHasProbe, InFlight
<1>. QED BY <1>1, <1>2, <1>3

-----------------------------------------------------------------------------
\* The parts of IInv' that GoesKeeps does not give.
LEMMA Reassemble ==
    ASSUME cb' \in [Hosts -> Breaker], req' \in [Reqs -> Call],
           TripsAtThreshold', HalfOpenHasProbe', CallsOK',
           consecutive_401s' \in 0..MaxCount,
           consecutive_401s' <= AllFailures(cb'),
           healthy' \in BOOLEAN
    PROVE  IInv'
<1>1. \A r \in Reqs : req'[r].pc = "sending" => req'[r].host \in Hosts
  BY DEF CallsOK, CallOK
<1>2. TypeOK'
  BY <1>1 DEF TypeOK
<1>3. AuthFailuresRecorded'
  BY DEF AuthFailuresRecorded, AllFailures
<1>. QED BY <1>2, <1>3 DEF IInv

LEMMA InitInv == Init => IInv
<1>. SUFFICES ASSUME Init PROVE IInv
  OBVIOUS
<1>1. NewBreaker \in Breaker /\ Trips(NewBreaker)
  BY BreakerAssumption DEF NewBreaker, Breaker, Trips
<1>2. Idle \in Call
  <2>1. 1 \in 1..RetryAttempts
    BY ClientAssumption
  <2>. QED BY <2>1 DEF Idle, Call, Methods
<1>3. CallOK(Idle)
  BY DEF CallOK, Idle
<1>4. TypeOK
  <2>1. Idle.pc = "idle"
    BY DEF Idle
  <2>2. 0 \in 0..MaxCount
    BY BreakerAssumption
  <2>. QED BY <1>1, <1>2, <2>1, <2>2 DEF Init, TypeOK
<1>5. TripsAtThreshold
  BY <1>1 DEF Init, TripsAtThreshold, Trips
<1>6. HalfOpenHasProbe
  BY DEF Init, HalfOpenHasProbe, NewBreaker
<1>7. AuthFailuresRecorded
  BY HostFacts DEF Init, AuthFailuresRecorded, AllFailures, NewBreaker
<1>8. CallsOK
  BY <1>3 DEF Init, CallsOK
<1>. QED BY <1>4, <1>5, <1>6, <1>7, <1>8 DEF IInv

\* A failure recorded on the host of a call raises the sum of the failures by
\* one, or finds it at least at MaxCount.
LEMMA FailureCounted ==
    ASSUME TypeOK, NEW h \in Hosts
    PROVE  LET b == [cb EXCEPT ![h] = record_failure(@)]
           IN  /\ AllFailures(b) \in Nat
               /\ AllFailures(b) >= AllFailures(cb)
               /\ AllFailures(b) >= AllFailures(cb) + 1
                  \/ AllFailures(b) >= MaxCount
<1>. DEFINE b == [cb EXCEPT ![h] = record_failure(@)]
<1>1. /\ b[h].failures = Bump(cb[h].failures)
      /\ \A g \in Hosts : g # h => b[g] = cb[g]
  BY BreakerMoves DEF TypeOK
<1>2. \A g \in Hosts : cb[g].failures \in 0..MaxCount
  BY DEF TypeOK, Breaker
<1>3. \A g \in Hosts : b[g].failures \in 0..MaxCount
  BY <1>1, <1>2, BreakerAssumption DEF Bump
<1>4. MaxCount \in Nat
  BY BreakerAssumption
<1>5. /\ AllFailures(b) \in Nat
      /\ AllFailures(b) >= AllFailures(cb)
      /\ AllFailures(b) >= AllFailures(cb) + 1 \/ AllFailures(b) >= MaxCount
  <2>. HIDE DEF b
  <2>. QED BY <1>1, <1>2, <1>3, <1>4, HostFacts DEF AllFailures, Bump
<1>. QED BY <1>5

\* Every step keeps the inductive invariant.
LEMMA NextInv == IInv /\ [Next]_vars => IInv'
<1>. SUFFICES ASSUME IInv, [Next]_vars PROVE IInv'
  OBVIOUS
<1>. USE DEF IInv
<1>0. /\ TypeOK /\ CallsOK
      /\ cb \in [Hosts -> Breaker] /\ req \in [Reqs -> Call]
      /\ consecutive_401s \in 0..MaxCount
      /\ healthy \in BOOLEAN
      /\ \A h \in Hosts : Trips(cb[h])
      /\ consecutive_401s <= AllFailures(cb)
  BY DEF TypeOK, TripsAtThreshold, Trips, AuthFailuresRecorded
<1>1. ASSUME NEW r \in Reqs, NEW m \in Methods, Start(r, m)
      PROVE  IInv'
  <2>1. Goes(r, cb)
    <3>1. CASE RouteTo(m) = "primary"
      <4>1. OnPrimary(r, m, cb, "none") /\ ~(Split /\ m = "GET")
        BY <1>1, <3>1 DEF Start, RouteTo
      <4>. QED BY <4>1, <1>0, OnPrimaryGoes
    <3>2. CASE RouteTo(m) # "primary" /\ is_open(cb["read"])
      <4>1. OnPrimary(r, m, cb, "cb_open")
        BY <1>1, <3>2 DEF Start
      <4>. QED BY <4>1, <1>0, OnPrimaryGoes DEF Outcomes
    <3>3. CASE RouteTo(m) # "primary" /\ ~is_open(cb["read"])
      <4>1. Send(r, m, "read", cb, "none") /\ "read" \in Hosts
        BY <1>1, <3>3, HostFacts DEF Start, RouteTo
      <4>. QED BY <4>1, <3>3, <1>0, SendGoes
    <3>. QED BY <3>1, <3>2, <3>3
  <2>2. Cancellable = {} =>
          \A h \in Hosts : cb[h].state = HALF_OPEN =>
            \E s \in Reqs : s # r /\ InFlight(s, h) /\ req[s].probe
    BY <1>1 DEF Start, HalfOpenHasProbe, InFlight
  <2>3. UNCHANGED <<consecutive_401s, healthy>>
    BY <1>1 DEF Start
  <2>4. /\ cb' \in [Hosts -> Breaker] /\ req' \in [Reqs -> Call]
        /\ TripsAtThreshold' /\ HalfOpenHasProbe' /\ CallsOK'
        /\ AllFailures(cb') = AllFailures(cb)
    BY <1>0, <2>1, <2>2, GoesKeeps
  <2>. QED BY <1>0, <2>3, <2>4, Reassemble
<1>2. ASSUME NEW r \in Reqs, Retry(r)
      PROVE  IInv'
  <2>1. /\ req' = [req EXCEPT ![r].attempt = @ + 1]
        /\ req[r].attempt < RetryAttempts
        /\ UNCHANGED <<cb, consecutive_401s, healthy>>
    BY <1>2 DEF Retry
  <2>2. req' \in [Reqs -> Call]
    BY <1>0, <2>1, ClientAssumption DEF Call
  <2>3. \A s \in Reqs : /\ req'[s].pc = req[s].pc
                        /\ req'[s].host = req[s].host
                        /\ req'[s].method = req[s].method
                        /\ req'[s].cause = req[s].cause
                        /\ req'[s].result = req[s].result
                        /\ req'[s].probe = req[s].probe
    BY <1>0, <2>1 DEF Call
  <2>4. CallsOK'
    BY <1>0, <2>3 DEF CallsOK, CallOK
  <2>5. HalfOpenHasProbe'
    BY <2>1, <2>3 DEF HalfOpenHasProbe, InFlight
  <2>6. TripsAtThreshold' /\ AllFailures(cb') = AllFailures(cb)
    BY <2>1 DEF TripsAtThreshold, AllFailures
  <2>. QED BY <1>0, <2>1, <2>2, <2>4, <2>5, <2>6, Reassemble
<1>3. ASSUME NEW r \in Reqs, TransportError(r)
      PROVE  IInv'
  <2>. DEFINE h == req[r].host
              b == [cb EXCEPT ![h] = record_failure(@)]
  <2>1. /\ req[r].pc = "sending" /\ h \in Hosts
        /\ EndOn(r, h, b, "transport")
        /\ UNCHANGED <<consecutive_401s, healthy>>
    BY <1>3 DEF TransportError, TypeOK
  <2>3. /\ record_failure(cb[h]) \in Breaker /\ Trips(record_failure(cb[h]))
        /\ record_failure(cb[h]).state # HALF_OPEN
        /\ b = [cb EXCEPT ![h] = record_failure(cb[h])]
    BY <1>0, <2>1, BreakerOps, BreakerMoves
  <2>4. /\ b \in [Hosts -> Breaker]
        /\ \A g \in Hosts : Trips(b[g])
        /\ Cancellable = {} =>
             \A g \in Hosts : b[g].state = HALF_OPEN =>
               \E s \in Reqs : s # r /\ InFlight(s, g) /\ req[s].probe
    BY <2>1, <2>3, RecordedBreakers
  <2>5. AllFailures(b) \in Nat /\ AllFailures(b) >= AllFailures(cb)
    BY <1>0, <2>1, FailureCounted
  <2>. HIDE DEF b
  <2>6. Goes(r, b)
    BY <1>0, <2>1, <2>4, EndOnGoes DEF Outcomes
  <2>7. /\ cb' \in [Hosts -> Breaker] /\ req' \in [Reqs -> Call]
        /\ TripsAtThreshold' /\ HalfOpenHasProbe' /\ CallsOK'
        /\ AllFailures(cb') = AllFailures(b)
    BY <1>0, <2>4, <2>6, GoesKeeps
  <2>8. consecutive_401s' <= AllFailures(cb')
    <3>1. AllFailures(cb) \in Nat
      BY <1>0, HostFacts DEF AllFailures, Breaker
    <3>. QED BY <1>0, <2>1, <2>5, <2>7, <3>1, BreakerAssumption
  <2>. QED BY <1>0, <2>1, <2>7, <2>8, Reassemble
<1>4. ASSUME NEW r \in Reqs, NEW st \in Status, RespondBad(r, st)
      PROVE  IInv'
  <2>. DEFINE h == req[r].host
              b == [cb EXCEPT ![h] = record_failure(@)]
  <2>1. /\ req[r].pc = "sending" /\ h \in Hosts
        /\ EndOn(r, h, b, st)
        /\ UNCHANGED healthy
        /\ consecutive_401s' \in {consecutive_401s, Bump(consecutive_401s)}
    BY <1>4 DEF RespondBad, TypeOK
  <2>3. /\ record_failure(cb[h]) \in Breaker /\ Trips(record_failure(cb[h]))
        /\ record_failure(cb[h]).state # HALF_OPEN
        /\ b = [cb EXCEPT ![h] = record_failure(cb[h])]
    BY <1>0, <2>1, BreakerOps, BreakerMoves
  <2>4. /\ b \in [Hosts -> Breaker]
        /\ \A g \in Hosts : Trips(b[g])
        /\ Cancellable = {} =>
             \A g \in Hosts : b[g].state = HALF_OPEN =>
               \E s \in Reqs : s # r /\ InFlight(s, g) /\ req[s].probe
    BY <2>1, <2>3, RecordedBreakers
  <2>5. /\ AllFailures(b) \in Nat
        /\ AllFailures(b) >= AllFailures(cb)
        /\ AllFailures(b) >= AllFailures(cb) + 1 \/ AllFailures(b) >= MaxCount
    BY <1>0, <2>1, FailureCounted
  <2>. HIDE DEF b
  <2>6. Goes(r, b)
    BY <1>0, <2>1, <2>4, EndOnGoes DEF Outcomes, Status
  <2>7. /\ cb' \in [Hosts -> Breaker] /\ req' \in [Reqs -> Call]
        /\ TripsAtThreshold' /\ HalfOpenHasProbe' /\ CallsOK'
        /\ AllFailures(cb') = AllFailures(b)
    BY <1>0, <2>4, <2>6, GoesKeeps
  <2>8. /\ consecutive_401s' <= AllFailures(cb')
        /\ consecutive_401s' \in 0..MaxCount
    <3>1. AllFailures(cb) \in Nat
      BY <1>0, HostFacts DEF AllFailures, Breaker
    <3>. QED BY <1>0, <2>1, <2>5, <2>7, <3>1, BreakerAssumption DEF Bump
  <2>. QED BY <1>0, <2>1, <2>7, <2>8, Reassemble
<1>5. ASSUME NEW r \in Reqs, NEW st \in Status, RespondGood(r, st)
      PROVE  IInv'
  <2>. DEFINE h == req[r].host
              b == [cb EXCEPT ![h] = record_success(@)]
  <2>1. /\ req[r].pc = "sending" /\ h \in Hosts
        /\ EndOn(r, h, b, st)
        /\ UNCHANGED healthy
        /\ consecutive_401s' = 0
    BY <1>5 DEF RespondGood, TypeOK
  <2>3. /\ record_success(cb[h]) \in Breaker /\ Trips(record_success(cb[h]))
        /\ record_success(cb[h]).state # HALF_OPEN
        /\ b = [cb EXCEPT ![h] = record_success(cb[h])]
    BY <1>0, <2>1, BreakerOps, BreakerMoves
  <2>4. /\ b \in [Hosts -> Breaker]
        /\ \A g \in Hosts : Trips(b[g])
        /\ Cancellable = {} =>
             \A g \in Hosts : b[g].state = HALF_OPEN =>
               \E s \in Reqs : s # r /\ InFlight(s, g) /\ req[s].probe
    BY <2>1, <2>3, RecordedBreakers
  <2>. HIDE DEF b
  <2>6. Goes(r, b)
    BY <1>0, <2>1, <2>4, EndOnGoes DEF Outcomes, Status
  <2>7. /\ cb' \in [Hosts -> Breaker] /\ req' \in [Reqs -> Call]
        /\ TripsAtThreshold' /\ HalfOpenHasProbe' /\ CallsOK'
    BY <1>0, <2>4, <2>6, GoesKeeps
  <2>8. /\ consecutive_401s' <= AllFailures(cb')
        /\ consecutive_401s' \in 0..MaxCount
    BY <2>1, <2>7, HostFacts, BreakerAssumption DEF AllFailures, Breaker
  <2>. QED BY <1>0, <2>1, <2>7, <2>8, Reassemble
<1>6. ASSUME NEW r \in Reqs, Abort(r)
      PROVE  IInv'
  <2>1. /\ Finish(r, req[r].method, req[r].host, cb, "aborted", req[r].cause)
        /\ r \in Cancellable
        /\ UNCHANGED <<consecutive_401s, healthy>>
        /\ req[r].method \in Methods /\ req[r].host \in Hosts
        /\ req[r].cause \in Outcomes \cup {"none"}
    BY <1>0, <1>6 DEF Abort, TypeOK, Call
  <2>2. Goes(r, cb)
    BY <1>0, <2>1, FinishGoes DEF Outcomes
  <2>3. /\ cb' \in [Hosts -> Breaker] /\ req' \in [Reqs -> Call]
        /\ TripsAtThreshold' /\ HalfOpenHasProbe' /\ CallsOK'
        /\ AllFailures(cb') = AllFailures(cb)
    BY <1>0, <2>1, <2>2, GoesKeeps
  <2>. QED BY <1>0, <2>1, <2>3, Reassemble
<1>7. ASSUME ReplaceClient
      PROVE  IInv'
  <2>1. /\ cb' = [h \in Hosts |-> NewBreaker]
        /\ req' = [r \in Reqs |-> IF req[r].pc = "sending"
                                  THEN [Idle EXCEPT !.result = "aborted"]
                                  ELSE req[r]]
        /\ consecutive_401s' = 0
        /\ UNCHANGED healthy
    BY <1>7 DEF ReplaceClient
  <2>2. NewBreaker \in Breaker /\ Trips(NewBreaker)
        /\ NewBreaker.state # HALF_OPEN /\ NewBreaker.failures = 0
    BY BreakerAssumption DEF NewBreaker, Breaker, Trips
  <2>3. [Idle EXCEPT !.result = "aborted"] \in Call
        /\ CallOK([Idle EXCEPT !.result = "aborted"])
    <3>1. 1 \in 1..RetryAttempts
      BY ClientAssumption
    <3>. QED BY <3>1 DEF Idle, Call, CallOK, Methods, Outcomes
  <2>4. req' \in [Reqs -> Call]
    BY <1>0, <2>1, <2>3
  <2>5. CallsOK'
    <3>. SUFFICES ASSUME NEW s \in Reqs PROVE CallOK(req'[s])
      BY DEF CallsOK, CallOK
    <3>. QED BY <1>0, <2>1, <2>3 DEF CallsOK
  <2>6. TripsAtThreshold' /\ HalfOpenHasProbe'
    BY <2>1, <2>2 DEF TripsAtThreshold, HalfOpenHasProbe, Trips
  <2>7. cb' \in [Hosts -> Breaker]
    BY <2>1, <2>2
  <2>8. /\ consecutive_401s' <= AllFailures(cb')
        /\ consecutive_401s' \in 0..MaxCount
    BY <2>1, <2>2, HostFacts, BreakerAssumption DEF AllFailures
  <2>. QED BY <1>0, <2>1, <2>4, <2>5, <2>6, <2>7, <2>8, Reassemble
<1>8. ASSUME Tick
      PROVE  IInv'
  <2>1. /\ cb' = [h \in Hosts |-> Elapse(cb[h])]
        /\ UNCHANGED <<req, consecutive_401s, healthy>>
    BY <1>8 DEF Tick
  <2>2. \A h \in Hosts : /\ cb'[h] \in Breaker /\ Trips(cb'[h])
                         /\ cb'[h].state = cb[h].state
                         /\ cb'[h].failures = cb[h].failures
    BY <1>0, <2>1, BreakerOps, BreakerMoves
  <2>3. cb' \in [Hosts -> Breaker]
    BY <2>1, <2>2
  <2>4. TripsAtThreshold'
    BY <2>2 DEF TripsAtThreshold, Trips
  <2>5. HalfOpenHasProbe'
    BY <2>1, <2>2 DEF HalfOpenHasProbe, InFlight
  <2>6. AllFailures(cb') = AllFailures(cb)
    BY <2>2, HostFacts DEF AllFailures
  <2>7. CallsOK' /\ req' \in [Reqs -> Call]
    BY <1>0, <2>1 DEF CallsOK, CallOK
  <2>. QED BY <1>0, <2>1, <2>3, <2>4, <2>5, <2>6, <2>7, Reassemble
<1>9. ASSUME IseRecovers \/ UNCHANGED vars
      PROVE  IInv'
  <2>1. UNCHANGED <<cb, req, consecutive_401s>> /\ healthy' \in BOOLEAN
    BY <1>0, <1>9 DEF IseRecovers, vars
  <2>2. /\ TripsAtThreshold' /\ HalfOpenHasProbe' /\ CallsOK'
        /\ AllFailures(cb') = AllFailures(cb)
    BY <1>0, <2>1 DEF TripsAtThreshold, HalfOpenHasProbe, InFlight, CallsOK,
                      CallOK, AllFailures
  <2>. QED BY <1>0, <2>1, <2>2, Reassemble
<1>. QED
  BY <1>1, <1>2, <1>3, <1>4, <1>5, <1>6, <1>7, <1>8, <1>9 DEF Next

-----------------------------------------------------------------------------
LEMMA SpecInv == Spec => []IInv
BY InitInv, NextInv, PTL DEF Spec

\* The state of the client and of its breakers is always of the declared type:
\* in particular a call never runs on a host that is not configured, and never
\* makes more than RetryAttempts attempts on one.
THEOREM TypeCorrect == Spec => []TypeOK
<1>1. IInv => TypeOK
  BY DEF IInv
<1>. QED BY <1>1, SpecInv, PTL

\* is_open, record_success and record_failure together keep every breaker
\* CLOSED exactly below the threshold, for any number of concurrent calls.
THEOREM BreakerTripsAtThreshold == Spec => []TripsAtThreshold
<1>1. IInv => TripsAtThreshold
  BY DEF IInv
<1>. QED BY <1>1, SpecInv, PTL

\* If no await of a request ends by cancellation or an exception other than
\* httpx.TransportError, a HALF_OPEN breaker always has its probe in flight.
THEOREM ProbeInFlight == Spec => []HalfOpenHasProbe
<1>1. IInv => HalfOpenHasProbe
  BY DEF IInv
<1>. QED BY <1>1, SpecInv, PTL

\* Repeated 401s open the circuit: while all breakers are CLOSED the shared
\* 401 counter is below Threshold per host.
THEOREM AuthFailuresOpenTheCircuit == Spec => []AuthFailuresTrip
<1>1. IInv => AuthFailuresTrip
  <2>. SUFFICES ASSUME IInv, \A h \in Hosts : cb[h].state = CLOSED
                PROVE  consecutive_401s
                         <= (IF Split THEN 2 ELSE 1) * (Threshold - 1)
    BY DEF AuthFailuresTrip
  <2>1. \A h \in Hosts : cb[h].failures \in Nat
                         /\ cb[h].failures <= Threshold - 1
    BY BreakerAssumption DEF IInv, TypeOK, TripsAtThreshold, Breaker
  <2>2. consecutive_401s \in Nat /\ consecutive_401s <= AllFailures(cb)
    BY BreakerAssumption DEF IInv, TypeOK, AuthFailuresRecorded
  <2>3. CASE Split
    BY <2>1, <2>2, <2>3, HostFacts, BreakerAssumption DEF AllFailures
  <2>4. CASE ~Split
    BY <2>1, <2>2, <2>4, HostFacts, BreakerAssumption DEF AllFailures
  <2>. QED BY <2>3, <2>4
<1>. QED BY <1>1, SpecInv, PTL

\* Under the split, a GET that ends because no host could serve it has been
\* tried on the Primary after the read host.
THEOREM ReadsReachPrimary == Spec => []ReadFailureReachesPrimary
<1>1. IInv => ReadFailureReachesPrimary
  BY DEF IInv, CallsOK, CallOK, ReadFailureReachesPrimary
<1>. QED BY <1>1, SpecInv, PTL

=============================================================================
