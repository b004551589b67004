-------------------------- MODULE SessionSyncProofs --------------------------
(***************************************************************************)
(* Proofs about SessionSync, for every set of MACs, every choice of        *)
(* enrichments, and any number of sessions and of undelivered events.      *)
(*                                                                         *)
(* The inductive invariant IInv says where the truth about a MAC is at     *)
(* each moment after SUBSCRIBE:                                            *)
(*   - StreamOK: in the last undelivered event, if there is one;           *)
(*   - SnapOK: in the answer of getSessions, if there is none and that     *)
(*     answer has not been applied yet;                                    *)
(*   - UpToDateOK: in the cache, if there is none and it has.              *)
(* A change in ISE always moves the truth to the stream, and each step of  *)
(* the worker moves it one place on.  This is why SUBSCRIBE must come      *)
(* before getSessions.                                                     *)
(***************************************************************************)
EXTENDS SessionSync, SequenceTheorems, TLAPS

Last(s) == s[Len(s)]

\* What event e says is how things are in ISE, unless it is the disconnect of
\* a session that another one has replaced.
Tells(e, s) ==
    /\ e.on => s.on
    /\ ~e.on /\ s.on => e.audit # s.n

StreamOK == \A m \in Macs : stream[m] # <<>> => Tells(Last(stream[m]), ise[m])

SnapOK ==
    worker = [pc |-> "reconcile", source |-> "pxgrid"] =>
        \A m \in Macs : stream[m] = <<>> => (snap[m] # 0 <=> ise[m].on)

UpToDateOK == PhantomsAreStale /\ MissingWereCut

\* The rest: the source is set by an answer, and an old session has another
\* one after it.
ShapeOK ==
    /\ worker.pc \in {"down", "getSessions", "ActiveList"}
          => worker.source = "none"
    /\ \A m \in Macs : ise[m].old => ise[m].n > 1

IInv == TypeOK /\ ShapeOK /\ StreamOK /\ SnapOK /\ UpToDateOK

-----------------------------------------------------------------------------
\* An appended event is the last one, and the queue is not empty after it.
LEMMA AppendLast ==
    ASSUME NEW s \in Seq(Event), NEW e \in Event
    PROVE  /\ Append(s, e) \in Seq(Event)
           /\ Append(s, e) # <<>>
           /\ Last(Append(s, e)) = e
<1>1. /\ Append(s, e) \in Seq(Event)
      /\ Len(Append(s, e)) = Len(s) + 1
      /\ Append(s, e)[Len(s) + 1] = e
  BY AppendProperties
<1> QED
  BY <1>1, LenProperties, EmptySeq DEF Last

\* Handling the first event leaves the last one in place, or was handling it.
LEMMA TailLast ==
    ASSUME NEW s \in Seq(Event), s # <<>>
    PROVE  /\ Head(s) \in Event
           /\ Tail(s) \in Seq(Event)
           /\ Tail(s) # <<>> => Last(Tail(s)) = Last(s)
           /\ Tail(s) = <<>> => Head(s) = Last(s)
<1>1. /\ Head(s) \in Event /\ Head(s) = s[1]
      /\ Tail(s) \in Seq(Event)
      /\ Len(Tail(s)) = Len(s) - 1
      /\ \A i \in 1..Len(Tail(s)) : Tail(s)[i] = s[i + 1]
  BY HeadTailProperties
<1>2. Len(s) \in Nat \ {0}
  BY EmptySeq
<1>3. ASSUME Tail(s) # <<>> PROVE Last(Tail(s)) = Last(s)
  <2>1. Len(Tail(s)) \in Nat \ {0}
    BY <1>1, <1>3, EmptySeq
  <2> QED
    BY <1>1, <1>2, <2>1 DEF Last
<1>4. ASSUME Tail(s) = <<>> PROVE Head(s) = Last(s)
  BY <1>1, <1>2, <1>4 DEF Last
<1> QED
  BY <1>1, <1>3, <1>4

\* The portal starts with nothing subscribed, so nothing is claimed yet.
LEMMA InitInv == Init => IInv
<1> SUFFICES ASSUME Init PROVE IInv
  OBVIOUS
<1>1. TypeOK
  <2>1. PICK S \in SUBSET Macs :
           sessions \in [S -> {i \in Info : i.audit = 1 /\ i.vlan <= 1}]
    BY DEF Init
  <2>2. Cached \subseteq Macs /\ \A m \in Cached : sessions[m] \in Info
    BY <2>1 DEF Cached
  <2>3. stream \in [Macs -> Seq(Event)] /\ \A m \in Macs : stream[m] = <<>>
    BY EmptySeq DEF Init
  <2>4. 0 \in Session
    BY SessionAssumption DEF Session
  <2>5. fetch \in [Kinds -> [Macs -> Lookup]]
    BY <2>4 DEF Init, Lookup, NoLookup
  <2>6. ise \in [Macs -> IseSession]
    BY DEF Init
  <2> QED
    BY <2>2, <2>3, <2>4, <2>5, <2>6 DEF Init, TypeOK
<1> QED
  BY <1>1 DEF Init, IInv, ShapeOK, StreamOK, SnapOK, UpToDateOK,
              PhantomsAreStale, MissingWereCut, UpToDate

-----------------------------------------------------------------------------
\* Whatever ISE does with a session keeps IInv: the event tells the new state.
LEMMA PublishKeeps ==
    ASSUME IInv, NEW m \in Macs, NEW s \in IseSession, NEW e \in Event,
           s.old => s.n > 1, Tells(e, s), Publish(m, s, e)
    PROVE  IInv'
<1>1. /\ ise' = [ise EXCEPT ![m] = s]
      /\ UNCHANGED <<settled, worker, snap, sessions, fetch, why>>
      /\ ise \in [Macs -> IseSession] /\ stream \in [Macs -> Seq(Event)]
  BY DEF Publish, IInv, TypeOK
<1>2. ise' \in [Macs -> IseSession] /\ ise'[m] = s
  BY <1>1
<1>3. CASE Subscribed
  <2>1. stream' = [stream EXCEPT ![m] = Append(stream[m], e)]
    BY <1>3 DEF Publish
  <2>2. /\ stream' \in [Macs -> Seq(Event)]
        /\ stream'[m] # <<>> /\ Last(stream'[m]) = e
        /\ \A x \in Macs \ {m} : stream'[x] = stream[x] /\ ise'[x] = ise[x]
    BY <1>1, <2>1, AppendLast
  <2>3. TypeOK'
    BY <1>1, <1>2, <1>3, <2>2 DEF IInv, TypeOK, Cached, Subscribed
  <2>4. StreamOK' /\ ShapeOK'
    BY <1>1, <1>2, <2>2 DEF IInv, StreamOK, ShapeOK
  <2>5. SnapOK' /\ UpToDateOK'
    BY <1>1, <2>2 DEF IInv, SnapOK, UpToDateOK, PhantomsAreStale,
                      MissingWereCut, UpToDate, Cached
  <2> QED
    BY <2>3, <2>4, <2>5 DEF IInv
<1>4. CASE ~Subscribed
  <2>1. stream' = stream /\ worker.pc = "down"
    BY <1>4 DEF Publish, Subscribed
  <2>2. TypeOK' /\ ShapeOK'
    BY <1>1, <1>2, <2>1 DEF IInv, TypeOK, ShapeOK, Cached
  <2>3. StreamOK' /\ SnapOK' /\ UpToDateOK'
    BY <1>1, <2>1 DEF IInv, TypeOK, StreamOK, SnapOK, UpToDateOK,
                      PhantomsAreStale, MissingWereCut, UpToDate
  <2> QED
    BY <2>2, <2>3 DEF IInv
<1> QED
  BY <1>3, <1>4

\* A step that changes only lookups keeps IInv.
LEMMA FetchKeeps ==
    ASSUME IInv, fetch' \in [Kinds -> [Macs -> Lookup]],
           UNCHANGED <<ise, settled, stream, worker, snap, sessions, why>>
    PROVE  IInv'
BY DEF IInv, TypeOK, ShapeOK, StreamOK, SnapOK, UpToDateOK, PhantomsAreStale,
       MissingWereCut, UpToDate, Cached

\* A lookup of one kind for one MAC may be set to any lookup.
LEMMA SetLookup ==
    ASSUME NEW f \in [Kinds -> [Macs -> Lookup]],
           NEW k \in Kinds, NEW m \in Macs, NEW l \in Lookup
    PROVE  [f EXCEPT ![k][m] = l] \in [Kinds -> [Macs -> Lookup]]
OBVIOUS

\* The lookups that are out, answered or not.
LEMMA Lookups ==
    /\ NoLookup \in Lookup /\ Asked \in Lookup
    /\ \A v \in Session : [pc |-> "answered", vlan |-> v] \in Lookup
BY SessionAssumption DEF NoLookup, Asked, Lookup, Session

-----------------------------------------------------------------------------
\* What ISE may do.
LEMMA IseKeeps ==
    ASSUME IInv, NEW m \in Macs,
           \/ SessionStarts(m) \/ SessionChanges(m)
           \/ SessionEnds(m) \/ OldSessionEnds(m)
    PROVE  IInv'
<1>1. /\ ise[m] \in IseSession
      /\ ise[m].n \in Nat /\ 1 <= ise[m].n /\ ise[m].n <= MaxSession
      /\ ise[m].old => ise[m].n > 1
  BY SessionAssumption DEF IInv, TypeOK, ShapeOK, IseSession, Session
<1>2. CASE SessionStarts(m)
  <2>1. PICK vlan \in {0, ise[m].n + 1} :
           /\ ise[m].n < MaxSession
           /\ Publish(m, [n |-> ise[m].n + 1, on |-> TRUE, old |-> ise[m].on],
                     [on |-> TRUE, audit |-> ise[m].n + 1, vlan |-> vlan])
    BY <1>2 DEF SessionStarts
  <2> DEFINE s == [n |-> ise[m].n + 1, on |-> TRUE, old |-> ise[m].on]
             e == [on |-> TRUE, audit |-> ise[m].n + 1, vlan |-> vlan]
  <2>2. ise[m].n + 1 \in Session \ {0} /\ vlan \in Session
    BY <1>1, <2>1, SessionAssumption DEF Session
  <2>3. s \in IseSession /\ e \in Event /\ (s.old => s.n > 1) /\ Tells(e, s)
    BY <1>1, <2>2 DEF IseSession, Event, Tells
  <2> QED
    BY <2>1, <2>3, PublishKeeps
<1>3. CASE SessionChanges(m)
  <2>1. PICK vlan \in {0, ise[m].n} :
           /\ ise[m].on
           /\ Publish(m, ise[m],
                     [on |-> TRUE, audit |-> ise[m].n, vlan |-> vlan])
    BY <1>3 DEF SessionChanges
  <2> DEFINE e == [on |-> TRUE, audit |-> ise[m].n, vlan |-> vlan]
  <2>2. e \in Event /\ Tells(e, ise[m])
    BY <1>1, <2>1, SessionAssumption DEF IseSession, Session, Event, Tells
  <2> QED
    BY <1>1, <2>1, <2>2, PublishKeeps
<1>4. CASE SessionEnds(m)
  <2> DEFINE s == [ise[m] EXCEPT !.on = FALSE]
             e == [on |-> FALSE, audit |-> ise[m].n, vlan |-> 0]
  <2>1. Publish(m, s, e)
    BY <1>4 DEF SessionEnds
  <2>2. s.n = ise[m].n /\ ~s.on /\ s.old = ise[m].old /\ s \in IseSession
    BY <1>1 DEF IseSession
  <2>3. ise[m].n \in Session \ {0} /\ 0 \in Session
    BY <1>1, SessionAssumption DEF Session
  <2>4. e \in Event /\ (s.old => s.n > 1) /\ Tells(e, s)
    BY <1>1, <2>2, <2>3 DEF Event, Tells
  <2> QED
    BY <2>1, <2>2, <2>4, PublishKeeps
<1>5. CASE OldSessionEnds(m)
  <2> DEFINE s == [ise[m] EXCEPT !.old = FALSE]
             e == [on |-> FALSE, audit |-> ise[m].n - 1, vlan |-> 0]
  <2>1. Publish(m, s, e) /\ ise[m].old
    BY <1>5 DEF OldSessionEnds
  <2>2. ise[m].n - 1 \in Session \ {0} /\ 0 \in Session
    BY <1>1, <2>1, SessionAssumption DEF Session
  <2>3. s.n = ise[m].n /\ ~s.old /\ s.on = ise[m].on /\ s \in IseSession
    BY <1>1 DEF IseSession
  <2>4. e \in Event
    BY <2>2 DEF Event
  <2>5. Tells(e, s)
    BY <1>1, <2>3 DEF Tells
  <2> QED
    BY <2>1, <2>3, <2>4, <2>5, PublishKeeps
<1> QED
  BY <1>2, <1>3, <1>4, <1>5

\* The worker takes the answer of getSessions: what changes after it will be
\* told by an event.
LEMMA AnswerKeeps ==
    ASSUME IInv, Connect \/ Disconnect \/ GetSessions \/ ActiveList \/ Settle
    PROVE  IInv'
<1> USE DEF IInv, TypeOK, ShapeOK, StreamOK, SnapOK, UpToDateOK,
            PhantomsAreStale, MissingWereCut, UpToDate, Cached
<1>0. 0 \in Session
  BY SessionAssumption DEF Session
<1>1. CASE Connect
  BY <1>1 DEF Connect
<1>2. CASE Disconnect
  BY <1>0, <1>2, EmptySeq DEF Disconnect
<1>3. CASE GetSessions
  <2>1. /\ Active \in [Macs -> Session]
        /\ \A m \in Macs : Active[m] # 0 <=> ise[m].on
    BY <1>0 DEF Active, IseSession
  <2> QED
    BY <1>3, <2>1 DEF GetSessions
<1>4. CASE ActiveList
  BY <1>4 DEF ActiveList
<1>5. CASE Settle
  BY <1>5 DEF Settle
<1> QED
  BY <1>1, <1>2, <1>3, <1>4, <1>5

\* The reconciliation makes the cache list what the answer does.
LEMMA ReconcileKeeps == ASSUME IInv, Reconcile PROVE IInv'
<1>1. /\ worker.pc = "reconcile"
      /\ worker' = [worker EXCEPT !.pc = "listening"]
      /\ snap' = [m \in Macs |-> 0]
      /\ why' = [m \in Macs |-> "none"]
      /\ UNCHANGED <<ise, settled, stream, fetch>>
  BY DEF Reconcile
<1>2. 0 \in Session
  BY SessionAssumption DEF Session
<1>3. /\ DOMAIN sessions' = Listed
      /\ \A m \in Listed : sessions'[m] \in Info
  <2>1. /\ snap \in [Macs -> Session]
        /\ \A m \in Cached : sessions[m] \in Info
    BY DEF IInv, TypeOK
  <2>2. CASE ReconcileFromPxgrid
    BY <1>2, <2>1, <2>2 DEF ReconcileFromPxgrid, Kept, Listed, Info
  <2>3. CASE ReconcileFromMnt
    BY <1>2, <2>1, <2>3 DEF ReconcileFromMnt, Kept, Listed, Info
  <2> QED
    BY <2>2, <2>3 DEF Reconcile
<1>4. TypeOK'
  BY <1>1, <1>2, <1>3 DEF IInv, TypeOK, Cached, Listed
<1>5. ShapeOK' /\ StreamOK' /\ SnapOK'
  BY <1>1 DEF IInv, TypeOK, ShapeOK, StreamOK, SnapOK
<1>6. UpToDateOK'
  <2> SUFFICES ASSUME NEW m \in Macs, UpToDate(m)'
               PROVE  m \in Cached' <=> ise[m].on'
    BY DEF UpToDateOK, PhantomsAreStale, MissingWereCut
  <2>1. /\ worker = [pc |-> "reconcile", source |-> "pxgrid"]
        /\ stream[m] = <<>>
    BY <1>1 DEF UpToDate, IInv, TypeOK
  <2>2. snap[m] # 0 <=> ise[m].on
    BY <2>1 DEF IInv, SnapOK
  <2> QED
    BY <1>1, <1>3, <2>2 DEF Cached, Listed
<1> QED
  BY <1>4, <1>5, <1>6 DEF IInv

\* Handling the last event makes the cache say of m what it says.
LEMMA HandleKeeps == ASSUME IInv, NEW m \in Macs, HandleMessage(m) PROVE IInv'
<1> DEFINE e == Head(stream[m])
           info == Inherit(m, e)
<1>1. /\ worker.pc = "listening" /\ stream[m] # <<>>
      /\ stream' = [stream EXCEPT ![m] = Tail(stream[m])]
      /\ UNCHANGED <<ise, settled, worker, snap>>
      /\ stream \in [Macs -> Seq(Event)]
  BY DEF HandleMessage, IInv, TypeOK
<1>2. /\ e \in Event
      /\ stream' \in [Macs -> Seq(Event)]
      /\ stream'[m] # <<>> => Last(stream'[m]) = Last(stream[m])
      /\ stream'[m] = <<>> => e = Last(stream[m])
      /\ \A x \in Macs \ {m} : stream'[x] = stream[x]
  BY <1>1, TailLast
<1>3. StreamOK' /\ ShapeOK' /\ SnapOK'
  BY <1>1, <1>2 DEF IInv, StreamOK, ShapeOK, SnapOK
<1>4. stream'[m] = <<>> => Tells(e, ise[m])
  BY <1>1, <1>2 DEF IInv, StreamOK
<1>5. \/ /\ ~e.on
         /\ sessions' = remove(m)
         /\ why' = [why EXCEPT ![m] =
                       IF ise[m].on /\ e.audit # ise[m].n THEN "late"
                       ELSE "none"]
         /\ UNCHANGED fetch
      \/ /\ e.on
         /\ sessions' = upsert(m, info)
         /\ why' = [why EXCEPT ![m] = "none"]
         /\ \/ "event" \in Kinds /\ fetch' = [fetch EXCEPT !["event"][m] = Asked]
            \/ UNCHANGED fetch
  BY DEF HandleMessage
<1>6. info \in Info
  BY <1>2 DEF Inherit, Or, Info, Event, IInv, TypeOK, Session
<1> HIDE DEF e, info
<1>7. /\ m \in Cached' <=> e.on
      /\ \A x \in Macs \ {m} : (x \in Cached' <=> x \in Cached) /\ why'[x] = why[x]
      /\ Cached' \subseteq Macs /\ \A x \in Cached' : sessions'[x] \in Info
      /\ why' \in [Macs -> {"none", "stale", "late"}]
      /\ ~e.on /\ ise[m].on /\ e.audit # ise[m].n => why'[m] = "late"
  <2>1. /\ Cached \subseteq Macs /\ \A x \in Cached : sessions[x] \in Info
        /\ why \in [Macs -> {"none", "stale", "late"}]
    BY DEF IInv, TypeOK
  <2>2. CASE /\ ~e.on
             /\ sessions' = remove(m)
             /\ why' = [why EXCEPT ![m] =
                           IF ise[m].on /\ e.audit # ise[m].n THEN "late"
                           ELSE "none"]
    BY <2>1, <2>2 DEF remove, Cached
  <2>3. CASE /\ e.on
             /\ sessions' = upsert(m, info)
             /\ why' = [why EXCEPT ![m] = "none"]
    BY <1>6, <2>1, <2>3 DEF upsert, Cached
  <2> QED
    BY <1>5, <2>2, <2>3
<1>8. fetch' \in [Kinds -> [Macs -> Lookup]]
  <2>1. fetch \in [Kinds -> [Macs -> Lookup]]
    BY DEF IInv, TypeOK
  <2>2. CASE UNCHANGED fetch
    BY <2>1, <2>2
  <2>3. CASE "event" \in Kinds /\ fetch' = [fetch EXCEPT !["event"][m] = Asked]
    BY <2>1, <2>3, Lookups, SetLookup
  <2> QED
    BY <1>5, <2>2, <2>3
<1>9. TypeOK'
  BY <1>1, <1>2, <1>7, <1>8 DEF IInv, TypeOK
<1>10. UpToDateOK'
  <2> SUFFICES ASSUME NEW x \in Macs, UpToDate(x)'
               PROVE  /\ x \in Cached' /\ ~ise[x].on => why'[x] = "stale"
                      /\ x \notin Cached' /\ ise[x].on => why'[x] = "late"
    BY <1>1 DEF UpToDateOK, PhantomsAreStale, MissingWereCut
  <2>1. CASE x = m
    BY <1>4, <1>7, <2>1 DEF UpToDate, Tells
  <2>2. CASE x # m
    BY <1>1, <1>2, <1>7, <2>2
       DEF IInv, UpToDateOK, PhantomsAreStale, MissingWereCut, UpToDate
  <2> QED
    BY <2>1, <2>2
<1> QED
  BY <1>3, <1>9, <1>10 DEF IInv

\* An enrichment changes what is cached only as why tells.
LEMMA EnrichKeeps ==
    ASSUME IInv, NEW k \in Kinds, NEW m \in Macs,
           EnrichFromMnt(k, m) \/ (k = "stale" /\ ReconcileStale(m))
    PROVE  IInv'
<1> DEFINE vlan == fetch[k][m].vlan
<1>1. /\ UNCHANGED <<ise, settled, stream, worker, snap>>
      /\ fetch' = [fetch EXCEPT ![k][m] = NoLookup]
  BY DEF EnrichFromMnt, ReconcileStale
<1>2. fetch' \in [Kinds -> [Macs -> Lookup]]
  BY <1>1, Lookups, SetLookup DEF IInv, TypeOK
<1>3. /\ Cached' \subseteq Macs /\ \A x \in Cached' : sessions'[x] \in Info
      /\ why' \in [Macs -> {"none", "stale", "late"}]
      /\ \A x \in Macs : \/ (x \in Cached' <=> x \in Cached) /\ why'[x] = why[x]
                         \/ x \in Cached' /\ why'[x] = "stale"
  <2>1. /\ vlan \in Session /\ 0 \in Session
        /\ Cached \subseteq Macs /\ \A x \in Cached : sessions[x] \in Info
        /\ why \in [Macs -> {"none", "stale", "late"}]
    BY SessionAssumption DEF IInv, TypeOK, Lookup, Session
  <2>2. ASSUME m \in Cached, NEW v \in Session,
               sessions' = upsert(m, [sessions[m] EXCEPT !.vlan = v]),
               UNCHANGED why
        PROVE  /\ Cached' \subseteq Macs /\ \A x \in Cached' : sessions'[x] \in Info
               /\ why' = why /\ Cached' = Cached
    BY <2>1, <2>2 DEF upsert, Info, Cached
  <2>3. CASE /\ m \notin Cached
             /\ sessions' = upsert(m, [audit |-> 0, vlan |-> vlan])
             /\ why' = [why EXCEPT ![m] = "stale"]
    BY <2>1, <2>3 DEF upsert, Info, Cached
  <2>4. CASE UNCHANGED <<sessions, why>>
    BY <2>1, <2>4 DEF Cached
  <2>5. CASE EnrichFromMnt(k, m)
    <3>1. CASE m \in Cached
      <4>1. Or(sessions[m].vlan, vlan) \in Session
        BY <2>1, <3>1 DEF Or, Info
      <4>2. /\ sessions' = upsert(m, [sessions[m] EXCEPT
                                         !.vlan = Or(sessions[m].vlan, vlan)])
            /\ UNCHANGED why
        BY <2>5, <3>1 DEF EnrichFromMnt
      <4> QED
        BY <2>1, <2>2, <3>1, <4>1, <4>2
    <3> QED
      BY <2>4, <2>5, <3>1 DEF EnrichFromMnt
  <2>6. CASE k = "stale" /\ ReconcileStale(m)
    <3>1. CASE m \in Cached
      <4>1. Or(vlan, sessions[m].vlan) \in Session
        BY <2>1, <3>1 DEF Or, Info
      <4>2. /\ sessions' = upsert(m, [sessions[m] EXCEPT
                                         !.vlan = Or(vlan, sessions[m].vlan)])
            /\ UNCHANGED why
        BY <2>6, <3>1 DEF ReconcileStale
      <4> QED
        BY <2>1, <2>2, <3>1, <4>1, <4>2
    <3> QED
      BY <2>3, <2>6, <3>1 DEF ReconcileStale
  <2> QED
    BY <2>5, <2>6
<1>4. TypeOK'
  BY <1>1, <1>2, <1>3 DEF IInv, TypeOK
<1>5. ShapeOK' /\ StreamOK' /\ SnapOK'
  BY <1>1 DEF IInv, ShapeOK, StreamOK, SnapOK
<1>6. UpToDateOK'
  BY <1>1, <1>3 DEF IInv, UpToDateOK, PhantomsAreStale, MissingWereCut, UpToDate
<1> QED
  BY <1>4, <1>5, <1>6 DEF IInv

-----------------------------------------------------------------------------
\* Every step keeps IInv.
LEMMA NextInv == IInv /\ [Next]_vars => IInv'
<1> SUFFICES ASSUME IInv, [Next]_vars PROVE IInv'
  OBVIOUS
<1>1. ASSUME NEW m \in Macs,
             \/ SessionStarts(m) \/ SessionChanges(m)
             \/ SessionEnds(m) \/ OldSessionEnds(m)
      PROVE  IInv'
  BY <1>1, IseKeeps
<1>2. CASE Connect \/ Disconnect \/ GetSessions \/ ActiveList \/ Settle
  BY <1>2, AnswerKeeps
<1>3. CASE Reconcile
  BY <1>3, ReconcileKeeps
<1>4. ASSUME NEW m \in Macs, HandleMessage(m) PROVE IInv'
  BY <1>4, HandleKeeps
<1>5. ASSUME NEW k, NEW m \in Macs,
             AskMnt(k, m) \/ (k \in Kinds /\ MntAnswers(k, m))
      PROVE  IInv'
  <2>1. /\ ise[m].n \in Session /\ ise[m].n - 1 \in Session /\ 0 \in Session
        /\ fetch \in [Kinds -> [Macs -> Lookup]]
    BY SessionAssumption DEF IInv, TypeOK, IseSession, Session
  <2>2. fetch' \in [Kinds -> [Macs -> Lookup]]
    <3>1. CASE AskMnt(k, m)
      BY <2>1, <3>1, Lookups, SetLookup DEF AskMnt
    <3>2. CASE MntAnswers(k, m)
      <4>1. CASE fetch' = [fetch EXCEPT ![k][m] = NoLookup]
        BY <2>1, <4>1, Lookups, SetLookup
      <4>2. ASSUME NEW v \in {0, ise[m].n, ise[m].n - 1},
                   fetch' = [fetch EXCEPT ![k][m] = [pc |-> "answered", vlan |-> v]]
            PROVE  fetch' \in [Kinds -> [Macs -> Lookup]]
        BY <2>1, <4>2, Lookups, SetLookup
      <4> QED
        BY <3>2, <4>1, <4>2 DEF MntAnswers
    <3> QED
      BY <1>5, <3>1, <3>2
  <2> QED
    BY <1>5, <2>2, FetchKeeps DEF AskMnt, MntAnswers
<1>6. ASSUME NEW k \in Kinds, NEW m \in Macs,
             EnrichFromMnt(k, m) \/ (k = "stale" /\ ReconcileStale(m))
      PROVE  IInv'
  BY <1>6, EnrichKeeps
<1>7. CASE UNCHANGED vars
  BY <1>7, FetchKeeps DEF vars, IInv, TypeOK
<1> QED
  BY <1>1, <1>2, <1>3, <1>4, <1>5, <1>6, <1>7
     DEF Next, AskBulk, AskStale, ReconcileStale

\* IInv holds throughout, whatever ISE, the network and MnT do.
THEOREM InductiveInvariant == Spec => []IInv
  BY InitInv, NextInv, PTL DEF Spec

\* Every variable keeps its type, and nothing is left of a lost connection.
THEOREM TypeCorrect == Spec => []TypeOK
<1>1. IInv => TypeOK
  BY DEF IInv
<1> QED
  BY <1>1, InductiveInvariant, PTL

\* With every event handled after a reconciliation with getSessions, only an
\* entry made by reconcile_stale_sessions can be listed without a session.
THEOREM PhantomsAreOnlyStale == Spec => []PhantomsAreStale
<1>1. IInv => PhantomsAreStale
  BY DEF IInv, UpToDateOK
<1> QED
  BY <1>1, InductiveInvariant, PTL

\* Likewise, only the late disconnect of a replaced session can leave a MAC with
\* a session unlisted.
THEOREM MissingAreOnlyCut == Spec => []MissingWereCut
<1>1. IInv => MissingWereCut
  BY DEF IInv, UpToDateOK
<1> QED
  BY <1>1, InductiveInvariant, PTL

=============================================================================
