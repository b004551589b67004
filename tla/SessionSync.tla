---------------------------- MODULE SessionSync ----------------------------
(***************************************************************************)
(* The pxGrid session cache (backend/app/pxgrid/session_cache.py) and who  *)
(* fills it (session_worker.py): the STOMP worker, which subscribes,       *)
(* reconciles and then handles events; the MnT enrichment of one session   *)
(* after an event and of all sessions in the background; and the           *)
(* reconciliation of stale endpoints.                                      *)
(*                                                                         *)
(* The lock of the cache is never held over an await, so whatever runs     *)
(* between two network calls is one step.  The worker handles events and   *)
(* reconciles one MAC at a time and without regard to the others, so the   *)
(* events of each MAC have a queue of their own.                           *)
(*                                                                         *)
(* The sessions of a MAC are numbered: an audit session id is its number,  *)
(* 0 stands for an empty id, and the VLAN (like the dACL and the SGT) that *)
(* ISE assigned to session n is n, with 0 for an empty field.  The fields  *)
(* that belong to the endpoint and not to a session are left out; where a  *)
(* condition asks for them, either outcome is possible.                    *)
(*                                                                         *)
(* External: ISE, with its session directory, its pxGrid broker and MnT.   *)
(***************************************************************************)
EXTENDS Integers, Sequences, FiniteSets

CONSTANTS Macs,
          Kinds,       \* the MnT enrichments that run
          MaxSession,  \* bound on the sessions of one MAC
          MaxStream    \* bound on the undelivered events of one MAC

ASSUME SessionAssumption ==
    /\ Kinds \subseteq {"event", "bulk", "stale"}
    /\ MaxSession \in Nat \ {0}
    /\ MaxStream \in Nat \ {0}

VARIABLES ise,      \* external: the sessions of each MAC
          settled,  \* external: ISE and the network work from now on
          stream,   \* the events of each MAC the broker has for the worker
          worker,   \* PxGridSessionWorker._one_session
          snap,     \* the answer the worker reconciles with
          sessions, \* SessionCache._sessions
          fetch,    \* the MnT lookups that are out, of each kind
          why       \* ghost: the step that set an entry apart from ISE

vars == <<ise, settled, stream, worker, snap, sessions, fetch, why>>

Session == 0..MaxSession

\* n is the latest session, on whether it is active, and old whether the
\* disconnect of the session before it is still to be published.
IseSession == [n : Session \ {0}, on : BOOLEAN, old : BOOLEAN]

\* on: the state of the event is no disconnect.
Event == [on : BOOLEAN, audit : Session \ {0}, vlan : Session]

Info == [audit : Session, vlan : Session]

Lookup == [pc : {"none", "asked", "answered"}, vlan : Session]
NoLookup == [pc |-> "none", vlan |-> 0]
Asked == [pc |-> "asked", vlan |-> 0]

Cached == DOMAIN sessions

TypeOK ==
    /\ ise \in [Macs -> IseSession]
    /\ settled \in BOOLEAN
    /\ stream \in [Macs -> Seq(Event)]
    /\ worker \in [pc : {"down", "getSessions", "ActiveList", "reconcile",
                         "listening"},
                   source : {"none", "pxgrid", "mnt"}]
    /\ snap \in [Macs -> Session]
    /\ Cached \subseteq Macs
    /\ \A m \in Cached : sessions[m] \in Info
    /\ fetch \in [Kinds -> [Macs -> Lookup]]
    /\ why \in [Macs -> {"none", "stale", "late"}]
    /\ worker.pc = "down" => \A m \in Macs : stream[m] = <<>>

\* The portal has just started: load_from_disk brought back what was cached at
\* some earlier time, and what happened since was missed.
Init ==
    /\ ise \in [Macs -> {s \in IseSession : s.n <= 2 /\ ~s.old}]
    /\ settled = FALSE
    /\ stream = [m \in Macs |-> <<>>]
    /\ worker = [pc |-> "down", source |-> "none"]
    /\ snap = [m \in Macs |-> 0]
    /\ \E S \in SUBSET Macs :
          sessions \in [S -> {i \in Info : i.audit = 1 /\ i.vlan <= 1}]
    /\ fetch = [k \in Kinds |-> [m \in Macs |-> NoLookup]]
    /\ why = [m \in Macs |-> "none"]

-----------------------------------------------------------------------------
(***************************************************************************)
(*                    The session cache                                    *)
(***************************************************************************)

upsert(m, info) ==
    [x \in Cached \cup {m} |-> IF x = m THEN info ELSE sessions[x]]

remove(m) == [x \in Cached \ {m} |-> sessions[x]]

\* The value of a field: the new one if it is given, else the old one.
Or(new, old) == IF new # 0 THEN new ELSE old

-----------------------------------------------------------------------------
(***************************************************************************)
(*                    ISE                                                  *)
(***************************************************************************)

\* Mutant of Subscribed: SUBSCRIBE is sent after the reconciliation.
SubscribedLate == worker.pc = "listening"

\* The broker keeps the events for the worker: SUBSCRIBE has been sent.
Subscribed == worker.pc # "down"

\* Session state s of m, told by event e if the worker is subscribed.
Publish(m, s, e) ==
    /\ Subscribed => Len(stream[m]) < MaxStream
    /\ ise' = [ise EXCEPT ![m] = s]
    /\ stream' = IF Subscribed THEN [stream EXCEPT ![m] = Append(@, e)]
                 ELSE stream
    /\ UNCHANGED <<settled, worker, snap, sessions, fetch, why>>

\* A session begins, be it beside the one before, or changes.  The event may
\* lack the VLAN.
SessionStarts(m) ==
    \E vlan \in {0, ise[m].n + 1} :
        /\ ise[m].n < MaxSession
        /\ Publish(m, [n |-> ise[m].n + 1, on |-> TRUE, old |-> ise[m].on],
                   [on |-> TRUE, audit |-> ise[m].n + 1, vlan |-> vlan])

SessionChanges(m) ==
    \E vlan \in {0, ise[m].n} :
        /\ ise[m].on
        /\ Publish(m, ise[m], [on |-> TRUE, audit |-> ise[m].n, vlan |-> vlan])

SessionEnds(m) ==
    /\ ise[m].on
    /\ Publish(m, [ise[m] EXCEPT !.on = FALSE],
               [on |-> FALSE, audit |-> ise[m].n, vlan |-> 0])

\* The disconnect of a session that another one has replaced comes late.
OldSessionEnds(m) ==
    /\ ise[m].old
    /\ Publish(m, [ise[m] EXCEPT !.old = FALSE],
               [on |-> FALSE, audit |-> ise[m].n - 1, vlan |-> 0])

\* ISE and the network work from here on, and ActiveList knows every session as
\* it is.
Settle ==
    /\ ~settled
    /\ worker.pc = "down"
    /\ settled' = TRUE
    /\ UNCHANGED <<ise, stream, worker, snap, sessions, fetch, why>>

-----------------------------------------------------------------------------
(***************************************************************************)
(*                    The worker                                           *)
(***************************************************************************)

\* Connect, SUBSCRIBE, and ask for getSessions.
Connect ==
    /\ worker.pc = "down"
    /\ worker' = [pc |-> "getSessions", source |-> "none"]
    /\ UNCHANGED <<ise, settled, stream, snap, sessions, fetch, why>>

\* Mutant of Disconnect: the receive buffer outlives the connection.
DisconnectKeepsBuffer ==
    /\ ~settled
    /\ worker.pc # "down"
    /\ worker' = [pc |-> "down", source |-> "none"]
    /\ snap' = [m \in Macs |-> 0]
    /\ UNCHANGED <<ise, settled, stream, sessions, fetch, why>>

\* The connection is lost, or the worker is stopped; what it has not handled
\* is lost with it.
Disconnect ==
    /\ ~settled
    /\ worker.pc # "down"
    /\ worker' = [pc |-> "down", source |-> "none"]
    /\ stream' = [m \in Macs |-> <<>>]
    /\ snap' = [m \in Macs |-> 0]
    /\ UNCHANGED <<ise, settled, sessions, fetch, why>>

Active == [m \in Macs |-> IF ise[m].on THEN ise[m].n ELSE 0]

\* getSessions answers with the sessions of Macs, unless it is empty (nor has
\* any other MAC a session) or fails.
GetSessions ==
    /\ worker.pc = "getSessions"
    /\ \/ /\ worker' = [pc |-> "reconcile", source |-> "pxgrid"]
          /\ snap' = Active
       \/ /\ ~settled \/ \A m \in Macs : ~ise[m].on
          /\ worker' = [worker EXCEPT !.pc = "ActiveList"]
          /\ UNCHANGED snap
    /\ UNCHANGED <<ise, settled, stream, sessions, fetch, why>>

\* ActiveList answers, with what MnT knows so far, or fails.
ActiveList ==
    /\ worker.pc = "ActiveList"
    /\ \/ /\ worker' = [pc |-> "reconcile", source |-> "mnt"]
          /\ snap' \in [Macs -> Session]
          /\ \A m \in Macs : snap'[m] <= ise[m].n
          /\ settled => snap' = Active
       \/ /\ ~settled
          /\ worker' = [worker EXCEPT !.pc = "listening"]
          /\ UNCHANGED snap
    /\ UNCHANGED <<ise, settled, stream, sessions, fetch, why>>

Listed == {m \in Macs : snap[m] # 0}

\* Mutant of Kept: what is not in the answer stays.
KeptAll == Listed \cup Cached

\* What is cached after a reconciliation: entries that ISE does not list are
\* evicted, and listed ones that are missing are seeded.
Kept == Listed

\* _reconcile_from_pxgrid.  The VLANs of V are in the answer; an entry is
\* replaced, U says, if its VLAN differs, and may be if its other fields are
\* better.  What the answer lacks is taken over from the entry, whatever
\* session that is of.
ReconcileFromPxgrid ==
    \E V, U \in SUBSET Macs :
        /\ {m \in V \cap Kept \cap Cached : sessions[m].vlan # snap[m]} \subseteq U
        /\ sessions' = [m \in Kept |->
               IF m \in Cached \ U THEN sessions[m]
               ELSE [audit |-> snap[m],
                     vlan |-> IF m \in V THEN snap[m]
                              ELSE IF m \in Cached THEN sessions[m].vlan
                              ELSE 0]]

\* Mutant of ReconcileFromMnt: only missing entries are seen to.
ReconcileFromMntSeeds ==
    sessions' = [m \in Kept \cup Cached |->
                    IF m \in Cached THEN sessions[m]
                    ELSE [audit |-> snap[m], vlan |-> 0]]

\* _reconcile_from_mnt: an entry that is there already stays as it is.
ReconcileFromMnt ==
    sessions' = [m \in Kept |-> IF m \in Cached THEN sessions[m]
                                ELSE [audit |-> snap[m], vlan |-> 0]]

Reconcile ==
    /\ worker.pc = "reconcile"
    /\ IF worker.source = "pxgrid" THEN ReconcileFromPxgrid
       ELSE ReconcileFromMnt
    /\ worker' = [worker EXCEPT !.pc = "listening"]
    /\ snap' = [m \in Macs |-> 0]
    /\ why' = [m \in Macs |-> "none"]
    /\ UNCHANGED <<ise, settled, stream, fetch>>

\* The entry an event leaves: fields of the session that it lacks are taken
\* over unless both audit session ids are known and differ.
Inherit(m, e) ==
    LET new == /\ m \in Cached
               /\ sessions[m].audit # 0
               /\ sessions[m].audit # e.audit
    IN  [audit |-> e.audit,
         vlan |-> IF m \in Cached /\ ~new THEN Or(e.vlan, sessions[m].vlan)
                  ELSE e.vlan]

\* _handle_message_body.  A disconnect removes the entry, of whatever session
\* it is.  Any other event replaces it, and starts an enrichment if a field is
\* missing and none is out for this MAC (_enrich_in_flight).
HandleMessage(m) ==
    LET e == Head(stream[m])
        info == Inherit(m, e)
        free == "event" \in Kinds /\ fetch["event"][m].pc = "none"
    IN  /\ worker.pc = "listening"
        /\ stream[m] # <<>>
        /\ stream' = [stream EXCEPT ![m] = Tail(@)]
        /\ \/ /\ ~e.on
              /\ sessions' = remove(m)
              /\ why' = [why EXCEPT ![m] =
                            IF ise[m].on /\ e.audit # ise[m].n THEN "late"
                            ELSE "none"]
              /\ UNCHANGED fetch
           \/ /\ e.on
              /\ sessions' = upsert(m, info)
              /\ why' = [why EXCEPT ![m] = "none"]
              /\ \/ free /\ fetch' = [fetch EXCEPT !["event"][m] = Asked]
                 \/ (info.vlan # 0 \/ ~free) /\ UNCHANGED fetch
        /\ UNCHANGED <<ise, settled, worker, snap>>

-----------------------------------------------------------------------------
(***************************************************************************)
(*                    MnT enrichment                                       *)
(***************************************************************************)

\* A lookup of m is sent, if that enrichment runs and has none out for m.
AskMnt(k, m) ==
    /\ k \in Kinds
    /\ fetch[k][m].pc = "none"
    /\ fetch' = [fetch EXCEPT ![k][m] = Asked]
    /\ UNCHANGED <<ise, settled, stream, worker, snap, sessions, why>>

\* _enrich_sessions_from_mnt asks for the sessions it has on its list.
AskBulk(m) == m \in Cached /\ AskMnt("bulk", m)

\* reconcile_stale_sessions asks for endpoints, whether they have a session or
\* not.
AskStale(m) == AskMnt("stale", m)

\* fetch_session_by_mac: MnT answers by the last authentication of the past
\* hour, whether or not its session is active still, and may lag behind by a
\* session; or there is no answer, or an empty one.
MntAnswers(k, m) ==
    /\ fetch[k][m].pc = "asked"
    /\ \/ \E vlan \in {0, ise[m].n, ise[m].n - 1} :
             fetch' = [fetch EXCEPT ![k][m] = [pc |-> "answered", vlan |-> vlan]]
       \/ fetch' = [fetch EXCEPT ![k][m] = NoLookup]
    /\ UNCHANGED <<ise, settled, stream, worker, snap, sessions, why>>

\* The end of _enrich_single_from_mnt, or of one round of
\* _enrich_sessions_from_mnt: the VLAN of the entry is preferred, and an absent
\* entry stays absent.
EnrichFromMnt(k, m) ==
    /\ k # "stale"
    /\ fetch[k][m].pc = "answered"
    /\ fetch' = [fetch EXCEPT ![k][m] = NoLookup]
    /\ \/ /\ m \in Cached
          /\ sessions' = upsert(m, [sessions[m] EXCEPT
                                       !.vlan = Or(@, fetch[k][m].vlan)])
       \/ m \notin Cached /\ UNCHANGED sessions
    /\ UNCHANGED <<ise, settled, stream, worker, snap, why>>

\* The end of _process in reconcile_stale_sessions: the VLAN of MnT is
\* preferred, and an absent entry is created, of no audit session id.
ReconcileStale(m) ==
    LET vlan == fetch["stale"][m].vlan
    IN  /\ "stale" \in Kinds
        /\ fetch["stale"][m].pc = "answered"
        /\ fetch' = [fetch EXCEPT !["stale"][m] = NoLookup]
        /\ \/ /\ m \in Cached
              /\ sessions' = upsert(m, [sessions[m] EXCEPT !.vlan = Or(vlan, @)])
              /\ UNCHANGED why
           \/ /\ m \notin Cached
              /\ sessions' = upsert(m, [audit |-> 0, vlan |-> vlan])
              /\ why' = [why EXCEPT ![m] = "stale"]
        /\ UNCHANGED <<ise, settled, stream, worker, snap>>

Next ==
    \/ \E m \in Macs : SessionStarts(m)
    \/ \E m \in Macs : SessionChanges(m)
    \/ \E m \in Macs : SessionEnds(m)
    \/ \E m \in Macs : OldSessionEnds(m)
    \/ Settle
    \/ Connect
    \/ Disconnect
    \/ GetSessions
    \/ ActiveList
    \/ Reconcile
    \/ \E m \in Macs : HandleMessage(m)
    \/ \E m \in Macs : AskBulk(m)
    \/ \E m \in Macs : AskStale(m)
    \/ \E k \in Kinds, m \in Macs : MntAnswers(k, m)
    \/ \E k \in Kinds, m \in Macs : EnrichFromMnt(k, m)
    \/ \E m \in Macs : ReconcileStale(m)

Spec == Init /\ [][Next]_vars

(***************************************************************************)
(* Fairness.  The worker reconnects for ever, every request of its ends    *)
(* (httpx has a timeout), and it handles what has arrived.  No session     *)
(* need start or end, and no enrichment need run.                          *)
(***************************************************************************)
Fairness ==
    /\ WF_vars(Connect)
    /\ WF_vars(GetSessions)
    /\ WF_vars(ActiveList)
    /\ WF_vars(Reconcile)
    /\ \A m \in Macs : WF_vars(HandleMessage(m))

FairSpec == Spec /\ Fairness

-----------------------------------------------------------------------------
(***************************************************************************)
(*                         Properties                                      *)
(***************************************************************************)

\* The worker has reconciled with getSessions since it subscribed, and has
\* handled every event of m.
UpToDate(m) ==
    /\ worker = [pc |-> "listening", source |-> "pxgrid"]
    /\ stream[m] = <<>>

\* No endpoint stays green after its session has ended, whatever the worker
\* missed while it was away, whatever happened between SUBSCRIBE, the answer
\* of getSessions and the reconciliation, and whatever enrichment comes late;
\* the one exception is an entry made by reconcile_stale_sessions.
PhantomsAreStale ==
    \A m \in Macs :
        UpToDate(m) /\ m \in Cached /\ ~ise[m].on => why[m] = "stale"

\* No endpoint with a session is missing, under the same circumstances; the one
\* exception is one whose entry went by the late disconnect of the session
\* before.
MissingWereCut ==
    \A m \in Macs :
        UpToDate(m) /\ m \notin Cached /\ ise[m].on => why[m] = "late"

\* Once ISE and the network work, the cache comes to list exactly the MACs with
\* a session and never deviates for good, by whatever way it reconciles.
Converges ==
    <>settled =>
        <>[](\A m \in Macs : CASE m \in Cached /\ ~ise[m].on -> why[m] = "stale"
                               [] m \notin Cached /\ ise[m].on -> why[m] = "late"
                               [] OTHER -> TRUE)

=============================================================================
