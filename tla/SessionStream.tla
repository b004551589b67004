--------------------------- MODULE SessionStream ---------------------------
\* The sessions of the browse view (browse.js, browse-table.js): the stream of
\* session events from the backend's session cache, the lookups of active
\* sessions in MnT that replace what the stream has told, and the colours of
\* the rows.  One view, from its mount to its cleanup.
\* A value that may be null is {} or {value}.
EXTENDS Naturals, Sequences, FiniteSets

CONSTANTS Macs,
          QueueCap,  \* events a subscriber's queue holds (256)
          MaxCalls,  \* bound: with so many requests out no other is begun
          MaxActs    \* bound: events of the backend, the network and the user

ASSUME CapAssumption == QueueCap \in Nat \ {0}

VARIABLES cache,     \* the backend's sessions
          enabled,   \* pxgrid_enabled
          queue,     \* the subscriber's queue, and what of it is on its way
          snap,      \* the snapshot on its way
          conn,      \* the EventSource: "closed", "connecting", "accepted" until
                     \* the server has listed its sessions, "open", or "dead"
          sess,      \* pxgridSessionMacs
          data,      \* pxgridSessionData
          active,    \* activeSessionMacs
          live,      \* pxgridLive
          painted,   \* the sessions the colours of the rows were drawn from
          paused, pendingS, pendingE, \* the pause button, and what it holds back
          reload,    \* endpointReloadTimer
          errTimer, restart, \* pxgridErrorTimer; the stream is started in 5 s
          filterOn, viewActive,
          calls, acts,
          told       \* history: the sessions the stream has told the view about, or will

backend == <<cache, enabled>>
stream == <<queue, snap, conn, told>>
known == <<sess, data, active, live>>
pause == <<paused, pendingS, pendingE, reload>>
timers == <<errTimer, restart>>
vars == <<backend, stream, known, painted, pause, timers, filterOn, viewActive, calls, acts>>

SessionEvents == [type : {"upsert", "remove"}, mac : Macs]
Events == SessionEvents \union [type : {"changed", "stopped"}]
Maybe(S) == {{}} \union {{s} : s \in S}
Calls == [op : {"rows"}, force : BOOLEAN] \union [op : {"mnt", "filter"}]
             \union [op : {"sessions"}, got : Maybe(SUBSET Macs)]

TypeOK ==
    /\ cache \in SUBSET Macs /\ enabled \in BOOLEAN
    /\ queue \in Seq(Events) /\ Len(queue) <= QueueCap
    /\ conn \in {"closed", "connecting", "accepted", "open", "dead"}
    /\ {snap, sess, data, active, painted} \subseteq Maybe(SUBSET Macs)
    /\ {live, paused, pendingS, pendingE, reload, errTimer, restart, filterOn, viewActive}
           \subseteq BOOLEAN
    /\ calls \in SUBSET Calls /\ acts \in Nat /\ told \in SUBSET Macs

Fault == acts < MaxActs /\ acts' = acts + 1
Ask(c) == IF Cardinality(calls) < MaxCalls THEN calls \union {c} ELSE calls
Room == Cardinality(calls) < MaxCalls

Init == /\ cache \in SUBSET Macs /\ enabled = TRUE
        /\ queue = <<>> /\ snap = {} /\ conn = "connecting" /\ told = {}
        /\ sess = {} /\ data = {} /\ active = {} /\ live = FALSE /\ painted = {}
        /\ paused = FALSE /\ pendingS = FALSE /\ pendingE = FALSE /\ reload = FALSE
        /\ errTimer = FALSE /\ restart = FALSE
        /\ filterOn = FALSE /\ viewActive = TRUE
        /\ calls = {[op |-> "rows", force |-> TRUE]} /\ acts = 0

----------------------------------------------------------------------------
\* The backend.

Subscribed == conn \in {"accepted", "open"}
Of(q) == {q[i].mac : i \in {j \in DOMAIN q : q[j] \in SessionEvents}}

\* Variant: an event does not come through when the queue is full.
BroadcastDropsNew(e) ==
    /\ queue' = IF Subscribed /\ Len(queue) < QueueCap THEN Append(queue, e) ELSE queue
    /\ told' = IF Subscribed THEN told \union Of(<<e>>) ELSE told

\* Variant: the queue has no end.
BroadcastKeepsAll(e) ==
    /\ queue' = IF Subscribed THEN Append(queue, e) ELSE queue
    /\ told' = IF Subscribed THEN told \union Of(<<e>>) ELSE told

\* A full queue loses its oldest event.
broadcast(e) ==
    LET rest == IF Len(queue) < QueueCap THEN queue ELSE Tail(queue)
        dropped == IF Len(queue) < QueueCap THEN {} ELSE Of(<<Head(queue)>>)
    IN  /\ queue' = IF Subscribed THEN Append(rest, e) ELSE queue
        /\ told' = IF Subscribed THEN (told \ (dropped \ Of(rest))) \union Of(<<e>>) ELSE told

NoticedOnlyInBackend == UNCHANGED <<snap, conn, known, painted, pause, timers, filterOn,
                                    viewActive, calls>>

Upsert(m) == /\ Fault /\ cache' = cache \union {m}
             /\ broadcast([type |-> "upsert", mac |-> m])
             /\ UNCHANGED enabled /\ NoticedOnlyInBackend
Remove(m) == /\ Fault /\ m \in cache /\ cache' = cache \ {m}
             /\ broadcast([type |-> "remove", mac |-> m])
             /\ UNCHANGED enabled /\ NoticedOnlyInBackend
\* A session that is hours old goes without an event; its own are long sent.
Expire(m) == /\ Fault /\ m \in cache \ Of(queue) /\ cache' = cache \ {m} /\ told' = told \ {m}
             /\ UNCHANGED <<enabled, queue>> /\ NoticedOnlyInBackend
EndpointChanged == /\ Fault /\ broadcast([type |-> "changed"])
                   /\ UNCHANGED backend /\ NoticedOnlyInBackend
\* Settings are saved: the worker that ran is stopped.
SetEnabled(on) == /\ Fault /\ enabled' = on
                  /\ IF enabled THEN broadcast([type |-> "stopped"])
                                ELSE UNCHANGED <<queue, told>>
                  /\ UNCHANGED cache /\ NoticedOnlyInBackend

----------------------------------------------------------------------------
\* What the view shows.

\* The sessions that count, from MnT or the stream.
Sources(a, l, s) == IF a # {} THEN a ELSE IF l THEN s ELSE {}
applyAuthStatusColors == painted' = Sources(active', live', sess')

\* A session event draws the rows, or is counted at the pause button.
Redraw == IF paused THEN pendingS' = TRUE /\ UNCHANGED painted
                    ELSE applyAuthStatusColors /\ UNCHANGED pendingS

\* The lookup of active sessions, unless the stream is good for it.
refreshActiveSessionMacs(force, others, filtered) ==
    IF ~force /\ live /\ sess # {}
    THEN active' = sess /\ calls' = others
    ELSE IF ~force /\ ~filtered
    THEN active' = {} /\ calls' = others
    ELSE calls' = others \union {[op |-> "mnt"]} /\ UNCHANGED active

stopPxGridStream ==
    /\ conn' = "closed" /\ queue' = <<>> /\ snap' = {} /\ told' = {}
    /\ live' = FALSE /\ sess' = {} /\ data' = {}
    /\ paused' = FALSE /\ pendingS' = FALSE /\ pendingE' = FALSE
    /\ errTimer' = FALSE

----------------------------------------------------------------------------
\* The stream.

Streaming == UNCHANGED <<backend, filterOn, viewActive, acts>>

Accept == /\ conn = "connecting" /\ conn' = "accepted" /\ told' = {}
          /\ live' = TRUE /\ errTimer' = FALSE
          /\ UNCHANGED <<queue, snap, sess, data, active, painted, pause, restart, calls>>
          /\ Streaming

\* The server lists its sessions; what was queued meanwhile comes after.
SendSnapshot == /\ conn = "accepted" /\ enabled
                /\ conn' = "open" /\ snap' = {cache} /\ told' = Macs
                /\ UNCHANGED <<queue, known, painted, pause, timers, calls>> /\ Streaming

Snapshot == \E S \in snap :
    /\ snap' = {} /\ sess' = {S} /\ data' = {S} /\ live' = TRUE
    /\ active' = IF S # {} THEN {S} ELSE active
    /\ applyAuthStatusColors
    /\ UNCHANGED <<queue, conn, told, pause, timers, calls>> /\ Streaming

Learn(m) == /\ sess' = {(UNION sess) \union {m}} /\ data' = {(UNION data) \union {m}}
            /\ active' = {(UNION active) \union {m}}
Forget(m) == /\ sess' = {S \ {m} : S \in sess} /\ data' = {S \ {m} : S \in data}
             /\ active' = {S \ {m} : S \in active}

Delivered == /\ conn = "open" /\ snap = {} /\ queue # <<>>

SessionEvent ==
    /\ Delivered /\ Head(queue) \in SessionEvents /\ queue' = Tail(queue)
    /\ IF Head(queue).type = "upsert" THEN Learn(Head(queue).mac) ELSE Forget(Head(queue).mac)
    /\ UNCHANGED live /\ Redraw
    /\ UNCHANGED <<snap, conn, told, paused, pendingE, reload, timers, calls>> /\ Streaming

EndpointEvent ==
    /\ Delivered /\ Head(queue).type = "changed" /\ queue' = Tail(queue)
    /\ IF paused THEN pendingE' = TRUE /\ UNCHANGED reload
                 ELSE reload' = TRUE /\ UNCHANGED pendingE
    /\ UNCHANGED <<snap, conn, told, known, painted, paused, pendingS, timers, calls>>
    /\ Streaming

\* pxGrid is off: the stream ends, to be started again only after a restart.
Disabled(again) ==
    /\ stopPxGridStream /\ restart' = again
    /\ calls' = IF filterOn THEN calls \union {[op |-> "mnt"]} ELSE calls
    /\ active' = {}
    /\ UNCHANGED <<painted, reload>> /\ Streaming
WorkerStopped == Delivered /\ Head(queue).type = "stopped" /\ Disabled(TRUE)
Refused == conn = "accepted" /\ ~enabled /\ Disabled(FALSE)

\* Variant: whether the view is still there is not asked.
RestartAnyway == /\ restart /\ restart' = FALSE
                 /\ conn' = IF conn = "closed" THEN "connecting" ELSE conn
                 /\ UNCHANGED <<queue, snap, told, known, painted, pause, errTimer, calls>>
                 /\ Streaming
Restart == /\ restart /\ restart' = FALSE
           /\ conn' = IF viewActive /\ conn = "closed" THEN "connecting" ELSE conn
           /\ UNCHANGED <<queue, snap, told, known, painted, pause, errTimer, calls>>
           /\ Streaming

\* The connection fails; the browser tries again, unless it was told not to.
onerror(next) == /\ conn' = next /\ queue' = <<>> /\ snap' = {} /\ told' = {}
                 /\ errTimer' = TRUE
                 /\ UNCHANGED <<backend, known, painted, pause, restart, filterOn, viewActive, calls>>
Lost == Fault /\ Subscribed /\ onerror("connecting")
Rejected == Fault /\ conn = "connecting" /\ onerror("dead")
ErrorTimer == /\ errTimer /\ errTimer' = FALSE /\ live' = FALSE
              /\ UNCHANGED <<stream, sess, data, active, painted, pause, restart, calls>>
              /\ Streaming

----------------------------------------------------------------------------
\* Lookups and timers of the view.

Answered == UNCHANGED <<backend, stream, pause, timers, filterOn, viewActive, acts>>

\* The rows are loaded and drawn; then the sessions, in the background.
RowsAnswered == \E c \in calls :
    /\ c.op = "rows"
    /\ refreshActiveSessionMacs(c.force, calls \ {c}, filterOn)
    /\ UNCHANGED <<sess, data, live>> /\ applyAuthStatusColors /\ Answered

\* What MnT finds takes the place of what the stream has told.
MntAnswered(got) ==
    /\ [op |-> "mnt"] \in calls /\ calls' = calls \ {[op |-> "mnt"]}
    /\ active' = got
    /\ sess' = IF live /\ got # {} THEN got ELSE sess
    /\ told' = IF got # {} /\ snap = {} THEN told \intersect Of(queue) ELSE told
    /\ UNCHANGED <<data, live>> /\ applyAuthStatusColors
    /\ UNCHANGED <<backend, queue, snap, conn, pause, timers, filterOn, viewActive, acts>>

\* Every five minutes the details of all sessions are fetched.
SessionTimer == /\ Fault /\ Room /\ viewActive /\ live
                /\ calls' = calls \union {[op |-> "sessions", got |-> {}]}
                /\ UNCHANGED <<backend, stream, known, painted, pause, timers, filterOn, viewActive>>
SessionsServed == \E c \in calls :
    /\ c.op = "sessions" /\ c.got = {}
    /\ calls' = (calls \ {c}) \union {[c EXCEPT !.got = {cache}]}
    /\ UNCHANGED <<known, painted>> /\ Answered
SessionsAnswered == \E c \in calls :
    /\ c.op = "sessions" /\ c.got # {} /\ calls' = calls \ {c}
    /\ data' = IF c.got = {{}} THEN data ELSE {(UNION data) \union (UNION c.got)}
    /\ UNCHANGED <<sess, active, live>>
    /\ IF paused \/ c.got = {{}} THEN UNCHANGED painted ELSE applyAuthStatusColors
    /\ Answered

\* Rows with unsaved input are not replaced.
ReloadTimer(dirty) == /\ reload /\ reload' = FALSE
                      /\ calls' = IF dirty THEN calls ELSE Ask([op |-> "rows", force |-> FALSE])
                      /\ UNCHANGED <<stream, known, painted, paused, pendingS, pendingE, timers>>
                      /\ Streaming

----------------------------------------------------------------------------
\* The user.

Click == Fault /\ viewActive
Clicked == UNCHANGED <<backend, stream, timers>>

\* Variant: what came during the pause is not drawn.
ResumeUndrawn == /\ Click /\ paused' = ~paused /\ UNCHANGED known
                 /\ pendingS' = FALSE /\ pendingE' = FALSE
                 /\ reload' = (reload \/ (paused /\ pendingE))
                 /\ UNCHANGED <<painted, filterOn, viewActive, calls>> /\ Clicked
PauseOrResume == /\ Click /\ paused' = ~paused /\ UNCHANGED known
                 /\ pendingS' = (pendingS /\ ~paused) /\ pendingE' = (pendingE /\ ~paused)
                 /\ IF paused /\ pendingS THEN applyAuthStatusColors ELSE UNCHANGED painted
                 /\ reload' = (reload \/ (paused /\ pendingE))
                 /\ UNCHANGED <<filterOn, viewActive, calls>> /\ Clicked

\* A filter needs all rows first; without one the sessions of MnT are dropped.
SetFilter == /\ Click /\ Room /\ ~filterOn /\ filterOn' = TRUE
             /\ calls' = calls \union {[op |-> "filter"]}
             /\ UNCHANGED <<known, painted, pause, viewActive>> /\ Clicked
FilterAnswered == /\ [op |-> "filter"] \in calls
                  /\ refreshActiveSessionMacs(FALSE, calls \ {[op |-> "filter"]}, filterOn)
                  /\ UNCHANGED <<sess, data, live>> /\ applyAuthStatusColors /\ Answered
ClearFilter == /\ Click /\ Room /\ filterOn /\ filterOn' = FALSE /\ active' = {}
               /\ calls' = calls \union {[op |-> "rows", force |-> FALSE]}
               /\ UNCHANGED <<sess, data, live, painted, pause, viewActive>> /\ Clicked

cleanup == /\ viewActive /\ viewActive' = FALSE /\ stopPxGridStream /\ active' = {}
           /\ UNCHANGED <<backend, painted, reload, restart, filterOn, calls, acts>>

Next == \/ \E m \in Macs : Upsert(m) \/ Remove(m) \/ Expire(m)
        \/ EndpointChanged \/ \E on \in BOOLEAN : SetEnabled(on)
        \/ Accept \/ SendSnapshot \/ Snapshot \/ SessionEvent \/ EndpointEvent
        \/ WorkerStopped \/ Refused \/ Restart \/ Lost \/ Rejected \/ ErrorTimer
        \/ RowsAnswered \/ (\E got \in Maybe(SUBSET Macs) : MntAnswered(got))
        \/ SessionTimer \/ SessionsServed \/ SessionsAnswered
        \/ \E dirty \in BOOLEAN : ReloadTimer(dirty)
        \/ PauseOrResume \/ SetFilter \/ FilterAnswered \/ ClearFilter \/ cleanup

Spec == Init /\ [][Next]_vars

----------------------------------------------------------------------------
\* What the view will believe of m when it has caught up: by the last event
\* about m that is queued, or else by what it holds or is being sent.
Base(held) == IF snap # {} THEN UNION snap ELSE UNION held
Last(m, i) == /\ queue[i] \in SessionEvents /\ queue[i].mac = m
              /\ \A j \in (i + 1)..Len(queue) : queue[j] \notin SessionEvents \/ queue[j].mac # m
WillHold(held, m) ==
    IF m \in Of(queue)
    THEN \E i \in DOMAIN queue : Last(m, i) /\ queue[i].type = "upsert"
    ELSE m \in Base(held)

\* An open stream keeps the view exact: a session the stream has told about is
\* among the view's sessions, once the queue is empty, if and only if it is in
\* the backend's cache, and its details are there.  This is the order of
\* subscribe and list in sessions_stream, and the oldest event dropped first.
StreamExact == conn = "open" =>
    \A m \in told : /\ WillHold(sess, m) <=> m \in cache
                    /\ m \in cache => WillHold(data, m)

\* While the stream is open, the rows have the colours of the sessions the view
\* knows, or the pause button counts that they have not.
PaintFollows == (conn = "open" /\ snap = {} /\ \A c \in calls : c.op # "rows") =>
    painted = Sources(active, live, sess) \/ (paused /\ pendingS)

\* What the browse view leaves behind is silent: no stream, no error timer, and
\* a late answer brings back no session of a stream that is closed.
SilentAfterLeave == ~viewActive => conn = "closed" /\ ~errTimer /\ ~live /\ sess = {}
=============================================================================
