------------------------ MODULE SessionStreamProofs ------------------------
(***************************************************************************)
(* Proofs about SessionStream, for every set of MACs, every length of the  *)
(* queue and any number of requests and events.                            *)
(*                                                                         *)
(* The inductive invariant IInv splits what the view will believe of a MAC *)
(* by where it is to be read:                                              *)
(*   - QueueOK: in the last queued event about it, if there is one, which  *)
(*     has held since the subscription, before any snapshot was sent;      *)
(*   - BaseOK: in the snapshot on its way, or else in what the view holds. *)
(* An event moves a MAC from the second place to the first, its delivery   *)
(* moves it back, and the queue that drops its oldest event gives the MAC  *)
(* up unless a later event about it remains.                               *)
(***************************************************************************)
EXTENDS SessionStream, SequenceTheorems, TLAPS

About(e, m) == e \in SessionEvents /\ e.mac = m

\* The last event of q about m is an upsert.
Ups(q, m) == \E i \in DOMAIN q :
    /\ About(q[i], m) /\ q[i].type = "upsert"
    /\ \A j \in (i + 1)..Len(q) : ~About(q[j], m)

QueueOK == Subscribed => \A m \in Of(queue) : Ups(queue, m) <=> m \in cache

BaseOK == conn = "open" =>
    \A m \in told \ Of(queue) : /\ m \in Base(sess) <=> m \in cache
                                /\ m \in cache => m \in Base(data)

\* Only an open stream has a snapshot, only a subscriber a queue; and while the
\* stream is there it counts as live, with no error timer to end that.
ShapeOK == /\ ~Subscribed => queue = <<>>
           /\ conn # "open" => snap = {}
           /\ Subscribed => live /\ ~errTimer

IInv == TypeOK /\ ShapeOK /\ QueueOK /\ BaseOK /\ PaintFollows /\ SilentAfterLeave

-----------------------------------------------------------------------------
(* Queues *)

\* Of collects the MACs that events are about.
LEMMA OfAbout ==
    ASSUME NEW q, NEW m
    PROVE  m \in Of(q) <=> \E i \in DOMAIN q : About(q[i], m)
BY DEF Of, About

\* Only session events are about a MAC, and about one of Macs.
LEMMA AboutType ==
    ASSUME NEW e \in Events, NEW m, About(e, m)
    PROVE  m \in Macs /\ e.type \in {"upsert", "remove"}
BY DEF About, SessionEvents

\* An appended event is the last about its MAC, and changes nothing for others.
LEMMA AppendQueue ==
    ASSUME NEW q \in Seq(Events), NEW e \in Events, NEW m
    PROVE  /\ m \in Of(Append(q, e)) <=> m \in Of(q) \/ About(e, m)
           /\ About(e, m) => (Ups(Append(q, e), m) <=> e.type = "upsert")
           /\ ~About(e, m) => (Ups(Append(q, e), m) <=> Ups(q, m))
<1> DEFINE r == Append(q, e)
<1>1. /\ r \in Seq(Events) /\ Len(r) = Len(q) + 1
      /\ \A i \in 1..Len(q) : r[i] = q[i]
      /\ r[Len(q) + 1] = e
  BY AppendProperties
<1>2. /\ Len(q) \in Nat /\ DOMAIN q = 1..Len(q) /\ DOMAIN r = 1..(Len(q) + 1)
  BY <1>1, LenProperties
<1> HIDE DEF r
<1>3. m \in Of(r) <=> m \in Of(q) \/ About(e, m)
  BY <1>1, <1>2, OfAbout
<1>4. ASSUME About(e, m) PROVE Ups(r, m) <=> e.type = "upsert"
  BY <1>1, <1>2, <1>4 DEF Ups
<1>5. ASSUME ~About(e, m) PROVE Ups(r, m) <=> Ups(q, m)
  BY <1>1, <1>2, <1>5 DEF Ups
<1> QED
  BY <1>3, <1>4, <1>5 DEF r

\* The first event counts only for a MAC that no later event is about.
LEMMA TailQueue ==
    ASSUME NEW q \in Seq(Events), q # <<>>, NEW m
    PROVE  /\ Head(q) \in Events
           /\ m \in Of(q) <=> About(Head(q), m) \/ m \in Of(Tail(q))
           /\ m \in Of(Tail(q)) => (Ups(q, m) <=> Ups(Tail(q), m))
           /\ m \in Of(q) /\ m \notin Of(Tail(q))
                 => (Ups(q, m) <=> Head(q).type = "upsert")
<1> DEFINE r == Tail(q)
<1>1. /\ Head(q) \in Events /\ Head(q) = q[1]
      /\ r \in Seq(Events) /\ Len(r) = Len(q) - 1
      /\ \A i \in 1..Len(r) : r[i] = q[i + 1]
  BY HeadTailProperties
<1>2. /\ Len(q) \in Nat \ {0} /\ DOMAIN q = 1..Len(q) /\ DOMAIN r = 1..(Len(q) - 1)
  BY <1>1, LenProperties, EmptySeq
<1> HIDE DEF r
<1>3. m \in Of(q) <=> About(Head(q), m) \/ m \in Of(r)
  <2>1. ASSUME NEW i \in DOMAIN q, About(q[i], m)
        PROVE  About(Head(q), m) \/ m \in Of(r)
    <3>1. CASE i = 1
      BY <1>1, <2>1, <3>1
    <3>2. CASE i # 1
      <4>1. i - 1 \in DOMAIN r /\ r[i - 1] = q[i]
        BY <1>1, <1>2, <3>2
      <4> QED
        BY <2>1, <4>1, OfAbout
    <3> QED
      BY <3>1, <3>2
  <2>2. ASSUME NEW i \in DOMAIN r, About(r[i], m) PROVE m \in Of(q)
    <3>1. i + 1 \in DOMAIN q /\ q[i + 1] = r[i]
      BY <1>1, <1>2
    <3> QED
      BY <2>2, <3>1, OfAbout
  <2>3. About(Head(q), m) => m \in Of(q)
    BY <1>1, <1>2, OfAbout
  <2> QED
    BY <2>1, <2>2, <2>3, OfAbout
<1>4. ASSUME m \in Of(r) PROVE Ups(q, m) <=> Ups(r, m)
  <2>1. PICK k \in DOMAIN r : About(r[k], m)
    BY <1>4, OfAbout
  <2>2. ASSUME Ups(q, m) PROVE Ups(r, m)
    <3>1. PICK i \in DOMAIN q :
             /\ About(q[i], m) /\ q[i].type = "upsert"
             /\ \A j \in (i + 1)..Len(q) : ~About(q[j], m)
      BY <2>2 DEF Ups
    <3>2. k + 1 \in 2..Len(q) /\ q[k + 1] = r[k]
      BY <1>1, <1>2
    <3>3. i # 1
      BY <1>2, <2>1, <3>1, <3>2
    <3>4. /\ i - 1 \in DOMAIN r /\ r[i - 1] = q[i]
          /\ \A j \in ((i - 1) + 1)..Len(r) : j + 1 \in (i + 1)..Len(q) /\ r[j] = q[j + 1]
      BY <1>1, <1>2, <3>3
    <3> QED
      BY <3>1, <3>4 DEF Ups
  <2>3. ASSUME Ups(r, m) PROVE Ups(q, m)
    <3>1. PICK i \in DOMAIN r :
             /\ About(r[i], m) /\ r[i].type = "upsert"
             /\ \A j \in (i + 1)..Len(r) : ~About(r[j], m)
      BY <2>3 DEF Ups
    <3>2. /\ i + 1 \in DOMAIN q /\ q[i + 1] = r[i]
          /\ \A j \in ((i + 1) + 1)..Len(q) : j - 1 \in (i + 1)..Len(r) /\ q[j] = r[j - 1]
      BY <1>1, <1>2
    <3> QED
      BY <3>1, <3>2 DEF Ups
  <2> QED
    BY <2>2, <2>3
<1>5. ASSUME m \in Of(q), m \notin Of(r) PROVE Ups(q, m) <=> Head(q).type = "upsert"
  <2>1. \A j \in 2..Len(q) : ~About(q[j], m)
    <3> SUFFICES ASSUME NEW j \in 2..Len(q) PROVE ~About(q[j], m)
      OBVIOUS
    <3>1. j - 1 \in DOMAIN r /\ r[j - 1] = q[j]
      BY <1>1, <1>2
    <3> QED
      BY <1>5, <3>1, OfAbout
  <2>2. About(q[1], m)
    BY <1>1, <1>3, <1>5
  <2> QED
    BY <1>1, <1>2, <2>1, <2>2 DEF Ups
<1> QED
  BY <1>1, <1>3, <1>4, <1>5 DEF r

-----------------------------------------------------------------------------
(* What the invariant says, and the initial state *)

\* QueueOK and BaseOK are the two halves of StreamExact.
LEMMA StreamExactByPlace ==
    ASSUME QueueOK, BaseOK
    PROVE  StreamExact
<1> SUFFICES ASSUME conn = "open", NEW m \in told
             PROVE  /\ WillHold(sess, m) <=> m \in cache
                    /\ m \in cache => WillHold(data, m)
  BY DEF StreamExact
<1>1. (\E i \in DOMAIN queue : Last(m, i) /\ queue[i].type = "upsert") <=> Ups(queue, m)
  BY DEF Last, Ups, About
<1>2. CASE m \in Of(queue)
  BY <1>1, <1>2 DEF WillHold, QueueOK, Subscribed
<1>3. CASE m \notin Of(queue)
  BY <1>3 DEF WillHold, BaseOK
<1> QED
  BY <1>2, <1>3

\* What may be null is {} or holds one value.
LEMMA MaybeMembers ==
    ASSUME NEW S
    PROVE  /\ {} \in Maybe(S)
           /\ \A x \in S : {x} \in Maybe(S)
           /\ \A y \in Maybe(S) : y = {} \/ \E x \in S : y = {x}
BY DEF Maybe

\* The requests of the view are requests.
LEMMA CallTypes ==
    /\ \A f \in BOOLEAN : [op |-> "rows", force |-> f] \in Calls
    /\ [op |-> "mnt"] \in Calls
    /\ [op |-> "filter"] \in Calls
    /\ \A g \in Maybe(SUBSET Macs) : [op |-> "sessions", got |-> g] \in Calls
BY DEF Calls

\* The view starts with an empty queue and nothing drawn.
LEMMA InitInv == Init => IInv
<1> SUFFICES ASSUME Init PROVE IInv
  OBVIOUS
<1>1. <<>> \in Seq(Events) /\ Len(<<>>) = 0
  BY EmptySeq
<1>2. [op |-> "rows", force |-> TRUE] \in Calls
  BY DEF Calls
<1>3. TypeOK
  <2>1. queue \in Seq(Events) /\ Len(queue) <= QueueCap
    BY <1>1, CapAssumption DEF Init
  <2>2. {} \in Maybe(SUBSET Macs)
    BY MaybeMembers
  <2>3. {snap, sess, data, active, painted} \subseteq Maybe(SUBSET Macs)
    BY <2>2 DEF Init
  <2> QED
    BY <1>2, <2>1, <2>3 DEF Init, TypeOK
<1> QED
  BY <1>3 DEF Init, IInv, ShapeOK, QueueOK, BaseOK, PaintFollows, SilentAfterLeave, Subscribed

-----------------------------------------------------------------------------
(* Events of the backend *)

\* A full queue makes room by losing its oldest event: the stream has then told
\* nothing of that MAC, unless a later event about it remains.
LEMMA DropKeeps ==
    ASSUME IInv, Subscribed, NEW rest, NEW dropped,
           rest = IF Len(queue) < QueueCap THEN queue ELSE Tail(queue),
           dropped = IF Len(queue) < QueueCap THEN {} ELSE Of(<<Head(queue)>>)
    PROVE  /\ rest \in Seq(Events) /\ Len(rest) < QueueCap
           /\ \A m \in Of(rest) : m \in Of(queue) /\ (Ups(rest, m) <=> m \in cache)
           /\ \A m \in (told \ (dropped \ Of(rest))) \ Of(rest) : m \in told \ Of(queue)
<1>1. /\ queue \in Seq(Events) /\ Len(queue) \in Nat /\ Len(queue) <= QueueCap
      /\ QueueCap \in Nat \ {0}
  BY CapAssumption, LenProperties DEF IInv, TypeOK
<1>2. CASE Len(queue) < QueueCap
  BY <1>1, <1>2 DEF IInv, QueueOK
<1>3. CASE ~(Len(queue) < QueueCap)
  <2>1. queue # <<>> /\ rest = Tail(queue) /\ dropped = Of(<<Head(queue)>>)
    BY <1>1, <1>3, EmptySeq
  <2>2. rest \in Seq(Events) /\ Len(rest) = Len(queue) - 1
    BY <1>1, <2>1, HeadTailProperties
  <2>3. ASSUME NEW m PROVE m \in dropped <=> About(Head(queue), m)
    BY <2>1, OfAbout
  <2>4. \A m : m \in Of(queue) <=> About(Head(queue), m) \/ m \in Of(rest)
    BY <1>1, <2>1, TailQueue
  <2>5. \A m \in Of(rest) : Ups(queue, m) <=> Ups(rest, m)
    BY <1>1, <2>1, TailQueue
  <2> QED
    BY <1>1, <1>3, <2>2, <2>3, <2>4, <2>5 DEF IInv, QueueOK
<1> QED
  BY <1>2, <1>3

\* An event that says how things now are moves its MAC to the queue.
LEMMA BroadcastKeeps ==
    ASSUME IInv, NEW e \in Events, broadcast(e),
           cache' \in SUBSET Macs, enabled' \in BOOLEAN, acts' \in Nat,
           \A m \in Macs : IF About(e, m) THEN m \in cache' <=> e.type = "upsert"
                                          ELSE m \in cache' <=> m \in cache,
           NoticedOnlyInBackend
    PROVE  IInv'
<1> DEFINE rest == IF Len(queue) < QueueCap THEN queue ELSE Tail(queue)
           dropped == IF Len(queue) < QueueCap THEN {} ELSE Of(<<Head(queue)>>)
<1>1. UNCHANGED <<snap, conn, sess, data, active, live, painted, paused, pendingS, pendingE,
                  reload, errTimer, restart, filterOn, viewActive, calls>>
  BY DEF NoticedOnlyInBackend, known, pause, timers
<1>2. Subscribed' <=> Subscribed
  BY <1>1 DEF Subscribed
<1>3. CASE ~Subscribed
  <2>1. queue' = queue /\ told' = told
    BY <1>3 DEF broadcast
  <2> QED
    BY <1>1, <1>2, <1>3, <2>1
    DEF IInv, TypeOK, ShapeOK, QueueOK, BaseOK, Subscribed, PaintFollows, SilentAfterLeave
<1>4. CASE Subscribed
  <2>1. /\ queue' = Append(rest, e)
        /\ told' = (told \ (dropped \ Of(rest))) \union Of(<<e>>)
    BY <1>4 DEF broadcast
  <2>2. /\ rest \in Seq(Events) /\ Len(rest) < QueueCap
        /\ \A m \in Of(rest) : m \in Of(queue) /\ (Ups(rest, m) <=> m \in cache)
        /\ \A m \in (told \ (dropped \ Of(rest))) \ Of(rest) : m \in told \ Of(queue)
    BY <1>4, DropKeeps
  <2> HIDE DEF rest, dropped
  <2>3. queue' \in Seq(Events) /\ Len(queue') <= QueueCap
    <3>1. queue' \in Seq(Events) /\ Len(queue') = Len(rest) + 1 /\ Len(rest) \in Nat
      BY <2>1, <2>2, AppendProperties, LenProperties
    <3> QED
      BY <2>2, <3>1, CapAssumption
  <2>4. \A m : m \in Of(<<e>>) <=> About(e, m)
    BY OfAbout
  <2>5. \A m : m \in Of(queue') <=> m \in Of(rest) \/ About(e, m)
    BY <2>1, <2>2, AppendQueue
  <2>6. \A m : IF About(e, m) THEN Ups(queue', m) <=> e.type = "upsert"
                              ELSE Ups(queue', m) <=> Ups(rest, m)
    BY <2>1, <2>2, AppendQueue
  <2>7. \A m : About(e, m) => m \in Macs
    BY AboutType
  <2>8. cache \in SUBSET Macs /\ told \in SUBSET Macs
    BY DEF IInv, TypeOK
  <2>9. told' \in SUBSET Macs
    BY <2>1, <2>4, <2>7, <2>8
  <2>10. \A m : About(e, m) \/ (m \in cache' <=> m \in cache)
    BY <2>8
  <2>11. QueueOK'
    BY <2>2, <2>5, <2>6, <2>7, <2>10 DEF QueueOK
  <2>12. BaseOK'
    <3> SUFFICES ASSUME conn = "open", NEW m \in told' \ Of(queue')
                 PROVE  /\ m \in Base(sess) <=> m \in cache'
                        /\ m \in cache' => m \in Base(data)
      BY <1>1 DEF BaseOK, Base
    <3>1. ~About(e, m) /\ m \in told \ Of(queue)
      BY <2>1, <2>2, <2>4, <2>5
    <3> QED
      BY <2>10, <3>1 DEF IInv, BaseOK
  <2>13. TypeOK'
    BY <1>1, <2>3, <2>9 DEF IInv, TypeOK
  <2> QED
    BY <1>1, <1>2, <1>4, <2>11, <2>12, <2>13
    DEF IInv, ShapeOK, PaintFollows, SilentAfterLeave, Sources
<1> QED
  BY <1>3, <1>4

\* Sessions come, change and go with an event each; the settings, with one about
\* the worker; and a session that has expired is one the stream tells nothing of.
LEMMA BackendKeeps ==
    ASSUME IInv,
           \/ \E m \in Macs : Upsert(m) \/ Remove(m) \/ Expire(m)
           \/ EndpointChanged
           \/ \E on \in BOOLEAN : SetEnabled(on)
    PROVE  IInv'
<1>1. cache \in SUBSET Macs /\ acts \in Nat /\ enabled \in BOOLEAN
  BY DEF IInv, TypeOK
<1>2. ASSUME NEW m \in Macs, Upsert(m) PROVE IInv'
  <2> DEFINE e == [type |-> "upsert", mac |-> m]
  <2>1. e \in Events /\ \A k : About(e, k) <=> k = m
    BY DEF Events, SessionEvents, About
  <2> QED
    BY <1>1, <1>2, <2>1, BroadcastKeeps DEF Upsert, Fault
<1>3. ASSUME NEW m \in Macs, Remove(m) PROVE IInv'
  <2> DEFINE e == [type |-> "remove", mac |-> m]
  <2>1. e \in Events /\ \A k : About(e, k) <=> k = m
    BY DEF Events, SessionEvents, About
  <2> QED
    BY <1>1, <1>3, <2>1, BroadcastKeeps DEF Remove, Fault
<1>4. ASSUME NEW m \in Macs, Expire(m) PROVE IInv'
  <2>1. /\ m \notin Of(queue) /\ cache' = cache \ {m} /\ told' = told \ {m} /\ acts' = acts + 1
        /\ UNCHANGED <<enabled, queue, snap, conn, sess, data, active, live, painted, paused,
                       pendingS, pendingE, reload, errTimer, restart, filterOn, viewActive,
                       calls>>
    BY <1>4 DEF Expire, Fault, NoticedOnlyInBackend, known, pause, timers
  <2>2. QueueOK' /\ BaseOK'
    BY <2>1 DEF IInv, QueueOK, BaseOK, Subscribed, Base
  <2>3. TypeOK'
    BY <1>1, <2>1 DEF IInv, TypeOK
  <2> QED
    BY <2>1, <2>2, <2>3
    DEF IInv, ShapeOK, PaintFollows, SilentAfterLeave, Subscribed, Sources
<1>5. ASSUME EndpointChanged PROVE IInv'
  <2> DEFINE e == [type |-> "changed"]
  <2>1. e \in Events /\ \A k : ~About(e, k)
    BY DEF Events, SessionEvents, About
  <2> QED
    BY <1>1, <1>5, <2>1, BroadcastKeeps DEF EndpointChanged, Fault, backend
<1>6. ASSUME NEW on \in BOOLEAN, SetEnabled(on) PROVE IInv'
  <2> DEFINE e == [type |-> "stopped"]
  <2>1. e \in Events /\ \A k : ~About(e, k)
    BY DEF Events, SessionEvents, About
  <2>2. CASE enabled
    BY <1>1, <1>6, <2>1, <2>2, BroadcastKeeps DEF SetEnabled, Fault
  <2>3. CASE ~enabled
    <3>1. /\ enabled' \in BOOLEAN /\ acts' = acts + 1
          /\ UNCHANGED <<cache, queue, told, snap, conn, sess, data, active, live, painted,
                         paused, pendingS, pendingE, reload, errTimer, restart, filterOn,
                         viewActive, calls>>
      BY <1>6, <2>3 DEF SetEnabled, Fault, NoticedOnlyInBackend, known, pause, timers
    <3>2. TypeOK'
      BY <1>1, <3>1 DEF IInv, TypeOK
    <3> QED
      BY <3>1, <3>2 DEF IInv, ShapeOK, QueueOK, BaseOK, Base, PaintFollows,
                        SilentAfterLeave, Subscribed, Sources
  <2> QED
    BY <2>2, <2>3
<1> QED
  BY <1>2, <1>3, <1>4, <1>5, <1>6

-----------------------------------------------------------------------------
(* The stream *)

\* A stream that is closed or connecting is told nothing.
LEMMA UnsubscribedKeeps ==
    ASSUME conn' \in {"closed", "connecting", "dead"}, queue' = <<>>, snap' = {}
    PROVE  ShapeOK' /\ QueueOK' /\ BaseOK' /\ PaintFollows'
BY DEF ShapeOK, QueueOK, BaseOK, PaintFollows, Subscribed

\* A subscriber's queue starts empty; its snapshot comes before what is queued.
LEMMA AcceptKeeps == IInv /\ (Accept \/ SendSnapshot) => IInv'
<1>1. ASSUME IInv, Accept PROVE IInv'
  <2>1. /\ conn = "connecting" /\ conn' = "accepted" /\ told' = {}
        /\ live' = TRUE /\ errTimer' = FALSE
        /\ UNCHANGED <<queue, snap, sess, data, active, painted, paused, pendingS, pendingE,
                       reload, restart, calls, cache, enabled, filterOn, viewActive, acts>>
    BY <1>1 DEF Accept, Streaming, pause, backend
  <2>2. queue = <<>> /\ snap = {}
    BY <1>1, <2>1 DEF IInv, ShapeOK, Subscribed
  <2>3. TypeOK'
    BY <1>1, <2>1 DEF IInv, TypeOK
  <2>4. Of(queue) = {}
    BY <2>2 DEF Of
  <2> QED
    BY <1>1, <2>1, <2>2, <2>3, <2>4
    DEF IInv, ShapeOK, QueueOK, BaseOK, PaintFollows, SilentAfterLeave, Subscribed
<1>2. ASSUME IInv, SendSnapshot PROVE IInv'
  <2>1. /\ conn = "accepted" /\ conn' = "open" /\ snap' = {cache} /\ told' = Macs
        /\ UNCHANGED <<queue, sess, data, active, live, painted, paused, pendingS, pendingE,
                       reload, errTimer, restart, calls, cache, enabled, filterOn,
                       viewActive, acts>>
    BY <1>2 DEF SendSnapshot, Streaming, known, pause, timers, backend
  <2>2. cache \in SUBSET Macs /\ {cache} \in Maybe(SUBSET Macs)
    BY <1>2, MaybeMembers DEF IInv, TypeOK
  <2>3. TypeOK'
    BY <1>2, <2>1, <2>2 DEF IInv, TypeOK
  <2>4. UNION snap' = cache
    BY <2>1
  <2> QED
    BY <1>2, <2>1, <2>3, <2>4
    DEF IInv, ShapeOK, QueueOK, BaseOK, Base, PaintFollows, SilentAfterLeave, Subscribed
<1> QED
  BY <1>1, <1>2

\* The snapshot takes the place of what the view holds.
LEMMA SnapshotKeeps == IInv /\ Snapshot => IInv'
<1> SUFFICES ASSUME IInv, Snapshot PROVE IInv'
  OBVIOUS
<1>1. PICK S \in snap :
        /\ snap' = {} /\ sess' = {S} /\ data' = {S} /\ live' = TRUE
        /\ active' = IF S # {} THEN {S} ELSE active
        /\ painted' = Sources(active', live', sess')
        /\ UNCHANGED <<queue, conn, told, paused, pendingS, pendingE, reload, errTimer,
                       restart, calls, cache, enabled, filterOn, viewActive, acts>>
  BY DEF Snapshot, applyAuthStatusColors, Streaming, pause, timers, backend
<1>2. snap \in Maybe(SUBSET Macs)
  BY DEF IInv, TypeOK
<1>3. snap = {S} /\ S \in SUBSET Macs /\ {S} \in Maybe(SUBSET Macs)
  BY <1>1, <1>2, MaybeMembers
<1>4. conn = "open"
  BY <1>1 DEF IInv, ShapeOK
<1>5. TypeOK'
  <2>1. painted' \in Maybe(SUBSET Macs) /\ active' \in Maybe(SUBSET Macs)
    BY <1>1, <1>3 DEF IInv, TypeOK, Sources
  <2>2. {} \in Maybe(SUBSET Macs)
    BY MaybeMembers
  <2> QED
    BY <1>1, <1>3, <2>1, <2>2 DEF IInv, TypeOK
<1>6. QueueOK'
  BY <1>1 DEF IInv, QueueOK, Subscribed
<1>7. BaseOK'
  BY <1>1, <1>3 DEF IInv, BaseOK, Base
<1> QED
  BY <1>1, <1>4, <1>5, <1>6, <1>7
  DEF IInv, ShapeOK, PaintFollows, SilentAfterLeave, Subscribed

\* To forget a MAC takes it, and no other, from what is held.
LEMMA ForgetUnion ==
    ASSUME NEW x, NEW k, NEW y, y = {S \ {k} : S \in x}
    PROVE  \A m : m \in UNION y <=> m \in UNION x /\ m # k
<1> SUFFICES ASSUME NEW m PROVE m \in UNION y <=> m \in UNION x /\ m # k
  OBVIOUS
<1>1. ASSUME m \in UNION y PROVE m \in UNION x /\ m # k
  <2>1. PICK T \in y : m \in T
    BY <1>1
  <2>2. PICK S \in x : T = S \ {k}
    BY <2>1
  <2> QED
    BY <2>1, <2>2
<1>2. ASSUME m \in UNION x, m # k PROVE m \in UNION y
  <2>1. PICK S \in x : m \in S
    BY <1>2
  <2>2. m \in S \ {k} /\ S \ {k} \in y
    BY <1>2, <2>1
  <2> QED
    BY <2>2
<1> QED
  BY <1>1, <1>2

\* To learn a MAC adds it, and no other, to what is held.
LEMMA LearnUnion ==
    ASSUME NEW x, NEW k, NEW y, y = {(UNION x) \union {k}}
    PROVE  \A m : m \in UNION y <=> m \in UNION x \/ m = k
<1>1. UNION y = (UNION x) \union {k}
  OBVIOUS
<1> QED
  BY <1>1

\* What the queue delivers, the view then holds: the event that is taken was the
\* last about its MAC, or a later one decides.
LEMMA DeliveredKeeps ==
    ASSUME IInv, Delivered, queue' = Tail(queue), UNCHANGED <<conn, snap, told, cache>>,
           LET e == Head(queue)
           IN  IF e \in SessionEvents
               THEN IF e.type = "upsert" THEN Learn(e.mac) ELSE Forget(e.mac)
               ELSE UNCHANGED <<sess, data>>
    PROVE  /\ queue' \in Seq(Events) /\ Len(queue') <= QueueCap
           /\ Head(queue) \in Events
           /\ QueueOK' /\ BaseOK'
<1>1. queue \in Seq(Events) /\ queue # <<>> /\ Len(queue) <= QueueCap /\ Len(queue) \in Nat
  BY LenProperties DEF IInv, TypeOK, Delivered
<1>2. queue' \in Seq(Events) /\ Len(queue') = Len(queue) - 1 /\ Head(queue) \in Events
  BY <1>1, HeadTailProperties
<1>3. conn = "open" /\ conn' = "open" /\ snap = {} /\ snap' = {}
  BY DEF Delivered
<1>4. \A m : m \in Of(queue) <=> About(Head(queue), m) \/ m \in Of(queue')
  BY <1>1, TailQueue
<1>5. \A m \in Of(queue') : Ups(queue, m) <=> Ups(queue', m)
  BY <1>1, TailQueue
<1>6. \A m \in Of(queue) \ Of(queue') : Ups(queue, m) <=> Head(queue).type = "upsert"
  BY <1>1, TailQueue
<1>7. QueueOK'
  BY <1>3, <1>4, <1>5 DEF IInv, QueueOK, Subscribed
<1>8. ASSUME Head(queue) \in SessionEvents, Head(queue).type = "upsert"
      PROVE  \A m : /\ m \in UNION sess' <=> m \in UNION sess \/ m = Head(queue).mac
                    /\ m \in UNION data' <=> m \in UNION data \/ m = Head(queue).mac
  <2>1. /\ sess' = {(UNION sess) \union {Head(queue).mac}}
        /\ data' = {(UNION data) \union {Head(queue).mac}}
    BY <1>8 DEF Learn
  <2>2. \A m : m \in UNION sess' <=> m \in UNION sess \/ m = Head(queue).mac
    BY <2>1, LearnUnion
  <2>3. \A m : m \in UNION data' <=> m \in UNION data \/ m = Head(queue).mac
    BY <2>1, LearnUnion
  <2> QED
    BY <2>2, <2>3
<1>9. ASSUME Head(queue) \in SessionEvents, Head(queue).type # "upsert"
      PROVE  \A m : /\ m \in UNION sess' <=> m \in UNION sess /\ m # Head(queue).mac
                    /\ m \in UNION data' <=> m \in UNION data /\ m # Head(queue).mac
  <2>1. /\ sess' = {S \ {Head(queue).mac} : S \in sess}
        /\ data' = {S \ {Head(queue).mac} : S \in data}
    BY <1>9 DEF Forget
  <2>2. \A m : m \in UNION sess' <=> m \in UNION sess /\ m # Head(queue).mac
    BY <2>1, ForgetUnion
  <2>3. \A m : m \in UNION data' <=> m \in UNION data /\ m # Head(queue).mac
    BY <2>1, ForgetUnion
  <2> QED
    BY <2>2, <2>3
<1>10. BaseOK'
  <2> SUFFICES ASSUME NEW m \in told \ Of(queue')
               PROVE  /\ m \in UNION sess' <=> m \in cache
                      /\ m \in cache => m \in UNION data'
    BY <1>3 DEF BaseOK, Base
  <2>1. CASE About(Head(queue), m)
    <3>1. m \in Of(queue) \ Of(queue')
      BY <1>4, <2>1
    <3>2. m \in cache <=> Head(queue).type = "upsert"
      BY <1>3, <1>6, <3>1 DEF IInv, QueueOK, Subscribed
    <3>3. CASE Head(queue).type = "upsert"
      <4>1. m \in UNION sess' /\ m \in UNION data'
        BY <1>8, <2>1, <3>3 DEF About
      <4> QED
        BY <3>2, <3>3, <4>1
    <3>4. CASE Head(queue).type # "upsert"
      <4>1. m \notin UNION sess'
        BY <1>9, <2>1, <3>4 DEF About
      <4> QED
        BY <3>2, <3>4, <4>1
    <3> QED
      BY <3>3, <3>4
  <2>2. CASE ~About(Head(queue), m)
    <3>1. (m \in UNION sess <=> m \in cache) /\ (m \in cache => m \in UNION data)
      BY <1>3, <1>4, <2>2 DEF IInv, BaseOK, Base
    <3>2. (m \in UNION sess' <=> m \in UNION sess) /\ (m \in UNION data' <=> m \in UNION data)
      <4>1. CASE Head(queue) \notin SessionEvents
        BY <4>1
      <4>2. CASE Head(queue) \in SessionEvents /\ Head(queue).type = "upsert"
        BY <1>8, <2>2, <4>2 DEF About
      <4>3. CASE Head(queue) \in SessionEvents /\ Head(queue).type # "upsert"
        BY <1>9, <2>2, <4>3 DEF About
      <4> QED
        BY <4>1, <4>2, <4>3
    <3> QED
      BY <3>1, <3>2
  <2> QED
    BY <2>1, <2>2
<1> QED
  BY <1>1, <1>2, <1>7, <1>10, CapAssumption

\* What the view has learned or forgotten are sets of MACs.
LEMMA LearnType ==
    ASSUME NEW m \in Macs, Learn(m) \/ Forget(m),
           {sess, data, active} \subseteq Maybe(SUBSET Macs)
    PROVE  {sess', data', active'} \subseteq Maybe(SUBSET Macs)
<1>1. ASSUME NEW x \in Maybe(SUBSET Macs)
      PROVE  /\ {(UNION x) \union {m}} \in Maybe(SUBSET Macs)
             /\ {S \ {m} : S \in x} \in Maybe(SUBSET Macs)
  <2>1. CASE x = {}
    <3>1. {(UNION x) \union {m}} \in Maybe(SUBSET Macs)
      <4>1. (UNION x) \union {m} \in SUBSET Macs
        BY <2>1
      <4> QED
        BY <4>1, MaybeMembers
    <3>2. {S \ {m} : S \in x} \in Maybe(SUBSET Macs)
      <4>1. {S \ {m} : S \in x} = {}
        BY <2>1
      <4>2. {} \in Maybe(SUBSET Macs)
        BY MaybeMembers
      <4> QED
        BY <4>1, <4>2
    <3> QED
      BY <3>1, <3>2
  <2>2. ASSUME NEW X \in SUBSET Macs, x = {X}
        PROVE  /\ {(UNION x) \union {m}} \in Maybe(SUBSET Macs)
               /\ {S \ {m} : S \in x} \in Maybe(SUBSET Macs)
    <3>1. {(UNION x) \union {m}} \in Maybe(SUBSET Macs)
      <4>1. (UNION x) \union {m} \in SUBSET Macs
        BY <2>2
      <4> QED
        BY <4>1, MaybeMembers
    <3>2. {S \ {m} : S \in x} \in Maybe(SUBSET Macs)
      <4>1. {S \ {m} : S \in x} = {X \ {m}} /\ X \ {m} \in SUBSET Macs
        BY <2>2
      <4>2. {X \ {m}} \in Maybe(SUBSET Macs)
        BY <4>1, MaybeMembers
      <4> QED
        BY <4>1, <4>2
    <3> QED
      BY <3>1, <3>2
  <2> QED
    BY <2>1, <2>2, MaybeMembers
<1>2. CASE Learn(m)
  <2>1. /\ {(UNION sess) \union {m}} \in Maybe(SUBSET Macs)
        /\ {(UNION data) \union {m}} \in Maybe(SUBSET Macs)
        /\ {(UNION active) \union {m}} \in Maybe(SUBSET Macs)
    BY <1>1
  <2> QED
    BY <1>2, <2>1 DEF Learn
<1>3. CASE Forget(m)
  <2>1. /\ {S \ {m} : S \in sess} \in Maybe(SUBSET Macs)
        /\ {S \ {m} : S \in data} \in Maybe(SUBSET Macs)
        /\ {S \ {m} : S \in active} \in Maybe(SUBSET Macs)
    BY <1>1
  <2> QED
    BY <1>3, <2>1 DEF Forget
<1> QED
  BY <1>2, <1>3

\* A session event draws the rows, or the pause button counts it.
LEMMA SessionEventKeeps == IInv /\ SessionEvent => IInv'
<1> SUFFICES ASSUME IInv, SessionEvent PROVE IInv'
  OBVIOUS
<1> DEFINE e == Head(queue)
<1>1. /\ Delivered /\ e \in SessionEvents /\ queue' = Tail(queue)
      /\ IF e.type = "upsert" THEN Learn(e.mac) ELSE Forget(e.mac)
      /\ Redraw
      /\ UNCHANGED <<live, snap, conn, told, paused, pendingE, reload, errTimer, restart,
                     calls, cache, enabled, filterOn, viewActive, acts>>
  BY DEF SessionEvent, Streaming, timers, backend
<1>2. e.mac \in Macs
  BY <1>1 DEF SessionEvents
<1>3. {sess', data', active'} \subseteq Maybe(SUBSET Macs)
  BY <1>1, <1>2, LearnType DEF IInv, TypeOK
<1>4. conn = "open"
  BY <1>1 DEF Delivered
<1>5. /\ queue' \in Seq(Events) /\ Len(queue') <= QueueCap
      /\ QueueOK' /\ BaseOK'
  BY <1>1, DeliveredKeeps
<1>6. /\ painted' \in Maybe(SUBSET Macs) /\ pendingS' \in BOOLEAN
      /\ painted' = Sources(active', live', sess') \/ (paused' /\ pendingS')
  <2>1. {} \in Maybe(SUBSET Macs)
    BY MaybeMembers
  <2> QED
    BY <1>1, <1>3, <2>1 DEF Redraw, applyAuthStatusColors, IInv, TypeOK, Sources
<1>7. TypeOK'
  BY <1>1, <1>3, <1>5, <1>6 DEF IInv, TypeOK
<1> QED
  BY <1>1, <1>4, <1>5, <1>6, <1>7
  DEF IInv, ShapeOK, PaintFollows, SilentAfterLeave, Subscribed

\* An event about an endpoint leaves the sessions as they are.
LEMMA EndpointEventKeeps == IInv /\ EndpointEvent => IInv'
<1> SUFFICES ASSUME IInv, EndpointEvent PROVE IInv'
  OBVIOUS
<1>1. /\ Delivered /\ Head(queue).type = "changed" /\ queue' = Tail(queue)
      /\ reload' \in {TRUE, reload} /\ pendingE' \in {TRUE, pendingE}
      /\ UNCHANGED <<snap, conn, told, sess, data, active, live, painted, paused, pendingS,
                     errTimer, restart, calls, cache, enabled, filterOn, viewActive, acts>>
  BY DEF EndpointEvent, Streaming, known, timers, backend
<1>2. Head(queue) \notin SessionEvents /\ conn = "open"
  BY <1>1 DEF SessionEvents, Delivered
<1>3. /\ queue' \in Seq(Events) /\ Len(queue') <= QueueCap
      /\ QueueOK' /\ BaseOK'
  BY <1>1, <1>2, DeliveredKeeps
<1>4. TypeOK'
  BY <1>1, <1>3 DEF IInv, TypeOK
<1> QED
  BY <1>1, <1>2, <1>3, <1>4
  DEF IInv, ShapeOK, PaintFollows, SilentAfterLeave, Subscribed, Sources

\* The stream ends, or the view is left: nothing of it remains.
LEMMA StopKeeps ==
    ASSUME IInv, stopPxGridStream, UNCHANGED <<cache, enabled, filterOn, acts, painted, reload>>,
           restart' \in BOOLEAN, viewActive' \in BOOLEAN, calls' \in SUBSET Calls,
           active' = {}
    PROVE  IInv'
<1>1. /\ conn' = "closed" /\ queue' = <<>> /\ snap' = {} /\ told' = {}
      /\ live' = FALSE /\ sess' = {} /\ data' = {} /\ errTimer' = FALSE
      /\ paused' = FALSE /\ pendingS' = FALSE /\ pendingE' = FALSE
  BY DEF stopPxGridStream
<1>2. <<>> \in Seq(Events) /\ Len(<<>>) <= QueueCap
  BY EmptySeq, CapAssumption
<1>3. {} \in Maybe(SUBSET Macs)
  BY MaybeMembers
<1>4. TypeOK'
  BY <1>1, <1>2, <1>3 DEF IInv, TypeOK
<1> QED
  BY <1>1, <1>4, UnsubscribedKeeps DEF IInv, SilentAfterLeave

\* pxGrid is switched off, or the user goes to another view.
LEMMA EndKeeps == IInv /\ (WorkerStopped \/ Refused \/ cleanup) => IInv'
<1> SUFFICES ASSUME IInv, WorkerStopped \/ Refused \/ cleanup PROVE IInv'
  OBVIOUS
<1>1. ASSUME NEW again \in BOOLEAN, Disabled(again) PROVE IInv'
  <2>1. calls' \in SUBSET Calls
    BY <1>1, CallTypes DEF Disabled, IInv, TypeOK
  <2>2. viewActive \in BOOLEAN
    BY DEF IInv, TypeOK
  <2>3. /\ stopPxGridStream /\ restart' \in BOOLEAN /\ active' = {}
        /\ UNCHANGED <<cache, enabled, filterOn, acts, painted, reload, viewActive>>
    BY <1>1 DEF Disabled, Streaming, backend
  <2> QED
    BY <2>1, <2>2, <2>3, StopKeeps
<1>2. CASE cleanup
  BY <1>2, StopKeeps DEF cleanup, backend, IInv, TypeOK
<1> QED
  BY <1>1, <1>2 DEF WorkerStopped, Refused

\* A stream is begun anew only for a view that is there.
LEMMA RestartKeeps == IInv /\ Restart => IInv'
<1> SUFFICES ASSUME IInv, Restart PROVE IInv'
  OBVIOUS
<1>1. /\ restart' = FALSE
      /\ conn' = IF viewActive /\ conn = "closed" THEN "connecting" ELSE conn
      /\ UNCHANGED <<queue, snap, told, sess, data, active, live, painted, paused, pendingS,
                     pendingE, reload, errTimer, calls, cache, enabled, filterOn,
                     viewActive, acts>>
  BY DEF Restart, Streaming, known, pause, backend
<1>2. TypeOK'
  BY <1>1 DEF IInv, TypeOK
<1> QED
  BY <1>1, <1>2 DEF IInv, ShapeOK, QueueOK, BaseOK, Base, PaintFollows,
                    SilentAfterLeave, Subscribed, Sources

\* A connection that fails takes with it what was on its way.
LEMMA FailureKeeps == IInv /\ (Lost \/ Rejected) => IInv'
<1> SUFFICES ASSUME IInv, Lost \/ Rejected PROVE IInv'
  OBVIOUS
<1>1. /\ conn' \in {"connecting", "dead"} /\ queue' = <<>> /\ snap' = {} /\ told' = {}
      /\ errTimer' = TRUE /\ acts' = acts + 1 /\ conn # "closed"
      /\ UNCHANGED <<sess, data, active, live, painted, paused, pendingS, pendingE, reload,
                     restart, calls, cache, enabled, filterOn, viewActive>>
  BY DEF Lost, Rejected, onerror, Fault, Subscribed, known, pause, backend
<1>2. <<>> \in Seq(Events) /\ Len(<<>>) <= QueueCap
  BY EmptySeq, CapAssumption
<1>3. {} \in Maybe(SUBSET Macs)
  BY MaybeMembers
<1>4. TypeOK'
  BY <1>1, <1>2, <1>3 DEF IInv, TypeOK
<1> QED
  BY <1>1, <1>4, UnsubscribedKeeps DEF IInv, SilentAfterLeave

\* The error timer finds no stream: it is cleared when the stream is accepted.
LEMMA ErrorTimerKeeps == IInv /\ ErrorTimer => IInv'
<1> SUFFICES ASSUME IInv, ErrorTimer PROVE IInv'
  OBVIOUS
<1>1. /\ errTimer /\ errTimer' = FALSE /\ live' = FALSE
      /\ UNCHANGED <<queue, snap, conn, told, sess, data, active, painted, paused, pendingS,
                     pendingE, reload, restart, calls, cache, enabled, filterOn,
                     viewActive, acts>>
  BY DEF ErrorTimer, Streaming, stream, pause, backend
<1>2. ~Subscribed
  BY <1>1 DEF IInv, ShapeOK
<1>3. TypeOK'
  BY <1>1 DEF IInv, TypeOK
<1> QED
  BY <1>1, <1>2, <1>3 DEF IInv, ShapeOK, QueueOK, BaseOK, Base, PaintFollows,
                          SilentAfterLeave, Subscribed

-----------------------------------------------------------------------------
(* Lookups, timers and clicks *)

\* What leaves the stream, its queue and its sessions alone keeps their truth;
\* details may be added.
LEMMA StillKeeps ==
    ASSUME IInv, UNCHANGED <<cache, queue, conn, snap, told, sess, live, errTimer>>,
           \A m : m \in UNION data => m \in UNION data'
    PROVE  ShapeOK' /\ QueueOK' /\ BaseOK'
<1>1. ShapeOK'
  BY DEF IInv, ShapeOK, Subscribed
<1>2. QueueOK'
  BY DEF IInv, QueueOK, Subscribed
<1>3. BaseOK'
  BY DEF IInv, BaseOK, Base
<1> QED
  BY <1>1, <1>2, <1>3

\* The lookup of active sessions ends at once or with a request to MnT.
LEMMA RefreshType ==
    ASSUME NEW force, NEW others \in SUBSET Calls, NEW filtered,
           sess \in Maybe(SUBSET Macs), active \in Maybe(SUBSET Macs),
           refreshActiveSessionMacs(force, others, filtered)
    PROVE  calls' \in SUBSET Calls /\ active' \in Maybe(SUBSET Macs)
<1>1. {} \in Maybe(SUBSET Macs) /\ [op |-> "mnt"] \in Calls
  BY CallTypes, MaybeMembers
<1>2. CASE ~force /\ live /\ sess # {}
  BY <1>2 DEF refreshActiveSessionMacs
<1>3. CASE ~(~force /\ live /\ sess # {})
  BY <1>1, <1>3 DEF refreshActiveSessionMacs
<1> QED
  BY <1>2, <1>3

\* A drawing has the colours of a set of sessions, or none.
LEMMA PaintType ==
    ASSUME {sess', active'} \subseteq Maybe(SUBSET Macs), applyAuthStatusColors
    PROVE  painted' \in Maybe(SUBSET Macs)
BY MaybeMembers DEF applyAuthStatusColors, Sources

\* An answer with rows, from a page or from the full list, draws them all.
LEMMA ListKeeps == IInv /\ (RowsAnswered \/ FilterAnswered) => IInv'
<1> SUFFICES ASSUME IInv, RowsAnswered \/ FilterAnswered PROVE IInv'
  OBVIOUS
<1>1. /\ \E others \in SUBSET calls :
            \E force : refreshActiveSessionMacs(force, others, filterOn)
      /\ applyAuthStatusColors
      /\ UNCHANGED <<sess, data, live, cache, enabled, queue, snap, conn, told, paused,
                     pendingS, pendingE, reload, errTimer, restart, filterOn, viewActive,
                     acts>>
  BY DEF RowsAnswered, FilterAnswered, Answered, backend, stream, pause, timers
<1>2. calls \in SUBSET Calls /\ {sess, active} \subseteq Maybe(SUBSET Macs)
  BY DEF IInv, TypeOK
<1>3. calls' \in SUBSET Calls /\ active' \in Maybe(SUBSET Macs)
  BY <1>1, <1>2, RefreshType
<1>4. painted' \in Maybe(SUBSET Macs)
  BY <1>1, <1>2, <1>3, PaintType
<1>5. TypeOK'
  BY <1>1, <1>3, <1>4 DEF IInv, TypeOK
<1>6. ShapeOK' /\ QueueOK' /\ BaseOK'
  BY <1>1, StillKeeps
<1> QED
  BY <1>1, <1>5, <1>6 DEF IInv, PaintFollows, applyAuthStatusColors, SilentAfterLeave

\* What MnT finds takes the place of what the stream has told, of which nothing
\* but the queued events still counts.
LEMMA MntKeeps ==
    ASSUME IInv, NEW got \in Maybe(SUBSET Macs), MntAnswered(got)
    PROVE  IInv'
<1>1. /\ calls' \subseteq calls /\ active' = got
      /\ sess' = IF live /\ got # {} THEN got ELSE sess
      /\ told' = IF got # {} /\ snap = {} THEN told \intersect Of(queue) ELSE told
      /\ painted' = Sources(active', live', sess')
      /\ applyAuthStatusColors
      /\ UNCHANGED <<data, live, cache, enabled, queue, snap, conn, paused, pendingS,
                     pendingE, reload, errTimer, restart, filterOn, viewActive, acts>>
  BY DEF MntAnswered, applyAuthStatusColors, backend, pause, timers
<1>2. {sess', active'} \subseteq Maybe(SUBSET Macs)
  BY <1>1 DEF IInv, TypeOK
<1>3. painted' \in Maybe(SUBSET Macs)
  BY <1>1, <1>2, PaintType
<1>4. TypeOK'
  BY <1>1, <1>2, <1>3 DEF IInv, TypeOK
<1>5. QueueOK'
  BY <1>1 DEF IInv, QueueOK, Subscribed
<1>6. BaseOK'
  <2>1. CASE snap # {}
    BY <1>1, <2>1 DEF IInv, BaseOK, Base
  <2>2. CASE snap = {} /\ got = {}
    BY <1>1, <2>2 DEF IInv, BaseOK, Base
  <2>3. CASE snap = {} /\ got # {}
    <3>1. told' \ Of(queue') = {}
      BY <1>1, <2>3
    <3> QED
      BY <3>1 DEF BaseOK
  <2> QED
    BY <2>1, <2>2, <2>3
<1>7. SilentAfterLeave'
  BY <1>1 DEF IInv, SilentAfterLeave
<1> QED
  BY <1>1, <1>4, <1>5, <1>6, <1>7 DEF IInv, ShapeOK, PaintFollows, Subscribed

\* The details of all sessions are asked for, read and added.
LEMMA DetailsKeep == IInv /\ (SessionTimer \/ SessionsServed \/ SessionsAnswered) => IInv'
<1> SUFFICES ASSUME IInv, SessionTimer \/ SessionsServed \/ SessionsAnswered PROVE IInv'
  OBVIOUS
<1>1. calls \in SUBSET Calls /\ cache \in SUBSET Macs /\ acts \in Nat
  BY DEF IInv, TypeOK
<1>2. ASSUME NEW c \in Calls, c.op = "sessions"
      PROVE  /\ c.got \in Maybe(SUBSET Macs)
             /\ \A g \in Maybe(SUBSET Macs) : [c EXCEPT !.got = g] \in Calls
  <2>1. c \in [op : {"sessions"}, got : Maybe(SUBSET Macs)]
    BY <1>2 DEF Calls
  <2>2. \A g \in Maybe(SUBSET Macs) :
           [c EXCEPT !.got = g] \in [op : {"sessions"}, got : Maybe(SUBSET Macs)]
    BY <2>1
  <2> QED
    BY <2>1, <2>2 DEF Calls
<1>3. CASE SessionTimer
  <2>1. /\ acts' = acts + 1
        /\ calls' = calls \union {[op |-> "sessions", got |-> {}]}
        /\ UNCHANGED <<cache, enabled, queue, snap, conn, told, sess, data, active, live,
                       painted, paused, pendingS, pendingE, reload, errTimer, restart,
                       filterOn, viewActive>>
    BY <1>3 DEF SessionTimer, Fault, backend, stream, known, pause, timers
  <2>2. calls' \in SUBSET Calls
    BY <1>1, <2>1, CallTypes, MaybeMembers
  <2>3. TypeOK'
    BY <1>1, <2>1, <2>2 DEF IInv, TypeOK
  <2>4. ShapeOK' /\ QueueOK' /\ BaseOK'
    BY <2>1, StillKeeps
  <2> QED
    BY <2>1, <2>3, <2>4 DEF IInv, PaintFollows, Sources, SilentAfterLeave
<1>4. CASE SessionsServed
  <2>1. PICK c \in calls :
          /\ c.op = "sessions"
          /\ calls' = (calls \ {c}) \union {[c EXCEPT !.got = {cache}]}
    BY <1>4 DEF SessionsServed
  <2>2. UNCHANGED <<cache, enabled, queue, snap, conn, told, sess, data, active, live,
                    painted, paused, pendingS, pendingE, reload, errTimer, restart,
                    filterOn, viewActive, acts>>
    BY <1>4 DEF SessionsServed, Answered, backend, stream, known, pause, timers
  <2>3. {cache} \in Maybe(SUBSET Macs)
    BY <1>1, MaybeMembers
  <2>4. c \in Calls /\ [c EXCEPT !.got = {cache}] \in Calls
    BY <1>1, <1>2, <2>1, <2>3
  <2>5. TypeOK'
    BY <1>1, <2>1, <2>2, <2>4 DEF IInv, TypeOK
  <2>6. ShapeOK' /\ QueueOK' /\ BaseOK'
    BY <2>2, StillKeeps
  <2>7. PaintFollows'
    BY <2>1, <2>2 DEF IInv, PaintFollows, Sources
  <2> QED
    BY <2>2, <2>5, <2>6, <2>7 DEF IInv, SilentAfterLeave
<1>5. CASE SessionsAnswered
  <2>1. PICK c \in calls :
          /\ c.op = "sessions" /\ calls' = calls \ {c}
          /\ data' = IF c.got = {{}} THEN data ELSE {(UNION data) \union (UNION c.got)}
          /\ painted' = painted \/ applyAuthStatusColors
    BY <1>5 DEF SessionsAnswered
  <2>2. UNCHANGED <<cache, enabled, queue, snap, conn, told, sess, active, live, paused,
                    pendingS, pendingE, reload, errTimer, restart, filterOn, viewActive,
                    acts>>
    BY <1>5 DEF SessionsAnswered, Answered, backend, stream, pause, timers
  <2>3. data' \in Maybe(SUBSET Macs)
    <3>1. UNION data \in SUBSET Macs
      BY MaybeMembers DEF IInv, TypeOK
    <3>2. UNION c.got \in SUBSET Macs
      BY <1>1, <1>2, <2>1, MaybeMembers
    <3>3. (UNION data) \union (UNION c.got) \in SUBSET Macs
      BY <3>1, <3>2
    <3>4. {(UNION data) \union (UNION c.got)} \in Maybe(SUBSET Macs)
      BY <3>3, MaybeMembers
    <3> QED
      BY <2>1, <3>4 DEF IInv, TypeOK
  <2>4. \A m : m \in UNION data => m \in UNION data'
    <3>1. CASE c.got = {{}}
      BY <2>1, <3>1
    <3>2. CASE c.got # {{}}
      <4>1. UNION data' = (UNION data) \union (UNION c.got)
        BY <2>1, <3>2
      <4> QED
        BY <4>1
    <3> QED
      BY <3>1, <3>2
  <2>5. painted' \in Maybe(SUBSET Macs)
    BY <2>1, <2>2, PaintType DEF IInv, TypeOK
  <2>6. TypeOK'
    BY <1>1, <2>1, <2>2, <2>3, <2>5 DEF IInv, TypeOK
  <2>7. ShapeOK' /\ QueueOK' /\ BaseOK'
    BY <2>2, <2>4, StillKeeps
  <2>8. PaintFollows'
    BY <2>1, <2>2 DEF IInv, PaintFollows, Sources, applyAuthStatusColors
  <2> QED
    BY <2>2, <2>6, <2>7, <2>8 DEF IInv, SilentAfterLeave
<1> QED
  BY <1>3, <1>4, <1>5

\* The timer of an endpoint event asks for the rows again.
LEMMA ReloadKeeps ==
    ASSUME IInv, NEW dirty \in BOOLEAN, ReloadTimer(dirty)
    PROVE  IInv'
<1>1. /\ reload' = FALSE
      /\ calls' \in {calls, calls \union {[op |-> "rows", force |-> FALSE]}}
      /\ UNCHANGED <<cache, enabled, queue, snap, conn, told, sess, data, active, live,
                     painted, paused, pendingS, pendingE, errTimer, restart, filterOn,
                     viewActive, acts>>
  BY DEF ReloadTimer, Ask, Streaming, backend, stream, known, timers
<1>2. calls' \in SUBSET Calls
  <2>1. [op |-> "rows", force |-> FALSE] \in Calls
    BY CallTypes
  <2> QED
    BY <1>1, <2>1 DEF IInv, TypeOK
<1>3. TypeOK'
  BY <1>1, <1>2 DEF IInv, TypeOK
<1>4. ShapeOK' /\ QueueOK' /\ BaseOK'
  BY <1>1, StillKeeps
<1> QED
  BY <1>1, <1>3, <1>4 DEF IInv, PaintFollows, Sources, SilentAfterLeave

\* Resuming draws what the pause has held back; a filter is set or cleared.
LEMMA ClickKeeps == IInv /\ (PauseOrResume \/ SetFilter \/ ClearFilter) => IInv'
<1> SUFFICES ASSUME IInv, PauseOrResume \/ SetFilter \/ ClearFilter PROVE IInv'
  OBVIOUS
<1>1. /\ acts' = acts + 1 /\ acts \in Nat /\ viewActive
      /\ UNCHANGED <<cache, enabled, queue, snap, conn, told, errTimer, restart, sess, data,
                     live, viewActive>>
  BY DEF PauseOrResume, SetFilter, ClearFilter, Click, Fault, Clicked, backend, stream,
         timers, known, IInv, TypeOK
<1>2. CASE PauseOrResume
  <2>1. /\ paused' = ~paused /\ pendingS' = (pendingS /\ ~paused)
        /\ pendingE' = (pendingE /\ ~paused) /\ reload' = (reload \/ (paused /\ pendingE))
        /\ IF paused /\ pendingS THEN applyAuthStatusColors ELSE painted' = painted
        /\ UNCHANGED <<active, filterOn, calls>>
    BY <1>2 DEF PauseOrResume, known
  <2>2. painted' \in Maybe(SUBSET Macs)
    BY <1>1, <2>1, PaintType DEF IInv, TypeOK
  <2>3. /\ paused' \in BOOLEAN /\ pendingS' \in BOOLEAN /\ pendingE' \in BOOLEAN
        /\ reload' \in BOOLEAN
    BY <2>1
  <2>4. TypeOK'
    BY <1>1, <2>1, <2>2, <2>3 DEF IInv, TypeOK
  <2>5. ShapeOK' /\ QueueOK' /\ BaseOK'
    BY <1>1, StillKeeps
  <2>6. PaintFollows'
    <3> SUFFICES ASSUME conn = "open", snap = {}, \A c \in calls : c.op # "rows"
                 PROVE  painted' = Sources(active, live, sess) \/ (paused' /\ pendingS')
      BY <1>1, <2>1 DEF PaintFollows, Sources
    <3>1. painted = Sources(active, live, sess) \/ (paused /\ pendingS)
      BY DEF IInv, PaintFollows
    <3>2. applyAuthStatusColors => painted' = Sources(active, live, sess)
      BY <1>1, <2>1 DEF applyAuthStatusColors
    <3> QED
      BY <2>1, <3>1, <3>2
  <2> QED
    BY <1>1, <2>4, <2>5, <2>6 DEF IInv, SilentAfterLeave
<1>3. CASE SetFilter
  <2>1. /\ filterOn' = TRUE /\ calls' = calls \union {[op |-> "filter"]}
        /\ UNCHANGED <<active, painted, paused, pendingS, pendingE, reload>>
    BY <1>3 DEF SetFilter, known, pause
  <2>2. calls' \in SUBSET Calls
    BY <2>1, CallTypes DEF IInv, TypeOK
  <2>3. TypeOK'
    BY <1>1, <2>1, <2>2 DEF IInv, TypeOK
  <2>4. ShapeOK' /\ QueueOK' /\ BaseOK'
    BY <1>1, StillKeeps
  <2> QED
    BY <1>1, <2>1, <2>3, <2>4 DEF IInv, PaintFollows, Sources, SilentAfterLeave
<1>4. CASE ClearFilter
  <2>1. /\ filterOn' = FALSE /\ active' = {}
        /\ calls' = calls \union {[op |-> "rows", force |-> FALSE]}
        /\ UNCHANGED <<painted, paused, pendingS, pendingE, reload>>
    BY <1>4 DEF ClearFilter, pause
  <2>2. calls' \in SUBSET Calls /\ {} \in Maybe(SUBSET Macs)
    <3>1. [op |-> "rows", force |-> FALSE] \in Calls
      BY CallTypes
    <3> QED
      BY <2>1, <3>1, MaybeMembers DEF IInv, TypeOK
  <2>3. {snap', sess', data', active', painted'} \subseteq Maybe(SUBSET Macs)
    BY <1>1, <2>1, <2>2 DEF IInv, TypeOK
  <2>4. TypeOK'
    <3>1. /\ cache' \in SUBSET Macs /\ enabled' \in BOOLEAN
          /\ queue' \in Seq(Events) /\ Len(queue') <= QueueCap
          /\ conn' \in {"closed", "connecting", "accepted", "open", "dead"}
          /\ told' \in SUBSET Macs
      BY <1>1 DEF IInv, TypeOK
    <3>2. {live', paused', pendingS', pendingE', reload', errTimer', restart', filterOn',
           viewActive'} \subseteq BOOLEAN
      BY <1>1, <2>1 DEF IInv, TypeOK
    <3> QED
      BY <1>1, <2>2, <2>3, <3>1, <3>2 DEF TypeOK
  <2>5. ShapeOK' /\ QueueOK' /\ BaseOK'
    BY <1>1, StillKeeps
  <2>6. PaintFollows'
    <3>1. [op |-> "rows", force |-> FALSE] \in calls'
      BY <2>1
    <3> QED
      BY <3>1 DEF PaintFollows
  <2>7. SilentAfterLeave'
    BY <1>1 DEF SilentAfterLeave
  <2> QED
    BY <2>4, <2>5, <2>6, <2>7 DEF IInv
<1> QED
  BY <1>2, <1>3, <1>4

-----------------------------------------------------------------------------
(* The theorems *)

\* Each step keeps the invariant.
LEMMA StepKeeps == IInv /\ [Next]_vars => IInv'
<1> SUFFICES ASSUME IInv, [Next]_vars PROVE IInv'
  OBVIOUS
<1>1. CASE UNCHANGED vars
  <2>1. UNCHANGED <<cache, enabled, queue, snap, conn, sess, data, active, live, painted, paused,
                    pendingS, pendingE, reload, errTimer, restart, filterOn, viewActive, calls,
                    acts, told>>
    BY <1>1 DEF vars, backend, stream, known, pause, timers
  <2>2. TypeOK'
    BY <2>1 DEF IInv, TypeOK
  <2>3. ShapeOK' /\ QueueOK' /\ BaseOK'
    BY <2>1, StillKeeps
  <2> QED
    BY <2>1, <2>2, <2>3 DEF IInv, PaintFollows, Sources, SilentAfterLeave
<1>2. CASE Next
  <2>1. ASSUME \/ \E m \in Macs : Upsert(m) \/ Remove(m) \/ Expire(m)
               \/ EndpointChanged
               \/ \E on \in BOOLEAN : SetEnabled(on)
        PROVE  IInv'
    BY <2>1, BackendKeeps
  <2>2. ASSUME \E got \in Maybe(SUBSET Macs) : MntAnswered(got) PROVE IInv'
    BY <2>2, MntKeeps
  <2>3. ASSUME \E dirty \in BOOLEAN : ReloadTimer(dirty) PROVE IInv'
    BY <2>3, ReloadKeeps
  <2> QED
    BY <1>2, <2>1, <2>2, <2>3, AcceptKeeps, SnapshotKeeps, SessionEventKeeps,
       EndpointEventKeeps, EndKeeps, RestartKeeps, FailureKeeps, ErrorTimerKeeps,
       ListKeeps, DetailsKeep, ClickKeeps DEF Next
<1> QED
  BY <1>1, <1>2

\* IInv holds in every reachable state.
LEMMA AlwaysIInv == Spec => []IInv
BY InitInv, StepKeeps, PTL DEF Spec

\* The variables keep their types, and no subscriber's queue outgrows its limit
\* (session_cache.py: _broadcast makes room before it puts).
THEOREM TypesHold == Spec => []TypeOK
<1>1. IInv => TypeOK
  BY DEF IInv
<1> QED
  BY <1>1, AlwaysIInv, PTL

\* An open stream keeps the view exact about every session it has told of:
\* subscribing before listing, and dropping the oldest event of a full queue,
\* is enough, whatever MnT answers and the network does meanwhile.
THEOREM StreamIsExact == Spec => []StreamExact
<1>1. IInv => StreamExact
  BY StreamExactByPlace DEF IInv
<1> QED
  BY <1>1, AlwaysIInv, PTL

\* The colours of the rows are those of the sessions the view knows, or the
\* pause button counts that they are not.
THEOREM PaintIsCurrent == Spec => []PaintFollows
<1>1. IInv => PaintFollows
  BY DEF IInv
<1> QED
  BY <1>1, AlwaysIInv, PTL

\* A view that has been left has no stream, no error timer and no sessions of
\* a stream, whatever timers and answers were still to come.
THEOREM LeftIsSilent == Spec => []SilentAfterLeave
<1>1. IInv => SilentAfterLeave
  BY DEF IInv
<1> QED
  BY <1>1, AlwaysIInv, PTL
=============================================================================
