---------------------------- MODULE EndpointSync ----------------------------
(***************************************************************************)
(* The endpoint cache at work: reads through EndpointCache.get_detail,     *)
(* writes through EndpointService, and the background refreshes of the     *)
(* drip loop and of the sync worker, all interleaved on one event loop.    *)
(*                                                                         *)
(* Reads of one endpoint share one fetch task (_inflight_detail).  The     *)
(* background workers fetch past it (_fetch_endpoint_detail, put_detail),  *)
(* so two fetches of one endpoint may be out at once.                      *)
(*                                                                         *)
(* The value of an endpoint is its version: 0 at first, one higher with    *)
(* every change in ISE, and Gone once it is deleted there.                 *)
(*                                                                         *)
(* External: ISE, the network between, the clock.  A fetch is out between  *)
(* two steps of its own: Answer*, when ISE reads the endpoint (or fails),  *)
(* and Deliver*, when the answer reaches the portal.                       *)
(***************************************************************************)
EXTENDS EndpointCache

CONSTANTS MaxVersion, \* bound on the changes of one endpoint
          Users,      \* concurrent requests
          Jobs,       \* the requests they may make
          Workers,    \* the background workers that run
          DripBatch,  \* batch_size of the drip loop
          HalfTTL,    \* cache_ttl_seconds / 2, the sync worker's threshold
          Events      \* the invalidations that come from elsewhere

ASSUME SyncAssumption ==
    /\ MaxVersion \in Nat
    /\ Values = 0..MaxVersion
    /\ Jobs \subseteq {"view", "edit", "update", "status", "delete"}
    /\ Workers \subseteq {"drip", "sync"}
    /\ DripBatch \in Nat \ {0}
    /\ HalfTTL \in Nat
    /\ Events \subseteq {"endpoint", "flush"}

VARIABLES ise,       \* external: the version of each endpoint in ISE
          network,   \* external: whether ISE answers
          cache,
          inflight,  \* _inflight_detail
          direct,    \* the fetches of the background workers
          user,
          written,   \* ghost: the last portal write of each endpoint
          overtaken  \* ghost: whether an older answer was out at that write

vars == <<ise, network, cache, inflight, direct, user, written, overtaken>>

Gone == MaxVersion + 1  \* what ISE answers of a deleted endpoint: a 404
Lost == MaxVersion + 2  \* no answer: a transport error, or the breaker

Fetch == [pc : {"none", "asked", "answered"}, val : 0..Lost]
NoFetch == [pc |-> "none", val |-> 0]
Asked == [pc |-> "asked", val |-> 0]

Cached == DOMAIN cache.details

(***************************************************************************)
(* A request.  A view or an edit is get_endpoint; update, status and       *)
(* delete read the endpoint (the before-snapshot), write it in ISE and     *)
(* invalidate it.  An update then turns into its audit task, which reads   *)
(* the endpoint once more.  update stands for update_endpoint, status for  *)
(* set_active_status and its like (undecommission_endpoint,                *)
(* bulk_apply_template), which have no such task.                          *)
(*                                                                         *)
(* val and badge are what get_endpoint returned (version and cache_stale), *)
(* and how says where it came from; in a write, val is the version         *)
(* written.                                                                *)
(***************************************************************************)
Request == [pc : {"idle", "wait", "wake", "put", "applied", "audit"},
            job : {"none", "view", "edit", "update", "status", "delete",
                   "audit"},
            id : Ids \cup {"none"},
            how : {"none", "hit", "disk", "stale", "fetched", "fallback",
                   "error"},
            val : 0..Lost,
            badge : BOOLEAN]

NoRequest == [pc |-> "idle", job |-> "none", id |-> "none", how |-> "none",
              val |-> 0, badge |-> FALSE]

TypeOK ==
    /\ ise \in [Ids -> 0..Gone]
    /\ network \in {"up", "down", "settled"}
    /\ Cached \subseteq Ids
    /\ \A i \in Cached : cache.details[i] \in Entry
    /\ inflight \in [Ids -> Fetch]
    /\ direct \in [Workers -> [Ids -> Fetch]]
    /\ user \in [Users -> Request]
    /\ \A u \in Users : user[u].pc # "idle" => user[u].id \in Ids
    /\ written \in [Ids -> 0..Gone]
    /\ overtaken \in [Ids -> BOOLEAN]

Init ==
    /\ ise = [i \in Ids |-> 0]
    /\ network \in {"up", "down"}
    /\ Loaded(cache, 0)
    /\ inflight = [i \in Ids |-> NoFetch]
    /\ direct = [w \in Workers |-> [i \in Ids |-> NoFetch]]
    /\ user = [u \in Users |-> NoRequest]
    /\ written = [i \in Ids |-> 0]
    /\ overtaken = [i \in Ids |-> FALSE]

-----------------------------------------------------------------------------
\* _get_or_create_inflight: join the fetch that is out, or start one.
Spawn(i) ==
    inflight' = IF inflight[i].pc = "none" THEN [inflight EXCEPT ![i] = Asked]
                ELSE inflight

\* get_endpoint returns val to its caller, of whom a reader keeps it; the entry
\* of i, as it is now, decides about the badge.  A write goes on to its PUT
\* whatever the snapshot was, and an audit task ends.
Return(u, i, job, how, val) ==
    user' = [user EXCEPT ![u] =
                CASE job \in {"view", "edit"} ->
                        [NoRequest EXCEPT
                            !.job = job, !.id = i, !.how = how, !.val = val,
                            !.badge = how # "error" /\ i \in Cached
                                          /\ cache.details[i].from_disk]
                  [] job \in {"update", "status", "delete"} ->
                        [NoRequest EXCEPT !.pc = "put", !.job = job, !.id = i]
                  [] job = "audit" -> NoRequest]

\* get_endpoint up to its first await, or to its end.
Read(u, i, job) ==
    LET e == cache.details[i]
        usable == i \in Cached /\ job # "edit"
        Serve(how) == Return(u, i, job, how, e.value)
    IN  \/ /\ usable /\ Fresh(e)
           /\ Serve("hit")
           /\ UNCHANGED inflight
        \/ /\ usable /\ e.from_disk
           /\ Serve("disk")
           /\ Spawn(i)
        \/ /\ usable /\ StaleServable(e)
           /\ Serve("stale")
           /\ Spawn(i)
        \/ /\ usable => ~(Fresh(e) \/ e.from_disk \/ StaleServable(e))
           /\ user' = [user EXCEPT ![u] = [NoRequest EXCEPT
                           !.pc = "wait", !.job = job, !.id = i]]
           /\ Spawn(i)

\* A request comes in.
Begin(u, i, job) ==
    /\ user[u].pc = "idle"
    /\ Read(u, i, job)
    /\ UNCHANGED <<ise, network, cache, direct, written, overtaken>>

\* The task update_endpoint left behind, _audit_after, runs.
AuditAfter(u) ==
    /\ user[u].pc = "audit"
    /\ Read(u, user[u].id, "audit")
    /\ UNCHANGED <<ise, network, cache, direct, written, overtaken>>

\* Mutant of Wake: an error is answered by another try.
WakeRetry(u) ==
    LET r == user[u]
    IN  /\ r.pc = "wake"
        /\ IF r.val \in Values
           THEN /\ Return(u, r.id, r.job, "fetched", r.val)
                /\ UNCHANGED inflight
           ELSE Read(u, r.id, "edit")
        /\ UNCHANGED <<ise, network, cache, direct, written, overtaken>>

\* The shared fetch has ended and its waiter runs again.  On any error it is
\* served the entry that is cached by now, if there is one.
Wake(u) ==
    LET r == user[u]
    IN  /\ r.pc = "wake"
        /\ IF r.val \in Values
           THEN Return(u, r.id, r.job, "fetched", r.val)
           ELSE IF r.id \in Cached
           THEN Return(u, r.id, r.job, "fallback",
                       cache.details[r.id].value)
           ELSE Return(u, r.id, r.job, "error", r.val)
        /\ UNCHANGED <<ise, network, cache, inflight, direct, written,
                       overtaken>>

-----------------------------------------------------------------------------
(***************************************************************************)
(*                    Fetches                                              *)
(***************************************************************************)

Reply(i) == IF network = "down" THEN Lost ELSE ise[i]

\* ISE reads endpoint i for the shared fetch.
AnswerTask(i) ==
    /\ inflight[i].pc = "asked"
    /\ inflight' = [inflight EXCEPT ![i] = [pc |-> "answered", val |-> Reply(i)]]
    /\ UNCHANGED <<ise, network, cache, direct, user, written, overtaken>>

\* _fetch_and_store ends: the entry is put, and the waiters are to run.
DeliverTask(i) ==
    LET v == inflight[i].val
    IN  /\ inflight[i].pc = "answered"
        /\ inflight' = [inflight EXCEPT ![i] = NoFetch]
        /\ cache' \in IF v \in Values THEN put_detail(cache, i, v) ELSE {cache}
        /\ user' = [u \in Users |->
                       IF user[u].pc = "wait" /\ user[u].id = i
                       THEN [user[u] EXCEPT !.pc = "wake", !.val = v]
                       ELSE user[u]]
        /\ UNCHANGED <<ise, network, direct, written, overtaken>>

\* A worker begins a round: it asks for every endpoint of S.
Ask(w, S) ==
    /\ \A i \in Ids : direct[w][i].pc = "none"
    /\ S # {}
    /\ direct' = [direct EXCEPT ![w] = [i \in Ids |-> IF i \in S THEN Asked
                                                     ELSE NoFetch]]
    /\ UNCHANGED <<ise, network, cache, inflight, user, written, overtaken>>

\* The endpoints the drip loop may pick, and whether i is more overdue than j
\* (get_priority_stale_ids with the base TTL: the portal is in use).
Overdue == {i \in Cached : /\ inflight[i].pc = "none"
                           /\ cache.details[i].age > cache.details[i].ttl}

MoreOverdue(i, j) ==
    cache.details[i].age * cache.details[j].ttl
        > cache.details[j].age * cache.details[i].ttl

DripRound ==
    /\ "drip" \in Workers
    /\ \E S \in SUBSET Overdue :
          /\ Cardinality(S) <= DripBatch
          /\ Cardinality(S) < DripBatch => S = Overdue
          /\ \A i \in S, j \in Overdue \ S : ~MoreOverdue(j, i)
          /\ Ask("drip", S)

SyncRound ==
    /\ "sync" \in Workers
    /\ Ask("sync", {i \in Cached : cache.details[i].age >= HalfTTL})

AnswerDirect(w, i) ==
    /\ direct[w][i].pc = "asked"
    /\ direct' = [direct EXCEPT ![w][i] = [pc |-> "answered", val |-> Reply(i)]]
    /\ UNCHANGED <<ise, network, cache, inflight, user, written, overtaken>>

\* Mutant of OnFailure: the sync worker keeps an entry it could not refresh.
OnFailureKeep(w, i) ==
    IF w = "drip" THEN set_fetch_backoff(cache, i) ELSE cache

\* What a worker does about a fetch that failed: the drip loop postpones the
\* entry, the sync worker drops it.
OnFailure(w, i) ==
    IF w = "drip" THEN set_fetch_backoff(cache, i)
    ELSE invalidate_detail(cache, i)

DeliverDirect(w, i) ==
    LET v == direct[w][i].val
    IN  /\ direct[w][i].pc = "answered"
        /\ direct' = [direct EXCEPT ![w][i] = NoFetch]
        /\ cache' \in IF v \in Values THEN put_detail(cache, i, v)
                      ELSE {OnFailure(w, i)}
        /\ UNCHANGED <<ise, network, inflight, user, written, overtaken>>

-----------------------------------------------------------------------------
(***************************************************************************)
(*                    Writes                                               *)
(***************************************************************************)

\* The PUT or DELETE reaches ISE, or fails; then the request ends here, with
\* nothing invalidated.
Put(u) ==
    LET r == user[u]
        i == r.id
        v == IF r.job = "delete" THEN Gone ELSE ise[i] + 1
    IN  /\ r.pc = "put"
        /\ \/ /\ network = "up"
              /\ ise[i] # Gone
              /\ (v <= MaxVersion \/ r.job = "delete")
              /\ ise' = [ise EXCEPT ![i] = v]
              /\ user' = [user EXCEPT ![u] = [NoRequest EXCEPT
                              !.pc = "applied", !.job = r.job, !.id = i,
                              !.val = v]]
           \/ /\ user' = [user EXCEPT ![u] = NoRequest]
              /\ UNCHANGED ise
        /\ UNCHANGED <<network, cache, inflight, direct, written, overtaken>>

\* The answers that are still out and older than version v of i.
OlderAnswers(i, v) ==
    \E f \in {inflight[i]} \cup {direct[w][i] : w \in Workers} :
        f.pc = "answered" /\ f.val < v

\* Mutant of Written: the cache is not told of a write.
WrittenNoInvalidate(u) ==
    LET r == user[u]
        i == r.id
        v == IF r.val > written[i] THEN r.val ELSE written[i]
    IN  /\ r.pc = "applied"
        /\ UNCHANGED cache
        /\ written' = [written EXCEPT ![i] = v]
        /\ overtaken' = [overtaken EXCEPT ![i] = OlderAnswers(i, v)]
        /\ user' = [user EXCEPT ![u] =
                        IF r.job = "update"
                        THEN [NoRequest EXCEPT !.pc = "audit", !.job = "audit",
                                               !.id = i]
                        ELSE NoRequest]
        /\ UNCHANGED <<ise, network, inflight, direct>>

\* The response arrives and the endpoint is invalidated (the tier mark_changed
\* leaves for the next entry is open anyway).
Written(u) ==
    LET r == user[u]
        i == r.id
        v == IF r.val > written[i] THEN r.val ELSE written[i]
    IN  /\ r.pc = "applied"
        /\ cache' = invalidate_detail(cache, i)
        /\ written' = [written EXCEPT ![i] = v]
        /\ overtaken' = [overtaken EXCEPT ![i] = OlderAnswers(i, v)]
        /\ user' = [user EXCEPT ![u] =
                        IF r.job = "update"
                        THEN [NoRequest EXCEPT !.pc = "audit", !.job = "audit",
                                               !.id = i]
                        ELSE NoRequest]
        /\ UNCHANGED <<ise, network, inflight, direct>>

\* The response is lost: the write is done in ISE, the request ends with an
\* error and the cache is not told.
WriteLost(u) ==
    /\ user[u].pc = "applied"
    /\ network = "down"
    /\ user' = [user EXCEPT ![u] = NoRequest]
    /\ UNCHANGED <<ise, network, cache, inflight, direct, written, overtaken>>

-----------------------------------------------------------------------------
(***************************************************************************)
(*                    The rest of the portal, and the world                *)
(***************************************************************************)

\* pxGrid reports a change of endpoint i (session_worker).
EndpointEvent(i) ==
    /\ "endpoint" \in Events
    /\ i \in Cached
    /\ cache' = invalidate_detail(cache, i)
    /\ UNCHANGED <<ise, network, inflight, direct, user, written, overtaken>>

\* A bulk operation, a settings change, or an administrator's flush.
Flush ==
    /\ "flush" \in Events
    /\ Cached # {}
    /\ cache' = invalidate_all(cache)
    /\ UNCHANGED <<ise, network, inflight, direct, user, written, overtaken>>

Tick ==
    /\ cache' = Elapse(cache)
    /\ UNCHANGED <<ise, network, inflight, direct, user, written, overtaken>>

\* External: somebody else changes or deletes an endpoint in ISE.
IseChanges(i) ==
    /\ network # "settled"
    /\ ise[i] < MaxVersion
    /\ ise' \in {[ise EXCEPT ![i] = @ + 1], [ise EXCEPT ![i] = Gone]}
    /\ UNCHANGED <<network, cache, inflight, direct, user, written, overtaken>>

\* External: ISE stops or starts answering; "settled" is for good, and without
\* any further change of an endpoint.
NetworkChanges ==
    /\ network # "settled"
    /\ network' \in {"up", "down", "settled"} \ {network}
    /\ UNCHANGED <<ise, cache, inflight, direct, user, written, overtaken>>

Next ==
    \/ \E u \in Users, i \in Ids, job \in Jobs : Begin(u, i, job)
    \/ \E u \in Users : AuditAfter(u)
    \/ \E u \in Users : Wake(u)
    \/ \E u \in Users : Put(u)
    \/ \E u \in Users : Written(u)
    \/ \E u \in Users : WriteLost(u)
    \/ \E i \in Ids : AnswerTask(i)
    \/ \E i \in Ids : DeliverTask(i)
    \/ DripRound
    \/ SyncRound
    \/ \E w \in Workers, i \in Ids : AnswerDirect(w, i)
    \/ \E w \in Workers, i \in Ids : DeliverDirect(w, i)
    \/ \E i \in Ids : EndpointEvent(i)
    \/ Flush
    \/ Tick
    \/ \E i \in Ids : IseChanges(i)
    \/ NetworkChanges

Spec == Init /\ [][Next]_vars

(***************************************************************************)
(* Fairness.  Every fetch and every write ends, because httpx has a        *)
(* timeout; a task that is ready runs; the clock advances; the background  *)
(* workers go round for ever.  No request need come in.                    *)
(***************************************************************************)
Fairness ==
    /\ \A i \in Ids : WF_vars(AnswerTask(i)) /\ WF_vars(DeliverTask(i))
    /\ \A w \in Workers, i \in Ids :
          WF_vars(AnswerDirect(w, i)) /\ WF_vars(DeliverDirect(w, i))
    /\ \A u \in Users : /\ WF_vars(Wake(u))
                         /\ WF_vars(Put(u))
                         /\ WF_vars(Written(u) \/ WriteLost(u))
                         /\ WF_vars(AuditAfter(u))
    /\ WF_vars(Tick)
    /\ WF_vars(DripRound)
    /\ WF_vars(SyncRound)

FairSpec == Spec /\ Fairness

-----------------------------------------------------------------------------
(***************************************************************************)
(*                         Properties                                      *)
(***************************************************************************)

\* The roles index decides what a user who is no administrator sees.  Through
\* every refresh, eviction and invalidation, in whatever order answers come
\* back, it lists an endpoint under exactly the roles of its entry: nobody is
\* shown an endpoint by a role it lost, and nobody misses one
\* (_add_to_roles_index, _remove_from_roles_index).
RolesIndexExact == cache.roles_index = RolesIndex(cache.details)

\* disk_stale_count() is the number of entries not refreshed since the restart;
\* no path that replaces or drops an entry from disk counts it twice or never.
DiskCountExact == cache.disk_stale_count = Cardinality(FromDisk(cache.details))

\* _total_bytes, which decides about eviction, never drifts from the entries:
\* a drift would evict too much for ever, or never again.
BytesExact == cache.total_bytes = Bytes(cache.details)

\* The entry limit holds although refreshes, which are not checked, and first
\* fetches of several users and workers come in in any order (put_detail).
EntriesBounded == MaxEntries > 0 => Cardinality(Cached) <= MaxEntries

\* What is kept beside the entries agrees with them: the index, the disk count, the limit.
AccountsExact == RolesIndexExact /\ DiskCountExact /\ EntriesBounded

\* What is left of "the next read sees the new state" when fetches overlap with
\* writes: once a write has invalidated its endpoint, whatever is cached is at
\* least as new, unless an answer older than the write was out at that moment.
\* No other path (a fetch that was asked before the write and answered after
\* it, a fallback, a second write, an eviction) brings an old version back.
OldOnlyIfOvertaken ==
    \A i \in Cached : cache.details[i].value < written[i] => overtaken[i]

\* A request that waits for a fetch returns, whoever started the fetch, however
\* it ends, and whoever else joins it (get_detail).
ReadsReturn ==
    \A u \in Users :
        user[u].pc \in {"wait", "wake"} ~> user[u].pc \notin {"wait", "wake"}

\* Once ISE answers and nothing changes there any more, the cache ends up
\* equal to ISE and stays so: changed endpoints are refreshed, deleted ones
\* leave, and no late answer undoes it for good, although workers, users and
\* failed fetches keep moving the ages the refreshes are chosen by.
Converges ==
    <>(network = "settled") =>
        <>[](\A i \in Cached : cache.details[i].value = ise[i])

=============================================================================
