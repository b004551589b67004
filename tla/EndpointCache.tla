--------------------------- MODULE EndpointCache ---------------------------
(***************************************************************************)
(* The in-memory endpoint cache (class EndpointCache in                    *)
(* backend/app/core/endpoint_cache.py) as a value and the operations that  *)
(* change it.  A cache is a record of the entries (_details) and of the    *)
(* three structures derived from them that the code maintains by hand      *)
(* beside them: _roles_index, _disk_stale_count and _total_bytes.          *)
(*                                                                         *)
(* No operation awaits, so each is one operator.  put_detail has a set of  *)
(* results: which of two entries of the same age is evicted first, and     *)
(* which tier change_ema puts the new entry in, is left open.              *)
(*                                                                         *)
(* Data.  A cached EndpointDetail is a member of Values; all that is known *)
(* of it are its roles and its serialized size.  fetched_at is kept as the *)
(* entry's age in ticks, up to MaxAge.  change_ema and value_hash are      *)
(* abstracted to what they decide, the entry's time to live: ttl is the    *)
(* base TTL times the factor of the entry's tier (hot, warm or cold).      *)
(***************************************************************************)
EXTENDS Integers, FiniteSets, Functions

CONSTANTS Ids,        \* ISE endpoint ids
          Values,     \* EndpointDetail values
          Roles,      \* lower-case role names
          RolesOf,    \* the roles a value carries
          SizeOf,     \* _estimate_size
          MaxEntries, \* cache_max_entries, 0 for no limit
          MaxBytes,   \* cache_max_memory_mb, 0 for no limit
          TTLs,       \* what _effective_ttl_for_entry may return
          StaleMax,   \* _ttl() * STALE_MAX_FACTOR
          BackoffAge, \* _ttl() - 60, the age set_fetch_backoff gives an entry
          MaxAge,     \* where ages saturate
          SWR         \* cache_stale_while_revalidate

ASSUME CacheAssumption ==
    /\ IsFiniteSet(Ids)
    /\ RolesOf \in [Values -> SUBSET Roles]
    /\ SizeOf \in [Values -> Nat \ {0}]
    /\ MaxEntries \in Nat
    /\ MaxBytes \in Nat
    /\ MaxAge \in Nat
    /\ TTLs \subseteq 1..MaxAge - 1
    /\ StaleMax \in 0..MaxAge - 1
    /\ BackoffAge \in 0..MaxAge
    /\ SWR \in BOOLEAN

Entry == [value : Values, age : 0..MaxAge, ttl : TTLs, from_disk : BOOLEAN]

-----------------------------------------------------------------------------
\* What the derived structures ought to hold for the entries d.  The code
\* deletes the bucket of a role nobody carries; here it is empty.
RolesIndex(d) ==
    [r \in Roles |-> {i \in DOMAIN d : r \in RolesOf[d[i].value]}]

FromDisk(d) == {i \in DOMAIN d : d[i].from_disk}

\* The sum of the sizes, as the number of the bytes themselves: byte k of entry i.
ByteSet(d) == UNION {{i} \X (1..SizeOf[d[i].value]) : i \in DOMAIN d}
Bytes(d) == Cardinality(ByteSet(d))

CacheOf(d) == [details |-> d,
               roles_index |-> RolesIndex(d),
               disk_stale_count |-> Cardinality(FromDisk(d)),
               total_bytes |-> Bytes(d)]

EmptyCache == CacheOf([i \in {} |-> {}])

-----------------------------------------------------------------------------
\* Mutant of Remove: the roles index keeps what it had.
RemoveKeepRoles(c, E) ==
    LET gone == Restrict(c.details, E)
    IN  [c EXCEPT !.details = Restrict(@, DOMAIN @ \ E),
                  !.disk_stale_count = @ - Cardinality(FromDisk(gone)),
                  !.total_bytes = @ - Bytes(gone)]

\* Mutant of Remove: the size of what goes stays in the total.
RemoveKeepBytes(c, E) ==
    LET gone == Restrict(c.details, E)
    IN  [c EXCEPT !.details = Restrict(@, DOMAIN @ \ E),
                  !.roles_index = [r \in Roles |->
                                      @[r] \ RolesIndex(gone)[r]],
                  !.disk_stale_count = @ - Cardinality(FromDisk(gone))]

\* The entries of E leave the cache, and each derived structure loses their
\* share of it (E a set of cached ids).
Remove(c, E) ==
    LET gone == Restrict(c.details, E)
    IN  [details |-> Restrict(c.details, DOMAIN c.details \ E),
         roles_index |-> [r \in Roles |->
                             c.roles_index[r] \ RolesIndex(gone)[r]],
         disk_stale_count |-> c.disk_stale_count - Cardinality(FromDisk(gone)),
         total_bytes |-> c.total_bytes - Bytes(gone)]

\* An entry for i, which is not cached, enters.
Insert(c, i, e) ==
    [details |-> [j \in DOMAIN c.details \cup {i} |->
                     IF j = i THEN e ELSE c.details[j]],
     roles_index |-> [r \in Roles |-> c.roles_index[r] \cup
                         (IF r \in RolesOf[e.value] THEN {i} ELSE {})],
     disk_stale_count |-> c.disk_stale_count + (IF e.from_disk THEN 1 ELSE 0),
     total_bytes |-> c.total_bytes + SizeOf[e.value]]

\* The condition of the eviction loop of put_detail.
Full(c, size) ==
    /\ DOMAIN c.details # {}
    /\ \/ MaxEntries > 0 /\ Cardinality(DOMAIN c.details) >= MaxEntries
       \/ MaxBytes > 0 /\ c.total_bytes + size > MaxBytes

\* What the loop may evict: oldest entries first, until the cache is not full
\* any more and no entry beyond that.
Evictions(c, size) ==
    {E \in SUBSET DOMAIN c.details :
        /\ ~Full(Remove(c, E), size)
        /\ \A i \in E, k \in DOMAIN c.details \ E :
              c.details[i].age >= c.details[k].age
        /\ E # {} => \E last \in E :
              /\ Full(Remove(c, E \ {last}), size)
              /\ \A i \in E : c.details[i].age >= c.details[last].age}

\* The entries a fetch that returned v may make.
Fetched(v) ==
    {[value |-> v, age |-> 0, ttl |-> t, from_disk |-> FALSE] : t \in TTLs}

\* A refresh replaces the entry and is not checked against the limits.
put_detail(c, i, v) ==
    IF i \in DOMAIN c.details
    THEN {Insert(Remove(c, {i}), i, e) : e \in Fetched(v)}
    ELSE {Insert(Remove(c, E), i, e) :
             E \in Evictions(c, SizeOf[v]), e \in Fetched(v)}

invalidate_detail(c, i) == Remove(c, {i} \cap DOMAIN c.details)

invalidate_all(c) == EmptyCache

\* Mutant of set_fetch_backoff: the signs are mixed up.
set_fetch_backoff_ahead(c, i) ==
    IF i \in DOMAIN c.details
    THEN [c EXCEPT !.details[i].age = -BackoffAge]
    ELSE c

set_fetch_backoff(c, i) ==
    IF i \in DOMAIN c.details
    THEN [c EXCEPT !.details[i].age = BackoffAge]
    ELSE c

\* One tick of the clock, as _age() sees it.
Older(e) == [e EXCEPT !.age = IF @ < MaxAge THEN @ + 1 ELSE @]

Elapse(c) ==
    [c EXCEPT !.details = [i \in DOMAIN @ |-> Older(@[i])]]

\* c is what load_from_disk may leave behind in a new process, when v was the
\* value of every endpoint at the time of the save.
Loaded(c, v) ==
    \E S \in SUBSET Ids, a \in {0, MaxAge}, t \in TTLs :
        LET saved == [value |-> v, age |-> a, ttl |-> t, from_disk |-> TRUE]
        IN  /\ c = CacheOf([i \in S |-> saved])
            /\ MaxEntries > 0 => Cardinality(DOMAIN c.details) <= MaxEntries
            /\ MaxBytes > 0 => c.total_bytes <= MaxBytes

-----------------------------------------------------------------------------
\* The classification get_detail makes of an entry.
Fresh(e) == ~e.from_disk /\ e.age <= e.ttl

StaleServable(e) == ~e.from_disk /\ ~Fresh(e) /\ SWR /\ e.age <= StaleMax

=============================================================================
