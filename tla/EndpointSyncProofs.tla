------------------------- MODULE EndpointSyncProofs -------------------------
(***************************************************************************)
(* Proofs about EndpointSync, for every set of endpoints, users, workers   *)
(* and values, every cache limit, and every number of versions.            *)
(*                                                                         *)
(* The inductive invariant IInv is                                         *)
(*   - CacheOK(cache): the cache is a record of well-typed entries whose   *)
(*     roles index, disk count and total of bytes are exact and whose      *)
(*     entries are within the limit.  It is a property of one cache, so    *)
(*     each operation of EndpointCache is shown to keep it by a lemma of   *)
(*     its own;                                                            *)
(*   - WorldOK: what the portal has written, ISE has (written <= ise);     *)
(*   - UserOK: a write that waits for its response is in ISE already;      *)
(*   - FetchOK: an answer that is still out and older than the last write  *)
(*     was out at that write (overtaken): an answer given after the write  *)
(*     cannot be older, as written <= ise;                                 *)
(*   - OldOnlyIfOvertaken, which follows for an entry when it is put.      *)
(***************************************************************************)
EXTENDS EndpointSync, FiniteSetTheorems, TLAPS

\* The part of the invariant that is about one cache.

CacheOK(c) ==
    /\ c = [details |-> c.details, roles_index |-> c.roles_index,
            disk_stale_count |-> c.disk_stale_count,
            total_bytes |-> c.total_bytes]
    /\ DOMAIN c.details \subseteq Ids
    /\ \A i \in DOMAIN c.details : c.details[i] \in Entry
    /\ c.roles_index = RolesIndex(c.details)
    /\ c.disk_stale_count = Cardinality(FromDisk(c.details))
    /\ c.total_bytes = Bytes(c.details)
    /\ MaxEntries > 0 => Cardinality(DOMAIN c.details) <= MaxEntries

\* The bytes of one entry are as many as its size.
LEMMA EntryBytes ==
    ASSUME NEW i, NEW v \in Values
    PROVE  /\ IsFiniteSet({i} \X (1..SizeOf[v]))
           /\ Cardinality({i} \X (1..SizeOf[v])) = SizeOf[v]
<1>1. SizeOf[v] \in Nat \ {0}
  BY CacheAssumption
<1>2. IsFiniteSet(1..SizeOf[v]) /\ Cardinality(1..SizeOf[v]) = SizeOf[v]
  BY <1>1, FS_Interval
<1>3. IsFiniteSet({i}) /\ Cardinality({i}) = 1
  BY FS_Singleton
<1> DEFINE S == {i}
           T == 1..SizeOf[v]
<1>4. IsFiniteSet(S) /\ IsFiniteSet(T) /\ Cardinality(S) = 1 /\ Cardinality(T) = SizeOf[v]
  BY <1>2, <1>3
<1> HIDE DEF S, T
<1>5. IsFiniteSet(S \X T) /\ Cardinality(S \X T) = Cardinality(S) * Cardinality(T)
  BY <1>4, FS_Product
<1>6. IsFiniteSet(S \X T) /\ Cardinality(S \X T) = SizeOf[v]
  BY <1>1, <1>4, <1>5
<1> QED
  BY <1>6 DEF S, T

\* The bytes of finitely many entries are finitely many.
LEMMA BytesFinite ==
    ASSUME NEW d, DOMAIN d \subseteq Ids, \A i \in DOMAIN d : d[i] \in Entry
    PROVE  IsFiniteSet(ByteSet(d)) /\ Cardinality(ByteSet(d)) \in Nat
<1> DEFINE B(i) == {i} \X (1..SizeOf[d[i].value])
           T == {B(i) : i \in DOMAIN d}
           f == [i \in DOMAIN d |-> B(i)]
<1>1. IsFiniteSet(DOMAIN d)
  BY CacheAssumption, FS_Subset
<1>2. f \in Surjection(DOMAIN d, T)
  BY DEF Surjection
<1>3. IsFiniteSet(T)
  <2> HIDE DEF f, T
  <2> QED BY <1>1, <1>2, FS_Surjection
<1>4. ASSUME NEW i \in DOMAIN d PROVE IsFiniteSet(B(i))
  BY EntryBytes DEF Entry
<1>5. \A S \in T : IsFiniteSet(S)
  <2> HIDE DEF B
  <2> QED BY <1>4
<1>6. ByteSet(d) = UNION T
  BY DEF ByteSet
<1> HIDE DEF T
<1>7. IsFiniteSet(ByteSet(d))
  BY <1>3, <1>5, <1>6, FS_UNION
<1> QED
  BY <1>7, FS_CardinalityType

\* Removing entries keeps the derived structures exact and the others' entries.
LEMMA RemoveKeeps ==
    ASSUME NEW c, CacheOK(c), NEW E \in SUBSET DOMAIN c.details
    PROVE  /\ CacheOK(Remove(c, E))
           /\ DOMAIN Remove(c, E).details = DOMAIN c.details \ E
           /\ \A i \in DOMAIN c.details \ E :
                 Remove(c, E).details[i] = c.details[i]
<1> DEFINE d == Remove(c, E)
           gone == Restrict(c.details, E)
           kept == Restrict(c.details, DOMAIN c.details \ E)
<1>1. /\ d.details = kept
      /\ d.roles_index = [r \in Roles |->
                             c.roles_index[r] \ RolesIndex(gone)[r]]
      /\ d.disk_stale_count = c.disk_stale_count - Cardinality(FromDisk(gone))
      /\ d.total_bytes = c.total_bytes - Bytes(gone)
      /\ d = [details |-> d.details, roles_index |-> d.roles_index,
              disk_stale_count |-> d.disk_stale_count,
              total_bytes |-> d.total_bytes]
  BY DEF Remove
<1>2. /\ DOMAIN kept = DOMAIN c.details \ E
      /\ \A i \in DOMAIN c.details \ E : kept[i] = c.details[i]
      /\ DOMAIN gone = E
      /\ \A i \in E : gone[i] = c.details[i]
  BY DEF Restrict
<1> HIDE DEF d, gone, kept
<1>3. d.roles_index = RolesIndex(kept)
  <2>1. ASSUME NEW r \in Roles
        PROVE  c.roles_index[r] \ RolesIndex(gone)[r]
                  = {i \in DOMAIN kept : r \in RolesOf[kept[i].value]}
    <3>1. c.roles_index[r] = {i \in DOMAIN c.details :
                                 r \in RolesOf[c.details[i].value]}
      BY DEF CacheOK, RolesIndex
    <3>2. RolesIndex(gone)[r] = {i \in DOMAIN gone : r \in RolesOf[gone[i].value]}
      BY DEF RolesIndex
    <3> QED
      BY <3>1, <3>2, <1>2
  <2> QED
    BY <1>1, <2>1 DEF RolesIndex
<1>4. IsFiniteSet(DOMAIN c.details)
  BY CacheAssumption, FS_Subset DEF CacheOK
<1>5. d.disk_stale_count = Cardinality(FromDisk(kept))
  <2> DEFINE S == FromDisk(c.details)
             T == FromDisk(gone)
  <2>1. FromDisk(kept) = S \ T
    BY <1>2 DEF FromDisk
  <2>2. S \cap T = T
    BY <1>2 DEF FromDisk
  <2>3. IsFiniteSet(S)
    BY <1>4, FS_Subset DEF FromDisk
  <2>4. d.disk_stale_count = Cardinality(S) - Cardinality(T)
    BY <1>1 DEF CacheOK
  <2> HIDE DEF S, T
  <2>5. Cardinality(S \ T) = Cardinality(S) - Cardinality(S \cap T)
    BY <2>3, FS_Difference
  <2> QED
    BY <2>1, <2>2, <2>4, <2>5
<1>6. MaxEntries > 0 => Cardinality(DOMAIN kept) <= MaxEntries
  <2>1. Cardinality(DOMAIN kept) <= Cardinality(DOMAIN c.details)
    BY <1>2, <1>4, FS_Subset
  <2>2. /\ Cardinality(DOMAIN kept) \in Nat
        /\ Cardinality(DOMAIN c.details) \in Nat
    BY <1>2, <1>4, FS_Subset, FS_CardinalityType
  <2> QED
    BY <2>1, <2>2, CacheAssumption DEF CacheOK
<1>8. d.total_bytes = Bytes(kept)
  <2> DEFINE S == ByteSet(c.details)
             T == ByteSet(gone)
  <2>1. ByteSet(kept) = S \ T
    BY <1>2 DEF ByteSet
  <2>2. S \cap T = T
    BY <1>2 DEF ByteSet
  <2>3. IsFiniteSet(S)
    BY BytesFinite DEF CacheOK
  <2>4. d.total_bytes = Cardinality(S) - Cardinality(T)
    BY <1>1 DEF CacheOK, Bytes
  <2> HIDE DEF S, T
  <2>5. Cardinality(S \ T) = Cardinality(S) - Cardinality(S \cap T)
    BY <2>3, FS_Difference
  <2> QED
    BY <2>1, <2>2, <2>4, <2>5 DEF Bytes
<1>7. CacheOK(d)
  <2>1. \A i \in DOMAIN kept : kept[i] \in Entry
    BY <1>2 DEF CacheOK
  <2>2. DOMAIN kept \subseteq Ids
    BY <1>2 DEF CacheOK
  <2> QED
    BY <2>1, <2>2, <1>1, <1>3, <1>5, <1>6, <1>8 DEF CacheOK
<1> QED
  BY <1>1, <1>2, <1>7 DEF d

\* So does inserting a new entry into a cache with room for it.
LEMMA InsertKeeps ==
    ASSUME NEW c, CacheOK(c), NEW i \in Ids \ DOMAIN c.details, NEW e \in Entry,
           MaxEntries > 0 => Cardinality(DOMAIN c.details) < MaxEntries
    PROVE  /\ CacheOK(Insert(c, i, e))
           /\ DOMAIN Insert(c, i, e).details = DOMAIN c.details \cup {i}
           /\ Insert(c, i, e).details[i] = e
           /\ \A j \in DOMAIN c.details :
                 Insert(c, i, e).details[j] = c.details[j]
<1> DEFINE d == Insert(c, i, e)
           new == [j \in DOMAIN c.details \cup {i} |->
                      IF j = i THEN e ELSE c.details[j]]
<1>1. /\ d.details = new
      /\ d.roles_index = [r \in Roles |-> c.roles_index[r] \cup
                             (IF r \in RolesOf[e.value] THEN {i} ELSE {})]
      /\ d.disk_stale_count = c.disk_stale_count
                                 + (IF e.from_disk THEN 1 ELSE 0)
      /\ d.total_bytes = c.total_bytes + SizeOf[e.value]
      /\ d = [details |-> d.details, roles_index |-> d.roles_index,
              disk_stale_count |-> d.disk_stale_count,
              total_bytes |-> d.total_bytes]
  BY DEF Insert
<1>2. /\ DOMAIN new = DOMAIN c.details \cup {i}
      /\ new[i] = e
      /\ \A j \in DOMAIN c.details : new[j] = c.details[j]
  OBVIOUS
<1> HIDE DEF d, new
<1>3. d.roles_index = RolesIndex(new)
  <2>1. ASSUME NEW r \in Roles
        PROVE  c.roles_index[r] \cup (IF r \in RolesOf[e.value] THEN {i} ELSE {})
                  = {j \in DOMAIN new : r \in RolesOf[new[j].value]}
    <3>1. c.roles_index[r] = {j \in DOMAIN c.details :
                                 r \in RolesOf[c.details[j].value]}
      BY DEF CacheOK, RolesIndex
    <3> QED
      BY <3>1, <1>2
  <2> QED
    BY <1>1, <2>1 DEF RolesIndex
<1>4. IsFiniteSet(DOMAIN c.details)
  BY CacheAssumption, FS_Subset DEF CacheOK
<1>5. d.disk_stale_count = Cardinality(FromDisk(new))
  <2> DEFINE S == FromDisk(c.details)
  <2>1. FromDisk(new) = IF e.from_disk THEN S \cup {i} ELSE S
    BY <1>2 DEF FromDisk, Entry
  <2>2. i \notin S
    BY DEF FromDisk
  <2>3. IsFiniteSet(S)
    BY <1>4, FS_Subset DEF FromDisk
  <2>4. d.disk_stale_count = Cardinality(S) + (IF e.from_disk THEN 1 ELSE 0)
    BY <1>1 DEF CacheOK
  <2> HIDE DEF S
  <2>5. Cardinality(S \cup {i}) = Cardinality(S) + 1
    BY <2>2, <2>3, FS_AddElement
  <2>6. Cardinality(S) \in Nat
    BY <2>3, FS_CardinalityType
  <2> QED
    BY <2>1, <2>4, <2>5, <2>6
<1>6. MaxEntries > 0 => Cardinality(DOMAIN new) <= MaxEntries
  <2>1. Cardinality(DOMAIN new) = Cardinality(DOMAIN c.details) + 1
    BY <1>2, <1>4, FS_AddElement
  <2>2. Cardinality(DOMAIN c.details) \in Nat
    BY <1>4, FS_CardinalityType
  <2> QED
    BY <2>1, <2>2, CacheAssumption
<1>8. d.total_bytes = Bytes(new)
  <2> DEFINE S == ByteSet(c.details)
             T == {i} \X (1..SizeOf[e.value])
  <2>1. ByteSet(new) = S \cup T
    BY <1>2 DEF ByteSet
  <2>2. S \cap T = {}
    BY DEF ByteSet
  <2>3. IsFiniteSet(S) /\ Cardinality(S) \in Nat
    BY BytesFinite DEF CacheOK
  <2>4. IsFiniteSet(T) /\ Cardinality(T) = SizeOf[e.value] /\ SizeOf[e.value] \in Nat
    BY EntryBytes, CacheAssumption DEF Entry
  <2>5. d.total_bytes = Cardinality(S) + SizeOf[e.value]
    BY <1>1 DEF CacheOK, Bytes
  <2> HIDE DEF S, T
  <2>6. Cardinality(S \cup T) = Cardinality(S) + Cardinality(T) - Cardinality(S \cap T)
    BY <2>3, <2>4, FS_Union
  <2>7. Cardinality(S \cap T) = 0
    BY <2>2, FS_EmptySet
  <2>8. Bytes(new) = Cardinality(S \cup T)
    BY <2>1 DEF Bytes
  <2>9. Bytes(new) = Cardinality(S) + SizeOf[e.value]
    BY <2>3, <2>4, <2>6, <2>7, <2>8
  <2> QED
    BY <2>5, <2>9
<1>7. CacheOK(d)
  <2>1. \A j \in DOMAIN new : new[j] \in Entry
    BY <1>2 DEF CacheOK
  <2>2. DOMAIN new \subseteq Ids
    BY <1>2 DEF CacheOK
  <2> QED
    BY <2>1, <2>2, <1>1, <1>3, <1>5, <1>6, <1>8 DEF CacheOK
<1> QED
  BY <1>1, <1>2, <1>7 DEF d

\* The eviction loop of put_detail leaves room for one more entry.
LEMMA EvictionMakesRoom ==
    ASSUME NEW c, CacheOK(c), NEW size, NEW E \in Evictions(c, size)
    PROVE  /\ E \in SUBSET DOMAIN c.details
           /\ MaxEntries > 0
                => Cardinality(DOMAIN Remove(c, E).details) < MaxEntries
<1>1. E \in SUBSET DOMAIN c.details /\ ~Full(Remove(c, E), size)
  BY DEF Evictions
<1>2. CASE DOMAIN Remove(c, E).details = {}
  BY <1>1, <1>2, FS_EmptySet, CacheAssumption
<1>3. CASE DOMAIN Remove(c, E).details # {}
  <2>1. ~(MaxEntries > 0 /\ Cardinality(DOMAIN Remove(c, E).details) >= MaxEntries)
    BY <1>1, <1>3 DEF Full
  <2>2. IsFiniteSet(DOMAIN Remove(c, E).details)
    BY <1>1, RemoveKeeps, CacheAssumption, FS_Subset DEF CacheOK
  <2>3. Cardinality(DOMAIN Remove(c, E).details) \in Nat
    BY <2>2, FS_CardinalityType
  <2> QED
    BY <1>1, <2>1, <2>3, CacheAssumption
<1> QED
  BY <1>2, <1>3

\* put_detail, refresh or first fetch, leaves the value it was given, and
\* otherwise only entries that were there.
LEMMA PutKeeps ==
    ASSUME NEW c, CacheOK(c), NEW i \in Ids, NEW v \in Values,
           NEW d \in put_detail(c, i, v)
    PROVE  /\ CacheOK(d)
           /\ i \in DOMAIN d.details
           /\ d.details[i].value = v
           /\ \A j \in DOMAIN d.details \ {i} :
                 /\ j \in DOMAIN c.details
                 /\ d.details[j] = c.details[j]
<1>1. ASSUME NEW e \in Fetched(v)
      PROVE  e \in Entry /\ e.value = v
  <2>1. PICK t \in TTLs :
             e = [value |-> v, age |-> 0, ttl |-> t, from_disk |-> FALSE]
    BY DEF Fetched
  <2>2. 0 \in 0..MaxAge
    BY CacheAssumption
  <2> QED
    BY <2>1, <2>2 DEF Entry
<1>2. CASE i \in DOMAIN c.details
  <2>1. PICK e \in Fetched(v) : d = Insert(Remove(c, {i}), i, e)
    BY <1>2 DEF put_detail
  <2> DEFINE rest == Remove(c, {i})
  <2>2. /\ CacheOK(rest)
        /\ DOMAIN rest.details = DOMAIN c.details \ {i}
        /\ \A j \in DOMAIN c.details \ {i} : rest.details[j] = c.details[j]
    BY <1>2, RemoveKeeps
  <2>3. MaxEntries > 0 => Cardinality(DOMAIN rest.details) < MaxEntries
    <3>1. IsFiniteSet(DOMAIN c.details)
      BY CacheAssumption, FS_Subset DEF CacheOK
    <3>2. Cardinality(DOMAIN c.details \ {i}) = Cardinality(DOMAIN c.details) - 1
      BY <1>2, <3>1, FS_RemoveElement
    <3>3. Cardinality(DOMAIN c.details) \in Nat
      BY <3>1, FS_CardinalityType
    <3>4. MaxEntries > 0 => Cardinality(DOMAIN c.details) <= MaxEntries
      BY DEF CacheOK
    <3>5. DOMAIN rest.details = DOMAIN c.details \ {i}
      BY <2>2
    <3> HIDE DEF rest
    <3> QED
      BY <3>2, <3>3, <3>4, <3>5, CacheAssumption
  <2> HIDE DEF rest
  <2>4. d = Insert(rest, i, e)
    BY <2>1 DEF rest
  <2>5. i \in Ids \ DOMAIN rest.details /\ e \in Entry /\ e.value = v
    BY <1>1, <2>2
  <2>6. /\ CacheOK(d)
        /\ DOMAIN d.details = DOMAIN rest.details \cup {i}
        /\ d.details[i] = e
        /\ \A j \in DOMAIN rest.details : d.details[j] = rest.details[j]
    <3>1. CacheOK(rest)
      BY <2>2
    <3>2. MaxEntries > 0 => Cardinality(DOMAIN rest.details) < MaxEntries
      BY <2>3
    <3>3. i \in Ids \ DOMAIN rest.details /\ e \in Entry
      BY <2>5
    <3>4. /\ CacheOK(Insert(rest, i, e))
          /\ DOMAIN Insert(rest, i, e).details = DOMAIN rest.details \cup {i}
          /\ Insert(rest, i, e).details[i] = e
          /\ \A j \in DOMAIN rest.details :
                Insert(rest, i, e).details[j] = rest.details[j]
      BY ONLY <3>1, <3>2, <3>3, InsertKeeps
    <3> QED
      BY ONLY <3>4, <2>4
  <2> QED
    BY ONLY <2>2, <2>5, <2>6
<1>3. CASE i \notin DOMAIN c.details
  <2>1. PICK E \in Evictions(c, SizeOf[v]), e \in Fetched(v) :
             d = Insert(Remove(c, E), i, e)
    BY <1>3 DEF put_detail
  <2> DEFINE rest == Remove(c, E)
  <2>2. /\ CacheOK(rest)
        /\ DOMAIN rest.details = DOMAIN c.details \ E
        /\ \A j \in DOMAIN c.details \ E : rest.details[j] = c.details[j]
        /\ MaxEntries > 0 => Cardinality(DOMAIN rest.details) < MaxEntries
    BY EvictionMakesRoom, RemoveKeeps
  <2> HIDE DEF rest
  <2>3. d = Insert(rest, i, e)
    BY <2>1 DEF rest
  <2>5. i \in Ids \ DOMAIN rest.details /\ e \in Entry /\ e.value = v
    BY <1>1, <1>3, <2>2
  <2>6. /\ CacheOK(d)
        /\ DOMAIN d.details = DOMAIN rest.details \cup {i}
        /\ d.details[i] = e
        /\ \A j \in DOMAIN rest.details : d.details[j] = rest.details[j]
    <3>1. CacheOK(rest)
      BY <2>2
    <3>2. MaxEntries > 0 => Cardinality(DOMAIN rest.details) < MaxEntries
      BY <2>2
    <3>3. i \in Ids \ DOMAIN rest.details /\ e \in Entry
      BY <2>5
    <3>4. /\ CacheOK(Insert(rest, i, e))
          /\ DOMAIN Insert(rest, i, e).details = DOMAIN rest.details \cup {i}
          /\ Insert(rest, i, e).details[i] = e
          /\ \A j \in DOMAIN rest.details :
                Insert(rest, i, e).details[j] = rest.details[j]
      BY ONLY <3>1, <3>2, <3>3, InsertKeeps
    <3> QED
      BY ONLY <3>4, <2>3
  <2> QED
    BY ONLY <2>2, <2>5, <2>6
<1> QED
  BY <1>2, <1>3

\* d has no entry but those of c, with the values they have there.
Within(d, c) ==
    \A i \in DOMAIN d.details :
        i \in DOMAIN c.details /\ d.details[i].value = c.details[i].value

\* invalidate_detail only takes its endpoint out.
LEMMA InvalidateKeeps ==
    ASSUME NEW c, CacheOK(c), NEW i
    PROVE  /\ CacheOK(invalidate_detail(c, i))
           /\ Within(invalidate_detail(c, i), c)
           /\ i \notin DOMAIN invalidate_detail(c, i).details
<1>1. {i} \cap DOMAIN c.details \in SUBSET DOMAIN c.details
  OBVIOUS
<1> DEFINE d == Remove(c, {i} \cap DOMAIN c.details)
<1>2. /\ CacheOK(d)
      /\ DOMAIN d.details = DOMAIN c.details \ ({i} \cap DOMAIN c.details)
      /\ \A j \in DOMAIN c.details \ ({i} \cap DOMAIN c.details) :
            d.details[j] = c.details[j]
  BY <1>1, RemoveKeeps
<1> HIDE DEF d
<1>3. d = invalidate_detail(c, i)
  BY DEF d, invalidate_detail
<1> QED
  BY ONLY <1>2, <1>3 DEF Within

\* The derived structures do not depend on ages.
LEMMA SameEntries ==
    ASSUME NEW c, CacheOK(c), NEW f, NEW d, d = [c EXCEPT !.details = f],
           DOMAIN f = DOMAIN c.details,
           \A i \in DOMAIN f : /\ f[i] \in Entry
                               /\ f[i].value = c.details[i].value
                               /\ f[i].from_disk = c.details[i].from_disk
    PROVE  CacheOK(d) /\ Within(d, c)
<1>1. /\ d.details = f
      /\ d.roles_index = c.roles_index
      /\ d.disk_stale_count = c.disk_stale_count
      /\ d.total_bytes = c.total_bytes
      /\ d = [details |-> d.details, roles_index |-> d.roles_index,
              disk_stale_count |-> d.disk_stale_count,
              total_bytes |-> d.total_bytes]
  BY DEF CacheOK
<1>2. RolesIndex(f) = RolesIndex(c.details)
  BY DEF RolesIndex
<1>3. FromDisk(f) = FromDisk(c.details)
  BY DEF FromDisk
<1>4. Bytes(f) = Bytes(c.details)
  <2>1. ByteSet(f) = ByteSet(c.details)
    BY DEF ByteSet
  <2> QED
    BY <2>1 DEF Bytes
<1> QED
  BY <1>1, <1>2, <1>3, <1>4 DEF CacheOK, Within

\* set_fetch_backoff only changes an age.
LEMMA BackoffKeeps ==
    ASSUME NEW c, CacheOK(c), NEW i
    PROVE  CacheOK(set_fetch_backoff(c, i)) /\ Within(set_fetch_backoff(c, i), c)
<1>1. CASE i \in DOMAIN c.details
  <2> DEFINE f == [c.details EXCEPT ![i].age = BackoffAge]
  <2>1. set_fetch_backoff(c, i) = [c EXCEPT !.details = f]
    BY <1>1 DEF set_fetch_backoff
  <2>2. DOMAIN f = DOMAIN c.details
    OBVIOUS
  <2>3. ASSUME NEW j \in DOMAIN c.details
        PROVE  /\ f[j] \in Entry
               /\ f[j].value = c.details[j].value
               /\ f[j].from_disk = c.details[j].from_disk
    BY CacheAssumption DEF CacheOK, Entry
  <2> HIDE DEF f
  <2> QED
    BY <2>1, <2>2, <2>3, SameEntries
<1>2. CASE i \notin DOMAIN c.details
  BY <1>2 DEF set_fetch_backoff, Within
<1> QED
  BY <1>1, <1>2

\* The passing of time only changes ages.
LEMMA ElapseKeeps ==
    ASSUME NEW c, CacheOK(c)
    PROVE  CacheOK(Elapse(c)) /\ Within(Elapse(c), c)
<1> DEFINE f == [i \in DOMAIN c.details |-> Older(c.details[i])]
<1>1. Elapse(c) = [c EXCEPT !.details = f]
  BY DEF Elapse
<1>2. ASSUME NEW j \in DOMAIN f
      PROVE  /\ f[j] \in Entry
             /\ f[j].value = c.details[j].value
             /\ f[j].from_disk = c.details[j].from_disk
  BY CacheAssumption DEF CacheOK, Entry, Older
<1>3. DOMAIN f = DOMAIN c.details
  OBVIOUS
<1> HIDE DEF f
<1> QED
  BY <1>1, <1>2, <1>3, SameEntries

\* invalidate_all leaves a cache that is exact, and empty.
LEMMA EmptyOK == CacheOK(EmptyCache) /\ DOMAIN EmptyCache.details = {}
<1> DEFINE f == [i \in {} |-> {}]
<1>1. DOMAIN f = {}
  OBVIOUS
<1>2. EmptyCache = CacheOf(f)
  BY DEF EmptyCache
<1> HIDE DEF f
<1>3. EmptyCache = [details |-> f, roles_index |-> RolesIndex(f),
                    disk_stale_count |-> Cardinality(FromDisk(f)),
                    total_bytes |-> Bytes(f)]
  BY <1>2 DEF CacheOf
<1>4. MaxEntries > 0 => Cardinality(DOMAIN f) <= MaxEntries
  BY <1>1, FS_EmptySet, CacheAssumption
<1> QED
  BY <1>1, <1>3, <1>4 DEF CacheOK

\* load_from_disk leaves a cache that is exact, with the values saved.
LEMMA LoadedOK ==
    ASSUME NEW v \in Values, NEW c, Loaded(c, v)
    PROVE  CacheOK(c) /\ \A i \in DOMAIN c.details : c.details[i].value = v
<1>1. PICK S \in SUBSET Ids, a \in {0, MaxAge}, t \in TTLs :
           /\ c = CacheOf([i \in S |-> [value |-> v, age |-> a, ttl |-> t,
                                       from_disk |-> TRUE]])
           /\ MaxEntries > 0 => Cardinality(DOMAIN c.details) <= MaxEntries
  BY DEF Loaded
<1> DEFINE f == [i \in S |-> [value |-> v, age |-> a, ttl |-> t,
                             from_disk |-> TRUE]]
<1>2. \A i \in S : f[i] \in Entry /\ f[i].value = v
  BY CacheAssumption DEF Entry
<1>3. DOMAIN f = S
  OBVIOUS
<1> HIDE DEF f
<1>5. c = CacheOf(f)
  BY <1>1 DEF f
<1>6. c = [details |-> f, roles_index |-> RolesIndex(f),
           disk_stale_count |-> Cardinality(FromDisk(f)),
           total_bytes |-> Bytes(f)]
  BY <1>5 DEF CacheOf
<1>7. c.details = f /\ DOMAIN c.details = S
  BY <1>3, <1>6
<1>8. CacheOK(c)
  <2>1. /\ c.roles_index = RolesIndex(c.details)
        /\ c.disk_stale_count = Cardinality(FromDisk(c.details))
        /\ c.total_bytes = Bytes(c.details)
        /\ c = [details |-> c.details, roles_index |-> c.roles_index,
                disk_stale_count |-> c.disk_stale_count,
                total_bytes |-> c.total_bytes]
    BY <1>6
  <2>2. /\ DOMAIN c.details \subseteq Ids
        /\ \A i \in DOMAIN c.details : c.details[i] \in Entry
    BY <1>2, <1>7
  <2>3. MaxEntries > 0 => Cardinality(DOMAIN c.details) <= MaxEntries
    BY <1>1
  <2> QED
    BY ONLY <2>1, <2>2, <2>3 DEF CacheOK
<1> QED
  BY <1>2, <1>7, <1>8

-----------------------------------------------------------------------------
\* What the portal has written, ISE has.
WorldOK ==
    /\ ise \in [Ids -> 0..Gone]
    /\ network \in {"up", "down", "settled"}
    /\ written \in [Ids -> 0..Gone]
    /\ overtaken \in [Ids -> BOOLEAN]
    /\ \A i \in Ids : written[i] <= ise[i]

\* A write whose response is on its way has reached ISE.
UserOK ==
    /\ user \in [Users -> Request]
    /\ \A u \in Users :
          /\ user[u].pc # "idle" => user[u].id \in Ids /\ user[u].job # "none"
          /\ user[u].pc = "applied" => user[u].val <= ise[user[u].id]

\* The fetch f of endpoint i brings an old answer only if it was overtaken.
LateOK(f, i) == f.pc = "answered" /\ f.val < written[i] => overtaken[i]

\* So it is with every fetch that is out.
FetchOK ==
    /\ inflight \in [Ids -> Fetch]
    /\ direct \in [Workers -> [Ids -> Fetch]]
    /\ \A i \in Ids : LateOK(inflight[i], i)
    /\ \A w \in Workers, i \in Ids : LateOK(direct[w][i], i)

\* The inductive invariant.
IInv ==
    /\ WorldOK
    /\ UserOK
    /\ FetchOK
    /\ CacheOK(cache)
    /\ OldOnlyIfOvertaken

\* The special versions, and the types of the constant records.
LEMMA Bounds ==
    /\ MaxVersion \in Nat /\ Gone \in Nat /\ Lost \in Nat
    /\ Gone = MaxVersion + 1 /\ Lost = MaxVersion + 2
    /\ Values = 0..MaxVersion
    /\ NoFetch \in Fetch /\ Asked \in Fetch
    /\ NoFetch.pc = "none" /\ Asked.pc = "asked"
    /\ NoRequest \in Request /\ NoRequest.pc = "idle"
  BY SyncAssumption DEF Gone, Lost, NoFetch, Asked, Fetch, NoRequest, Request

\* IInv holds of a portal that has just started.
LEMMA InitInv == Init => IInv
<1> SUFFICES ASSUME Init PROVE IInv
  OBVIOUS
<1>1. WorldOK
  BY Bounds DEF Init, WorldOK
<1>2. UserOK
  BY Bounds DEF Init, UserOK
<1>3. FetchOK
  BY Bounds DEF Init, FetchOK, LateOK
<1>4. CacheOK(cache) /\ \A i \in Cached : cache.details[i].value = 0
  BY LoadedOK, Bounds DEF Init, Cached
<1>5. OldOnlyIfOvertaken
  <2> SUFFICES ASSUME NEW i \in Cached PROVE ~(cache.details[i].value < written[i])
    BY DEF OldOnlyIfOvertaken
  <2>1. i \in Ids
    BY <1>4 DEF CacheOK, Cached
  <2> QED
    BY <1>4, <2>1 DEF Init
<1> QED
  BY <1>1, <1>2, <1>3, <1>4, <1>5 DEF IInv

\* What get_endpoint returns keeps the requests well-typed.
LEMMA ReturnOK ==
    ASSUME IInv, UNCHANGED ise, NEW u \in Users, NEW i \in Ids,
           NEW job \in {"view", "edit", "update", "status", "delete", "audit"},
           NEW how \in {"hit", "disk", "stale", "fetched", "fallback", "error"},
           NEW val \in 0..Lost,
           Return(u, i, job, how, val)
    PROVE  UserOK'
<1>1. PICK x \in Request : /\ user' = [user EXCEPT ![u] = x]
                           /\ x.pc \in {"idle", "put"}
                           /\ x.pc = "put" => x.id \in Ids /\ x.job # "none"
  <2>1. CASE job \in {"view", "edit"}
    <3> DEFINE bad == how # "error" /\ i \in Cached
                         /\ cache.details[i].from_disk
               x == [pc |-> "idle", job |-> job, id |-> i, how |-> how,
                     val |-> val, badge |-> bad]
    <3>1. user' = [user EXCEPT ![u] = x]
      BY <2>1 DEF Return, NoRequest
    <3>2. bad \in BOOLEAN
      OBVIOUS
    <3> HIDE DEF bad
    <3>3. x \in Request
      BY <3>2 DEF Request
    <3> QED
      BY <3>1, <3>3
  <2>2. CASE job \in {"update", "status", "delete"}
    <3> DEFINE x == [pc |-> "put", job |-> job, id |-> i, how |-> "none",
                     val |-> 0, badge |-> FALSE]
    <3>1. user' = [user EXCEPT ![u] = x]
      BY <2>2 DEF Return, NoRequest
    <3>2. x \in Request
      BY <2>2, Bounds DEF Request
    <3> QED
      BY <2>2, <3>1, <3>2
  <2>3. CASE job = "audit"
    <3>1. user' = [user EXCEPT ![u] = NoRequest]
      BY <2>3 DEF Return
    <3> QED
      BY <3>1, Bounds
  <2> QED
    BY <2>1, <2>2, <2>3
<1> QED
  BY <1>1 DEF IInv, UserOK

\* What Spawn does to the shared fetches.
LEMMA SpawnOK ==
    ASSUME IInv, UNCHANGED <<written, overtaken, direct>>, NEW i \in Ids,
           Spawn(i) \/ UNCHANGED inflight
    PROVE  FetchOK'
<1>1. inflight' \in [Ids -> Fetch]
  BY Bounds DEF Spawn, IInv, FetchOK
<1>2. \A j \in Ids : inflight'[j] = inflight[j] \/ inflight'[j] = Asked
  BY DEF Spawn, IInv, FetchOK
<1> QED
  BY <1>1, <1>2, Bounds DEF IInv, FetchOK, LateOK

\* A read keeps the invariant.
LEMMA ReadKeeps ==
    ASSUME IInv, UNCHANGED <<ise, network, cache, direct, written, overtaken>>,
           NEW u \in Users, NEW i \in Ids,
           NEW job \in {"view", "edit", "update", "status", "delete", "audit"},
           Read(u, i, job)
    PROVE  IInv'
<1>1. Spawn(i) \/ UNCHANGED inflight
  BY DEF Read
<1>2. FetchOK'
  BY <1>1, SpawnOK
<1>3. UserOK'
  <2> DEFINE e == cache.details[i]
             usable == i \in Cached /\ job # "edit"
  <2>1. usable => e.value \in 0..Lost
    BY Bounds DEF IInv, CacheOK, Entry, Cached
  <2>2. ASSUME usable,
               NEW how \in {"hit", "disk", "stale"},
               Return(u, i, job, how, e.value)
        PROVE  UserOK'
    <3>1. e.value \in 0..Lost
      BY <2>1, <2>2
    <3> HIDE DEF e
    <3> QED
      BY <2>2, <3>1, ReturnOK
  <2>3. ASSUME user' = [user EXCEPT ![u] = [NoRequest EXCEPT
                           !.pc = "wait", !.job = job, !.id = i]]
        PROVE  UserOK'
    BY <2>3, Bounds DEF IInv, UserOK, NoRequest, Request
  <2> QED
    BY <2>2, <2>3 DEF Read
<1>4. WorldOK' /\ CacheOK(cache)' /\ OldOnlyIfOvertaken'
  BY DEF IInv, WorldOK, OldOnlyIfOvertaken, Cached
<1> QED
  BY <1>2, <1>3, <1>4 DEF IInv

\* A step that brings no entry in keeps OldOnlyIfOvertaken.
LEMMA WithinKeeps ==
    ASSUME OldOnlyIfOvertaken, Within(cache', cache),
           UNCHANGED <<written, overtaken>>
    PROVE  OldOnlyIfOvertaken'
  BY DEF OldOnlyIfOvertaken, Within, Cached

\* A step that only loses entries, or changes their age, keeps the invariant.
LEMMA CacheStep ==
    ASSUME IInv, CacheOK(cache'), Within(cache', cache),
           UNCHANGED <<ise, network, inflight, direct, user, written,
                       overtaken>>
    PROVE  IInv'
<1>1. OldOnlyIfOvertaken'
  BY WithinKeeps DEF IInv
<1>2. WorldOK' /\ UserOK' /\ FetchOK'
  BY DEF IInv, WorldOK, UserOK, FetchOK, LateOK
<1> QED
  BY <1>1, <1>2 DEF IInv

\* What ISE answers is never older than what the portal has written.
LEMMA ReplyIsNew ==
    ASSUME IInv, NEW i \in Ids
    PROVE  /\ [pc |-> "answered", val |-> Reply(i)] \in Fetch
           /\ ~(Reply(i) < written[i])
  BY Bounds DEF IInv, WorldOK, Reply, Fetch

\* A waiter that is served, from the fetch or from the fallback, keeps IInv.
LEMMA WakeKeeps == ASSUME IInv, NEW u \in Users, Wake(u) PROVE IInv'
<1> DEFINE r == user[u]
<1>1. /\ r \in Request /\ r.pc = "wake" /\ r.id \in Ids
  BY DEF Wake, IInv, UserOK
<1>2. r.val \in 0..Lost 
  BY <1>1 DEF Request
<1>3. UserOK'
  <2>1. PICK how \in {"fetched", "fallback", "error"}, val \in 0..Lost :
             Return(u, r.id, r.job, how, val)
    <3>1. r.id \in Cached => cache.details[r.id].value \in 0..Lost
      BY Bounds DEF IInv, CacheOK, Entry, Cached
    <3> QED
      BY <1>2, <3>1 DEF Wake
  <2>2. CASE r.job \in {"view", "edit", "update", "status", "delete", "audit"}
    <3> HIDE DEF r
    <3> QED
      BY <1>1, <1>2, <2>1, <2>2, ReturnOK DEF Wake
  <2>3. r.job # "none"
    BY <1>1 DEF IInv, UserOK
  <2> QED
    BY <1>1, <2>2, <2>3 DEF Request
<1>4. FetchOK' /\ WorldOK' /\ CacheOK(cache)' /\ OldOnlyIfOvertaken'
  BY DEF Wake, IInv, WorldOK, FetchOK, LateOK, OldOnlyIfOvertaken, Cached
<1> QED
  BY <1>3, <1>4 DEF IInv

\* An answer to a shared fetch keeps IInv: ISE reads the endpoint only now.
LEMMA AnswerTaskKeeps == ASSUME IInv, NEW i \in Ids, AnswerTask(i) PROVE IInv'
<1> DEFINE f == [pc |-> "answered", val |-> Reply(i)]
<1>1. f \in Fetch /\ LateOK(f, i)
  BY ReplyIsNew DEF LateOK
<1> HIDE DEF f
<1>2. inflight' = [inflight EXCEPT ![i] = f]
  BY DEF AnswerTask, f
<1>3. FetchOK'
  BY <1>1, <1>2 DEF AnswerTask, IInv, FetchOK, LateOK
<1>4. UserOK' /\ WorldOK' /\ CacheOK(cache)' /\ OldOnlyIfOvertaken'
  BY DEF AnswerTask, IInv, WorldOK, UserOK, OldOnlyIfOvertaken, Cached
<1> QED
  BY <1>3, <1>4 DEF IInv

\* So does an answer to a background worker.
LEMMA AnswerDirectKeeps ==
    ASSUME IInv, NEW w \in Workers, NEW i \in Ids, AnswerDirect(w, i) PROVE IInv'
<1> DEFINE f == [pc |-> "answered", val |-> Reply(i)]
<1>1. f \in Fetch /\ LateOK(f, i)
  BY ReplyIsNew DEF LateOK
<1> HIDE DEF f
<1>2. direct' = [direct EXCEPT ![w][i] = f]
  BY DEF AnswerDirect, f
<1>3. FetchOK'
  BY <1>1, <1>2 DEF AnswerDirect, IInv, FetchOK, LateOK
<1>4. UserOK' /\ WorldOK' /\ CacheOK(cache)' /\ OldOnlyIfOvertaken'
  BY DEF AnswerDirect, IInv, WorldOK, UserOK, OldOnlyIfOvertaken, Cached
<1> QED
  BY <1>3, <1>4 DEF IInv

\* An answer that is put into the cache is old only if it was overtaken.
LEMMA PutStep ==
    ASSUME IInv, NEW i \in Ids, NEW v \in Values,
           cache' \in put_detail(cache, i, v), v < written[i] => overtaken[i],
           UNCHANGED <<written, overtaken>>
    PROVE  CacheOK(cache)' /\ OldOnlyIfOvertaken'
<1>1. CacheOK(cache)
  BY DEF IInv
<1>2. /\ CacheOK(cache')
      /\ i \in DOMAIN cache'.details
      /\ cache'.details[i].value = v
      /\ \A j \in DOMAIN cache'.details \ {i} :
            /\ j \in DOMAIN cache.details
            /\ cache'.details[j] = cache.details[j]
  BY <1>1, PutKeeps
<1>3. OldOnlyIfOvertaken'
  <2> SUFFICES ASSUME NEW j \in DOMAIN cache'.details,
                      cache'.details[j].value < written[j]
               PROVE  overtaken[j]
    BY DEF OldOnlyIfOvertaken, Cached
  <2>1. CASE j = i
    BY <1>2, <2>1
  <2>2. CASE j # i
    BY <1>2, <2>2 DEF IInv, OldOnlyIfOvertaken, Cached
  <2> QED
    BY <2>1, <2>2
<1> QED
  BY <1>2, <1>3

\* The end of a shared fetch keeps IInv.
LEMMA DeliverTaskKeeps == ASSUME IInv, NEW i \in Ids, DeliverTask(i) PROVE IInv'
<1> DEFINE v == inflight[i].val
<1>1. v \in 0..Lost /\ (v < written[i] => overtaken[i])
  BY DEF DeliverTask, IInv, FetchOK, LateOK, Fetch
<1>2. CacheOK(cache)' /\ OldOnlyIfOvertaken'
  <2>1. CASE v \in Values
    <3>1. cache' \in put_detail(cache, i, v)
      BY <2>1 DEF DeliverTask
    <3>2. UNCHANGED <<written, overtaken>>
      BY DEF DeliverTask
    <3> HIDE DEF v
    <3> QED
      BY <1>1, <2>1, <3>1, <3>2, PutStep
  <2>2. CASE v \notin Values
    BY <2>2 DEF DeliverTask, IInv, OldOnlyIfOvertaken, Cached
  <2> QED
    BY <2>1, <2>2
<1>3. FetchOK'
  <2>1. inflight' = [inflight EXCEPT ![i] = NoFetch]
    BY DEF DeliverTask
  <2> QED
    BY <2>1, Bounds DEF DeliverTask, IInv, FetchOK, LateOK
<1>4. UserOK'
  <2>1. ASSUME NEW u \in Users
        PROVE  /\ user'[u] \in Request
               /\ user'[u].pc # "idle"
                    => user'[u].id \in Ids /\ user'[u].job # "none"
               /\ user'[u].pc = "applied" => user'[u].val <= ise[user'[u].id]
    BY <1>1 DEF DeliverTask, IInv, UserOK, Request
  <2>2. user' = [u \in Users |-> user'[u]] /\ UNCHANGED ise
    BY DEF DeliverTask
  <2> QED
    BY <2>1, <2>2 DEF UserOK
<1>5. WorldOK'
  BY DEF DeliverTask, IInv, WorldOK
<1> QED
  BY <1>2, <1>3, <1>4, <1>5 DEF IInv

\* The end of a worker's fetch, whether it put, postponed or dropped the entry,
\* keeps IInv.
LEMMA DeliverDirectKeeps ==
    ASSUME IInv, NEW w \in Workers, NEW i \in Ids, DeliverDirect(w, i)
    PROVE  IInv'
<1> DEFINE v == direct[w][i].val
<1>1. v \in 0..Lost /\ (v < written[i] => overtaken[i])
  BY DEF DeliverDirect, IInv, FetchOK, LateOK, Fetch
<1>2. UNCHANGED <<ise, network, inflight, user, written, overtaken>>
  BY DEF DeliverDirect
<1>3. CacheOK(cache)' /\ OldOnlyIfOvertaken'
  <2>1. CASE v \in Values
    <3>1. cache' \in put_detail(cache, i, v)
      BY <2>1 DEF DeliverDirect
    <3> HIDE DEF v
    <3> QED
      BY <1>1, <1>2, <2>1, <3>1, PutStep
  <2>2. CASE v \notin Values
    <3>1. cache' = OnFailure(w, i)
      BY <2>2 DEF DeliverDirect
    <3>2. CacheOK(cache)
      BY DEF IInv
    <3>3. CacheOK(cache') /\ Within(cache', cache)
      BY <3>1, <3>2, BackoffKeeps, InvalidateKeeps DEF OnFailure
    <3> QED
      BY <1>2, <3>3, WithinKeeps DEF IInv
  <2> QED
    BY <2>1, <2>2
<1>4. FetchOK'
  <2>1. direct' = [direct EXCEPT ![w][i] = NoFetch]
    BY DEF DeliverDirect
  <2> QED
    BY <1>2, <2>1, Bounds DEF IInv, FetchOK, LateOK
<1>5. UserOK' /\ WorldOK'
  BY <1>2 DEF IInv, WorldOK, UserOK
<1> QED
  BY <1>3, <1>4, <1>5 DEF IInv

\* A round of a worker only asks.
LEMMA AskKeeps == ASSUME IInv, NEW w \in Workers, NEW S, Ask(w, S) PROVE IInv'
<1>1. \A x \in Workers, j \in Ids :
          direct'[x][j] \in {direct[x][j], Asked, NoFetch}
  BY DEF Ask, IInv, FetchOK
<1>2. direct' \in [Workers -> [Ids -> Fetch]]
  BY Bounds DEF Ask, IInv, FetchOK
<1>3. FetchOK'
  BY <1>1, <1>2, Bounds DEF Ask, IInv, FetchOK, LateOK
<1>4. UserOK' /\ WorldOK' /\ CacheOK(cache)' /\ OldOnlyIfOvertaken'
  BY DEF Ask, IInv, WorldOK, UserOK, OldOnlyIfOvertaken, Cached
<1> QED
  BY <1>3, <1>4 DEF IInv

\* A write that reaches ISE, or fails, keeps IInv: versions only grow.
LEMMA PutStepKeeps == ASSUME IInv, NEW u \in Users, Put(u) PROVE IInv'
<1> DEFINE r == user[u]
           i == r.id
           v == IF r.job = "delete" THEN Gone ELSE ise[i] + 1
<1>1. /\ r \in Request /\ r.pc = "put" /\ i \in Ids /\ r.job # "none"
      /\ UNCHANGED <<network, cache, inflight, direct, written, overtaken>>
  BY DEF Put, IInv, UserOK
<1>2. FetchOK' /\ CacheOK(cache)' /\ OldOnlyIfOvertaken'
  BY <1>1 DEF IInv, FetchOK, LateOK, OldOnlyIfOvertaken, Cached
<1>3. CASE /\ ise[i] # Gone
           /\ (v <= MaxVersion \/ r.job = "delete")
           /\ ise' = [ise EXCEPT ![i] = v]
           /\ user' = [user EXCEPT ![u] = [NoRequest EXCEPT
                           !.pc = "applied", !.job = r.job, !.id = i, !.val = v]]
  <2>1. v \in 0..Gone /\ v >= ise[i]
    BY <1>1, <1>3, Bounds DEF IInv, WorldOK
  <2>2. v \in 0..Lost
    BY <2>1, Bounds
  <2>3. r.job \in {"view", "edit", "update", "status", "delete", "audit"}
    BY <1>1 DEF Request
  <2> HIDE DEF v, i
  <2>4. /\ ise' = [ise EXCEPT ![i] = v]
        /\ user' = [user EXCEPT ![u] = [NoRequest EXCEPT
                        !.pc = "applied", !.job = r.job, !.id = i, !.val = v]]
    BY <1>3
  <2>5. WorldOK'
    BY <1>1, <2>1, <2>4, Bounds DEF IInv, WorldOK
  <2>6. \A j \in Ids : ise'[j] >= ise[j] /\ ise'[i] = v
    BY <1>1, <2>1, <2>4, Bounds DEF IInv, WorldOK
  <2>7. user' \in [Users -> Request]
    BY <1>1, <2>2, <2>3, <2>4, Bounds DEF IInv, UserOK, NoRequest, Request
  <2>8. /\ user'[u].id = i /\ user'[u].job = r.job /\ user'[u].val = v
        /\ \A x \in Users \ {u} : user'[x] = user[x]
    BY <2>4 DEF IInv, UserOK, NoRequest
  <2>9. UserOK'
    <3> SUFFICES ASSUME NEW x \in Users
                 PROVE  /\ user'[x].pc # "idle"
                             => user'[x].id \in Ids /\ user'[x].job # "none"
                        /\ user'[x].pc = "applied"
                             => user'[x].val <= ise'[user'[x].id]
      BY <2>7 DEF UserOK
    <3>1. CASE x = u
      BY <1>1, <2>1, <2>6, <2>8, <3>1, Bounds
    <3>2. CASE x # u
      <4>1. /\ user[x].pc # "idle" => user[x].id \in Ids /\ user[x].job # "none"
            /\ user[x].pc = "applied" => user[x].val <= ise[user[x].id]
            /\ user[x].val \in 0..Lost
            /\ ise \in [Ids -> 0..Gone] /\ ise' \in [Ids -> 0..Gone]
        BY <2>5 DEF IInv, UserOK, Request, WorldOK
      <4>2. user'[x] = user[x]
        BY <2>8, <3>2
      <4> QED
        BY <2>6, <4>1, <4>2, Bounds
    <3> QED
      BY <3>1, <3>2
  <2> QED
    BY <1>2, <2>5, <2>9 DEF IInv
<1>4. CASE user' = [user EXCEPT ![u] = NoRequest] /\ UNCHANGED ise
  <2>1. UserOK' /\ WorldOK'
    BY <1>1, <1>4, Bounds DEF IInv, UserOK, WorldOK
  <2> QED
    BY <1>2, <2>1 DEF IInv
<1> QED
  BY <1>3, <1>4 DEF Put

\* A write that invalidates leaves only answers behind that overtaken tells of.
LEMMA WrittenKeeps == ASSUME IInv, NEW u \in Users, Written(u) PROVE IInv'
<1> DEFINE r == user[u]
           i == r.id
           v == IF r.val > written[i] THEN r.val ELSE written[i]
<1>1. /\ r \in Request /\ r.pc = "applied" /\ i \in Ids /\ r.val <= ise[i]
      /\ UNCHANGED <<ise, network, inflight, direct>>
  BY DEF Written, IInv, UserOK
<1>2. v \in 0..Gone /\ v >= written[i] /\ v <= ise[i]
  BY <1>1, Bounds DEF IInv, WorldOK, Request
<1>3. /\ cache' = invalidate_detail(cache, i)
      /\ written' = [written EXCEPT ![i] = v]
      /\ overtaken' = [overtaken EXCEPT ![i] = OlderAnswers(i, v)]
  BY DEF Written
<1>4. UserOK'
  <2>1. user' = [user EXCEPT ![u] =
                   IF r.job = "update"
                   THEN [NoRequest EXCEPT !.pc = "audit", !.job = "audit",
                                          !.id = i]
                   ELSE NoRequest]
    BY DEF Written
  <2> QED
    BY <1>1, <2>1, Bounds DEF IInv, UserOK, NoRequest, Request
<1> HIDE DEF v
<1>5. written'[i] = v /\ overtaken'[i] = OlderAnswers(i, v)
  BY <1>1, <1>3 DEF IInv, WorldOK
<1>6. \A j \in Ids \ {i} : written'[j] = written[j] /\ overtaken'[j] = overtaken[j]
  BY <1>3 DEF IInv, WorldOK
<1>7. WorldOK'
  <2>1. OlderAnswers(i, v) \in BOOLEAN
    BY DEF OlderAnswers
  <2> QED
    BY <1>1, <1>2, <1>3, <2>1 DEF IInv, WorldOK
<1>8. FetchOK'
  <2> SUFFICES ASSUME NEW j \in Ids,
                      NEW f \in {inflight[j]} \cup {direct[w][j] : w \in Workers},
                      f.pc = "answered", f.val < written'[j]
               PROVE  overtaken'[j]
    BY <1>1 DEF IInv, FetchOK, LateOK
  <2>1. CASE j = i
    BY <1>5, <2>1 DEF OlderAnswers
  <2>2. CASE j # i
    BY <1>6, <2>2 DEF IInv, FetchOK, LateOK
  <2> QED
    BY <2>1, <2>2
<1>9. CacheOK(cache)' /\ Within(cache', cache) /\ i \notin DOMAIN cache'.details
  BY <1>3, InvalidateKeeps DEF IInv
<1>10. OldOnlyIfOvertaken'
  <2> SUFFICES ASSUME NEW j \in DOMAIN cache'.details,
                      cache'.details[j].value < written'[j]
               PROVE  overtaken'[j]
    BY DEF OldOnlyIfOvertaken, Cached
  <2>1. j \in Ids \ {i}
    BY <1>9 DEF CacheOK
  <2> QED
    BY <1>6, <1>9, <2>1 DEF IInv, OldOnlyIfOvertaken, Within, Cached
<1> QED
  BY <1>4, <1>7, <1>8, <1>9, <1>10 DEF IInv

\* A write whose response is lost keeps IInv: it does not count as written.
LEMMA WriteLostKeeps == ASSUME IInv, NEW u \in Users, WriteLost(u) PROVE IInv'
<1>1. UserOK'
  BY Bounds DEF WriteLost, IInv, UserOK
<1> QED
  BY <1>1 DEF WriteLost, IInv, WorldOK, FetchOK, LateOK, OldOnlyIfOvertaken,
              Cached

\* A change made by somebody else keeps IInv: versions only grow.
LEMMA IseChangesKeeps == ASSUME IInv, NEW i \in Ids, IseChanges(i) PROVE IInv'
<1>1. /\ ise' \in [Ids -> 0..Gone]
      /\ \A j \in Ids : ise'[j] >= ise[j]
      /\ UNCHANGED <<network, cache, inflight, direct, user, written, overtaken>>
  <2>1. /\ ise \in [Ids -> 0..Gone] /\ ise[i] < MaxVersion
        /\ \/ ise' = [ise EXCEPT ![i] = ise[i] + 1]
           \/ ise' = [ise EXCEPT ![i] = Gone]
        /\ UNCHANGED <<network, cache, inflight, direct, user, written,
                       overtaken>>
    BY DEF IseChanges, IInv, WorldOK
  <2>2. /\ ise[i] + 1 \in 0..Gone /\ ise[i] + 1 >= ise[i]
        /\ Gone \in 0..Gone /\ Gone >= ise[i]
        /\ \A j \in Ids : ise[j] >= ise[j]
    BY <2>1, Bounds
  <2> QED
    BY <2>1, <2>2
<1>2. WorldOK'
  BY <1>1, Bounds DEF IInv, WorldOK
<1>3. UserOK'
  <2> SUFFICES ASSUME NEW x \in Users, user[x].pc = "applied"
               PROVE  user[x].val <= ise'[user[x].id]
    BY <1>1 DEF IInv, UserOK
  <2>1. /\ user[x].id \in Ids /\ user[x].val <= ise[user[x].id]
        /\ user[x].val \in 0..Lost /\ ise \in [Ids -> 0..Gone]
    BY DEF IInv, UserOK, Request, WorldOK
  <2> QED
    BY <1>1, <2>1, Bounds
<1>4. FetchOK' /\ CacheOK(cache)' /\ OldOnlyIfOvertaken'
  BY <1>1 DEF IInv, FetchOK, LateOK, OldOnlyIfOvertaken, Cached
<1> QED
  BY <1>2, <1>3, <1>4 DEF IInv

\* Every step keeps IInv.
LEMMA NextInv == IInv /\ [Next]_vars => IInv'
<1> SUFFICES ASSUME IInv, [Next]_vars PROVE IInv'
  OBVIOUS
<1>0. CacheOK(cache)
  BY DEF IInv
<1>1. ASSUME NEW u \in Users, NEW i \in Ids, NEW job \in Jobs, Begin(u, i, job)
      PROVE  IInv'
  BY <1>1, ReadKeeps, SyncAssumption DEF Begin
<1>2. ASSUME NEW u \in Users, AuditAfter(u) PROVE IInv'
  <2>1. user[u].id \in Ids
    BY <1>2 DEF AuditAfter, IInv, UserOK
  <2> QED
    BY <1>2, <2>1, ReadKeeps DEF AuditAfter
<1>3. ASSUME NEW u \in Users, Wake(u) \/ Put(u) \/ Written(u) \/ WriteLost(u)
      PROVE  IInv'
  BY <1>3, WakeKeeps, PutStepKeeps, WrittenKeeps, WriteLostKeeps
<1>4. ASSUME NEW i \in Ids, AnswerTask(i) \/ DeliverTask(i) \/ IseChanges(i)
      PROVE  IInv'
  BY <1>4, AnswerTaskKeeps, DeliverTaskKeeps, IseChangesKeeps
<1>5. CASE DripRound \/ SyncRound
  BY <1>5, AskKeeps DEF DripRound, SyncRound
<1>6. ASSUME NEW w \in Workers, NEW i \in Ids,
             AnswerDirect(w, i) \/ DeliverDirect(w, i)
      PROVE  IInv'
  BY <1>6, AnswerDirectKeeps, DeliverDirectKeeps
<1>7. ASSUME NEW i \in Ids, EndpointEvent(i) PROVE IInv'
  BY <1>0, <1>7, InvalidateKeeps, CacheStep DEF EndpointEvent
<1>8. CASE Flush
  <2>1. CacheOK(cache') /\ Within(cache', cache)
    BY <1>8, EmptyOK DEF Flush, invalidate_all, Within
  <2> QED
    BY <1>8, <2>1, CacheStep DEF Flush
<1>9. CASE Tick
  BY <1>0, <1>9, ElapseKeeps, CacheStep DEF Tick
<1>10. CASE NetworkChanges
  BY <1>10 DEF NetworkChanges, IInv, WorldOK, UserOK, FetchOK, LateOK,
               OldOnlyIfOvertaken, Cached
<1>11. CASE UNCHANGED vars
  BY <1>11 DEF vars, IInv, WorldOK, UserOK, FetchOK, LateOK,
               OldOnlyIfOvertaken, Cached
<1> QED
  BY <1>1, <1>2, <1>3, <1>4, <1>5, <1>6, <1>7, <1>8, <1>9, <1>10, <1>11 DEF Next

\* IInv holds throughout, whatever requests, workers, ISE and the network do.
THEOREM InductiveInvariant == Spec => []IInv
  BY InitInv, NextInv, PTL DEF Spec

\* Every variable keeps its type; in particular no age is negative or beyond
\* MaxAge, and no request in progress is without its endpoint.
THEOREM TypeCorrect == Spec => []TypeOK
<1>1. IInv => TypeOK
  BY DEF IInv, WorldOK, UserOK, FetchOK, CacheOK, TypeOK, Cached
<1> QED
  BY <1>1, InductiveInvariant, PTL

\* The roles index, by which users are shown endpoints, always agrees with the
\* entries, through every put, refresh, eviction, invalidation and flush.
THEOREM RolesIndexIsExact == Spec => []RolesIndexExact
<1>1. IInv => RolesIndexExact
  BY DEF IInv, CacheOK, RolesIndexExact
<1> QED
  BY <1>1, InductiveInvariant, PTL

\* disk_stale_count is always the number of entries from disk.
THEOREM DiskCountIsExact == Spec => []DiskCountExact
<1>1. IInv => DiskCountExact
  BY DEF IInv, CacheOK, DiskCountExact
<1> QED
  BY <1>1, InductiveInvariant, PTL

\* The total of bytes, by which the cache evicts, is always the sum of its
\* entries' sizes, through every put, refresh, eviction, invalidation and flush.
THEOREM BytesAreExact == Spec => []BytesExact
<1>1. IInv => BytesExact
  BY DEF IInv, CacheOK, BytesExact
<1> QED
  BY <1>1, InductiveInvariant, PTL

\* The cache never holds more than cache_max_entries entries, although a
\* refresh by put_detail is not checked against the limit.
THEOREM EntriesAreBounded == Spec => []EntriesBounded
<1>1. IInv => EntriesBounded
  BY DEF IInv, CacheOK, EntriesBounded, Cached
<1> QED
  BY <1>1, InductiveInvariant, PTL

\* The roles index, the disk count and the entry limit together.
THEOREM AccountsAreExact == Spec => []AccountsExact
<1>1. RolesIndexExact /\ DiskCountExact /\ EntriesBounded => AccountsExact
  BY DEF AccountsExact
<1> QED
  BY <1>1, RolesIndexIsExact, DiskCountIsExact, EntriesAreBounded, PTL

\* After a write has invalidated its endpoint, an older version comes back only
\* by an answer that was out at that moment: by no fetch answered later, no
\* fallback, and no other path.
THEOREM OldEntriesWereOvertaken == Spec => []OldOnlyIfOvertaken
<1>1. IInv => OldOnlyIfOvertaken
  BY DEF IInv
<1> QED
  BY <1>1, InductiveInvariant, PTL

=============================================================================
