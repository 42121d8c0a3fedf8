----------------------------- MODULE MemoryPool -----------------------------
(***************************************************************************)
(* The cache of host buffers behind the allocator of a device (MemoryPool, *)
(* dg-core/src/memory.rs). A buffer that is given back is kept for the     *)
(* next allocation of the same size and alignment, within three limits.    *)
(* The cache is a row of buffers per key, the keys in the order in which   *)
(* their buffers came, and two counters; every operation holds its lock.   *)
(***************************************************************************)
EXTENDS Naturals, SequencesExt, FiniteSetsExt

CONSTANTS Keys,                 \* descriptors: <<size_bytes, align>>
          Buffers,              \* identities of buffers, a set of numbers
          MaxCachedBytes, MaxCachedEntries, MaxPerDescriptor     \* MemoryPoolConfig

ASSUME LimitsAssumption ==      \* MemoryPoolConfig::validate
    /\ MaxCachedBytes \in Nat \ {0} /\ MaxCachedEntries \in Nat \ {0} /\ MaxPerDescriptor \in Nat \ {0}
    /\ Keys # {} /\ (\A k \in Keys : k[1] \in Nat /\ k[2] \in Nat) /\ Buffers \subseteq Nat

VARIABLES cache,    \* PoolCache: [by_key, lru, entries, bytes]
          refs,     \* handles of a buffer that its users have; 0 if it is cached or free
          key,      \* the descriptor of a buffer
          age       \* the cached buffers, in the order in which they came back

poolVars == <<cache, refs, key, age>>

Size(k) == k[1]
InSlots(c) == UNION {ToSet(c.by_key[k]) : k \in Keys}

\* The buffers of a row that are in S, in their order.
Kept(row, S) ==
    LET first[n \in 0..Len(row)] ==
          IF n = 0 THEN <<>>
          ELSE IF row[n] \in S THEN Append(first[n - 1], row[n]) ELSE first[n - 1]
    IN  first[Len(row)]

\* The bytes that buffers of these keys have together.
BytesOf(keys) ==
    LET first[n \in 0..Len(keys)] == IF n = 0 THEN 0 ELSE first[n - 1] + Size(keys[n])
    IN  first[Len(keys)]

PoolInit == /\ cache = [by_key |-> [k \in Keys |-> <<>>], lru |-> <<>>, entries |-> 0, bytes |-> 0]
            /\ refs = [b \in Buffers |-> 0] /\ key \in [Buffers -> {CHOOSE k \in Keys : TRUE}]
            /\ age = <<>>

Forget(c, k, slot, at) ==
    [by_key |-> [c.by_key EXCEPT ![k] = slot], lru |-> RemoveAt(c.lru, at),
     entries |-> c.entries - 1, bytes |-> c.bytes - Size(k)]

Remember(c, k, b) ==
    [by_key |-> [c.by_key EXCEPT ![k] = Append(@, b)], lru |-> Append(c.lru, k),
     entries |-> c.entries + 1, bytes |-> c.bytes + Size(k)]

\* Mutant: the first place of the key in the list goes, not the last.
take_cached_First(c, k) ==
    Forget(c, k, Front(c.by_key[k]), Min({i \in DOMAIN c.lru : c.lru[i] = k}))

\* The youngest buffer of the key.
take_cached(c, k) ==
    Forget(c, k, Front(c.by_key[k]), Max({i \in DOMAIN c.lru : c.lru[i] = k}))

\* allocate: a cached buffer, or a new one, which may fail.
allocate(k) ==
    /\ IF cache.by_key[k] # <<>>
         THEN LET b == Last(cache.by_key[k]) IN
              /\ cache' = take_cached(cache, k) /\ refs' = [refs EXCEPT ![b] = 1]
              /\ age' = Kept(age, Buffers \ {b}) /\ UNCHANGED key
         ELSE LET unused == {b \in Buffers : refs[b] = 0 /\ b \notin InSlots(cache)} IN
              /\ unused # {}
              /\ refs' = [refs EXCEPT ![Min(unused)] = 1] /\ key' = [key EXCEPT ![Min(unused)] = k]
              /\ UNCHANGED <<cache, age>>

\* The oldest buffer of the key, for one too many of them.
evict_of_key(c, k) ==
    IF Len(c.by_key[k]) + 1 <= MaxPerDescriptor THEN c
    ELSE Forget(c, k, Tail(c.by_key[k]), Min({i \in DOMAIN c.lru : c.lru[i] = k}))

\* The oldest key of the list, and the oldest buffer of that key.
evict_one_locked(c) == Forget(c, Head(c.lru), Tail(c.by_key[Head(c.lru)]), 1)

Fits(c, size) == c.entries < MaxCachedEntries /\ c.bytes + size <= MaxCachedBytes

\* The cache after n rounds of the loop that makes room for a buffer of key k.
Evicted(c, k) ==
    LET after[n \in 0..Len(c.lru)] ==
          IF n = 0 THEN evict_of_key(c, k)
          ELSE IF after[n - 1].lru = <<>> THEN after[n - 1] ELSE evict_one_locked(after[n - 1])
    IN  after

\* push_cached: a buffer above the whole budget is not kept; otherwise older
\* ones go until there is room.
push_cached(c, b) ==
    LET k == key[b]
        enough == {n \in 0..Len(c.lru) : Fits(Evicted(c, k)[n], Size(k))}
        room   == Evicted(c, k)[Min(enough)]
    IN  IF Size(k) > MaxCachedBytes THEN c
        ELSE IF enough = {} THEN Evicted(c, k)[Len(c.lru)]
        ELSE Remember(room, k, b)

\* A handle of a buffer with other handles is dropped; the last one gives the
\* buffer to the cache.
deallocate(b) ==
    /\ refs[b] > 0 /\ refs' = [refs EXCEPT ![b] = @ - 1]
    /\ cache' = IF refs[b] = 1 THEN push_cached(cache, b) ELSE cache
    /\ age' = Kept(Append(age, b), InSlots(cache'))
    /\ UNCHANGED key

\* A user makes another handle of a buffer.
Clone(b) == /\ refs[b] = 1 /\ refs' = [refs EXCEPT ![b] = 2]
            /\ UNCHANGED <<cache, key, age>>

PoolNext == \/ \E k \in Keys : allocate(k)
            \/ \E b \in Buffers : deallocate(b) \/ Clone(b)

PoolSpec == PoolInit /\ [][PoolNext]_poolVars

(* However allocations and returns of buffers of all descriptors follow    *)
(* each other, the counters, the list of keys and the rows say the same:   *)
(* the rows together are the buffers that came back and are still cached,  *)
(* each row and the list in the order in which they came, so that the one  *)
(* evicted is the oldest; the limits of the configuration hold; and no     *)
(* cached buffer has a user (take_cached, push_cached, evict_one_locked).  *)
CacheAccounted ==
    /\ cache.lru = [i \in DOMAIN age |-> key[age[i]]]
    /\ \A k \in Keys : cache.by_key[k] = Kept(age, {b \in Buffers : key[b] = k})
                       /\ Len(cache.by_key[k]) <= MaxPerDescriptor
    /\ cache.entries = Len(age) /\ cache.entries <= MaxCachedEntries
    /\ cache.bytes = BytesOf(cache.lru) /\ cache.bytes <= MaxCachedBytes
    /\ \A b \in InSlots(cache) : refs[b] = 0
=============================================================================
