----------------------------- MODULE Scheduler ------------------------------
(***************************************************************************)
(* dg-scheduler: one Scheduler shared by several InstancePools.  Clients   *)
(* (inference workers) check an instance out of their pool, which takes a  *)
(* lease on a device core, and give it back by dropping it.                *)
(*                                                                         *)
(* The scheduler and each pool's affinity table and cursor have a lock of  *)
(* their own; a checkout takes them one after the other, so its steps      *)
(* interleave with those of other clients.  Cores of all devices are       *)
(* numbered in the order (device id, core id).                             *)
(***************************************************************************)
EXTENDS Naturals, FiniteSets, Sequences

CONSTANTS
    Cores,          \* cores of the topology
    Kind,           \* device kind of a core
    Clients,
    Pools,
    Assignments,    \* which pool each client may be a worker of
    Available,      \* the cores a pool may use, in topology order
    InstanceCount,  \* model instances of a pool
    Keys,           \* stream ids used as affinity keys
    NoKey,
    CursorWrap,     \* modulus of the usize cursors
    Expiring        \* keys whose affinity entries may outlive their TTL

ASSUME SchedulerAssumption ==
    /\ Cores \subseteq Nat \ {0} /\ IsFiniteSet(Cores)
    /\ IsFiniteSet(Clients) /\ IsFiniteSet(Keys) /\ NoKey \notin Keys
    /\ Assignments \subseteq [Clients -> Pools]
    /\ Available \in [Pools -> Seq(Cores) \ {<<>>}]
    /\ InstanceCount \in [Pools -> Nat \ {0}]
    /\ CursorWrap \in Nat \ {0}

VARIABLES
    load,           \* leases counted per core
    cursor,         \* round_robin_cursor of the scheduler
    bound,          \* the scheduler's affinity table: stream -> core
    pinned,         \* the pools' affinity tables: stream -> instance
    next,           \* next_instance of a pool
    poisoned,       \* pools whose next_instance lock is poisoned
    pc,             \* where a client is in its checkout
    key,            \* the affinity key of the checkout
    core,           \* the core its lease is on
    instance,       \* the instance it got, 0 before
    poolOf          \* the pool a client checks out of; it never changes

sched == <<load, cursor, bound>>
pool == <<pinned, next, poisoned>>
client == <<pc, key, core, instance>>
vars == <<sched, pool, client, poolOf>>

-----------------------------------------------------------------------------
(* BoundedAffinityTable: val[k] = 0 when k has no entry; older relates the  *)
(* keys in the order of their last use.                                     *)

Empty == [val |-> [k \in Keys |-> 0], older |-> {}]

Entries(t) == {k \in Keys : t.val[k] # 0}

Remove(t, k) ==
    [val |-> [t.val EXCEPT ![k] = 0],
     older |-> {e \in t.older : e[1] # k /\ e[2] # k}]

\* Enters v for k and makes k the most recently used key.
Use(t, k, v) ==
    [val |-> [t.val EXCEPT ![k] = v],
     older |-> {e \in t.older : e[1] # k /\ e[2] # k} \union ((Entries(t) \ {k}) \X {k})]

Oldest(t, k) == k \in Entries(t) /\ \A j \in Entries(t) : <<j, k>> \notin t.older

Full(t, k, capacity) == k \notin Entries(t) /\ Cardinality(Entries(t)) >= capacity

\* insert: a full table gives up its least recently used entry.
Insert(t, k, v, capacity) ==
    IF Full(t, k, capacity)
    THEN {Use(Remove(t, o), k, v) : o \in {j \in Keys : Oldest(t, j)}}
    ELSE {Use(t, k, v)}

-----------------------------------------------------------------------------
(* InstancePool::new *)

Placement(p, i) == Available[p][((i - 1) % Len(Available[p])) + 1]

Instances(p) == 1..InstanceCount[p]

Allowed(p) == {Placement(p, i) : i \in Instances(p)}

KindOf(p) == Kind[Placement(p, 1)]

OfKind(d) == {c \in Cores : Kind[c] = d}

Init ==
    /\ load = [c \in Cores |-> 0] /\ cursor = 0
    /\ bound = Empty
    /\ pinned = [p \in Pools |-> Empty]
    /\ next = [p \in Pools |-> 0] /\ poisoned = {}
    /\ pc = [c \in Clients |-> "idle"]
    /\ key = [c \in Clients |-> NoKey]
    /\ core = [c \in Clients |-> 0]
    /\ instance = [c \in Clients |-> 0]
    /\ poolOf \in Assignments

-----------------------------------------------------------------------------
(* InstancePool::checkout *)

Pinned(t, k) == k # NoKey /\ t.val[k] # 0

\* The pool's table is asked first; an expired entry is dropped.
Lookup(c, k) ==
    LET p == poolOf[c]
        t == pinned[p]
    IN  /\ pc[c] = "idle"
        /\ key' = [key EXCEPT ![c] = k]
        /\ \/ /\ ~Pinned(t, k)
              /\ pc' = [pc EXCEPT ![c] = "missed"]
              /\ UNCHANGED <<pinned, instance>>
           \/ /\ Pinned(t, k)
              /\ pc' = [pc EXCEPT ![c] = "pinned"]
              /\ instance' = [instance EXCEPT ![c] = t.val[k]]
              /\ pinned' = [pinned EXCEPT ![p] = Use(t, k, t.val[k])]
           \/ /\ Pinned(t, k) /\ k \in Expiring
              /\ pc' = [pc EXCEPT ![c] = "missed"]
              /\ pinned' = [pinned EXCEPT ![p] = Remove(t, k)]
              /\ UNCHANGED instance
        /\ UNCHANGED <<sched, next, poisoned, core>>

Increment(x) == load' = [load EXCEPT ![x] = @ + 1]

Lease(c, x, at) ==
    /\ Increment(x)
    /\ core' = [core EXCEPT ![c] = x]
    /\ pc' = [pc EXCEPT ![c] = at]

\* A pinned stream leases the core of its instance, whatever the load.
AcquirePinned(c) ==
    /\ pc[c] = "pinned"
    /\ Lease(c, Placement(poolOf[c], instance[c]), "held")
    /\ UNCHANGED <<cursor, bound, pool, key, instance>>

\* Scheduler affinity: the entry counts if the core is of the right kind.
Bound_Never(k, d) == FALSE
Bound_AnyKind(k, d) == k # NoKey /\ bound.val[k] # 0
Bound(k, d) == k # NoKey /\ bound.val[k] # 0 /\ Kind[bound.val[k]] = d

AcquireBound(c) ==
    /\ pc[c] = "missed" /\ Bound(key[c], KindOf(poolOf[c]))
    /\ Lease(c, bound.val[key[c]], "leased")
    /\ bound' = Use(bound, key[c], bound.val[key[c]])
    /\ UNCHANGED <<cursor, pool, key, instance>>

LeastLoaded(S, x) == x \in S /\ \A y \in S : load[x] < load[y] \/ (load[x] = load[y] /\ x <= y)

RoundRobin(S, x) == x \in S /\ Cardinality({y \in S : y < x}) = cursor % Cardinality(S)

\* One core out of the candidates, by either policy.
Select(S, x) ==
    \/ LeastLoaded(S, x) /\ UNCHANGED cursor
    \/ RoundRobin(S, x) /\ cursor' = (cursor + 1) % CursorWrap

Remember(k, x) ==
    IF k = NoKey THEN UNCHANGED bound
    ELSE bound' \in Insert(bound, k, x, Cardinality(Cores))

\* No usable affinity: choose among the cores of the pool.
AcquireAny(c, x) ==
    /\ pc[c] = "missed"
    /\ ~Bound(key[c], KindOf(poolOf[c])) \/ key[c] \in Expiring
    /\ Select(OfKind(KindOf(poolOf[c])) \intersect Allowed(poolOf[c]), x)
    /\ Remember(key[c], x)
    /\ Lease(c, x, "leased")
    /\ UNCHANGED <<pool, key, instance>>

\* checkout_explicit: a core of the pool by name.
AcquireExplicit(c, x) ==
    /\ pc[c] = "idle" /\ x \in Allowed(poolOf[c])
    /\ Lease(c, x, "leased")
    /\ key' = [key EXCEPT ![c] = NoKey]
    /\ UNCHANGED <<cursor, bound, pool, instance>>

\* Scheduler::acquire by itself, for a single-instance node: the least loaded
\* core of any selection the node asks for.
AcquireSingle(c, x) ==
    /\ pc[c] = "idle"
    /\ Lease(c, x, "held")
    /\ UNCHANGED <<cursor, bound, pool, key, instance>>

\* checkout_request: the instances that sit on the leased core.
Matching(p, x) == {i \in Instances(p) : Placement(p, i) = x}

\* Several instances share a core: take them in turn.
InTurn(S, i, n) == i \in S /\ Cardinality({j \in S : j < i}) = n % Cardinality(S)

Choose(c, i) ==
    LET p == poolOf[c]
        m == Matching(p, core[c])
    IN  /\ pc[c] = "leased" /\ m # {}
        /\ \/ m = {i} /\ UNCHANGED next
           \/ /\ Cardinality(m) > 1 /\ p \notin poisoned
              /\ InTurn(m, i, next[p])
              /\ next' = [next EXCEPT ![p] = (@ + 1) % CursorWrap]
        /\ instance' = [instance EXCEPT ![c] = i]
        /\ pc' = [pc EXCEPT ![c] = IF key[c] = NoKey THEN "held" ELSE "chosen"]
        /\ UNCHANGED <<sched, pinned, poisoned, key, core>>

ChooseFails_Leaks(c) ==
    /\ pc[c] = "leased" /\ Matching(poolOf[c], core[c]) = {}
    /\ poisoned' = poisoned \union {poolOf[c]}
    /\ pc' = [pc EXCEPT ![c] = "idle"]
    /\ UNCHANGED <<sched, pinned, next, key, core, instance>>

\* No instance on the leased core: the remainder by zero panics with the cursor
\* locked.  With a poisoned lock the checkout fails.  Either way the lease goes.
ChooseFails(c) ==
    LET p == poolOf[c]
        m == Matching(p, core[c])
    IN  /\ pc[c] = "leased"
        /\ \/ m = {} /\ p \notin poisoned /\ poisoned' = poisoned \union {p}
           \/ Cardinality(m) # 1 /\ p \in poisoned /\ UNCHANGED poisoned
        /\ pc' = [pc EXCEPT ![c] = "failed"]
        /\ UNCHANGED <<sched, pinned, next, key, core, instance>>

\* The stream is pinned to the instance.
Pin(c) ==
    LET p == poolOf[c]
    IN  /\ pc[c] = "chosen"
        /\ \E u \in Insert(pinned[p], key[c], instance[c], InstanceCount[p]) :
              pinned' = [pinned EXCEPT ![p] = u]
        /\ pc' = [pc EXCEPT ![c] = "held"]
        /\ UNCHANGED <<sched, next, poisoned, key, core, instance>>

\* Lease::drop counts down, but never below zero.
Decrement(x) == load' = [load EXCEPT ![x] = IF @ = 0 THEN 0 ELSE @ - 1]

Release(c) ==
    /\ pc[c] \in {"held", "failed"}
    /\ Decrement(core[c])
    /\ pc' = [pc EXCEPT ![c] = "idle"]
    /\ key' = [key EXCEPT ![c] = NoKey]
    /\ core' = [core EXCEPT ![c] = 0]
    /\ instance' = [instance EXCEPT ![c] = 0]
    /\ UNCHANGED <<cursor, bound, pool>>

\* remove_affinity: the stream has ended.
RemoveAffinity(p, k) ==
    /\ pinned' = [pinned EXCEPT ![p] = Remove(@, k)]
    /\ UNCHANGED <<sched, next, poisoned, client>>

-----------------------------------------------------------------------------

Step(c) ==
    \/ \E k \in Keys \union {NoKey} : Lookup(c, k)
    \/ AcquirePinned(c) \/ AcquireBound(c)
    \/ \E x \in Cores : AcquireAny(c, x) \/ AcquireExplicit(c, x) \/ AcquireSingle(c, x)
    \/ \E i \in Instances(poolOf[c]) : Choose(c, i)
    \/ ChooseFails(c) \/ Pin(c) \/ Release(c)

Next ==
    /\ \/ \E c \in Clients : Step(c)
       \/ \E p \in Pools, k \in Keys : RemoveAffinity(p, k)
    /\ UNCHANGED poolOf

Spec == Init /\ [][Next]_vars

-----------------------------------------------------------------------------
(* Properties *)

Tables(V) == [val : [Keys -> V \union {0}], older : SUBSET (Keys \X Keys)]

Leasing == {"leased", "chosen", "held", "failed"}

\* Types of the load counters, both affinity tables and every checkout: a leased
\* core is a core of the topology.
TypeOK ==
    /\ load \in [Cores -> Nat] /\ cursor \in Nat
    /\ bound \in Tables(Cores)
    /\ pinned \in [Pools -> Tables(Nat)]
    /\ next \in [Pools -> Nat] /\ poisoned \subseteq Pools
    /\ pc \in [Clients -> {"idle", "missed", "pinned"} \union Leasing]
    /\ key \in [Clients -> Keys \union {NoKey}]
    /\ core \in [Clients -> Cores \union {0}]
    /\ instance \in [Clients -> Nat]
    /\ poolOf \in [Clients -> Pools]

\* The clients with a lease on a core.
Holders(x) == {c \in Clients : pc[c] \in Leasing /\ core[c] = x}

\* The load of a core is the number of leases on it, at every step of every
\* checkout, so that failed and panicking checkouts leak nothing and a release
\* never finds the counter at zero.
LoadIsLeases == \A x \in Cores : load[x] = Cardinality(Holders(x))

\* Whoever has checked an instance out holds a lease on the very core that
\* instance runs on, whether it came from an affinity table or from the policy.
LeaseMatchesInstance ==
    \A c \in Clients :
        (pc[c] \in {"chosen", "held"} /\ instance[c] # 0) =>
            /\ instance[c] \in Instances(poolOf[c])
            /\ core[c] = Placement(poolOf[c], instance[c])

\* Leases, load counters and checked out instances agree at every step.
LeasesAreExact == TypeOK /\ LoadIsLeases /\ LeaseMatchesInstance

\* Neither table outgrows its capacity, and the recency order covers exactly the
\* entries: there is always a single least recently used one.
TableBounded(t, capacity) ==
    /\ Cardinality(Entries(t)) <= capacity
    /\ \A j, k \in Entries(t) : j # k => (<<j, k>> \in t.older) # (<<k, j>> \in t.older)

AffinityBounded ==
    /\ TableBounded(bound, Cardinality(Cores))
    /\ \A p \in Pools : TableBounded(pinned[p], InstanceCount[p])

\* As long as no entry expires or is evicted and no pool on another kind of
\* device works on the stream, clients of a pool that work on the same stream
\* hold the same core, also when their first checkouts race past the pool's
\* table: the scheduler's table catches the second.
SameStreamSameCore ==
    (/\ Cardinality({KindOf(poolOf[c]) : c \in Clients}) = 1
     /\ Cardinality(Keys) <= Cardinality(Cores)) =>
    \A c, d \in Clients :
        (poolOf[c] = poolOf[d] /\ {pc[c], pc[d]} \subseteq Leasing
            /\ key[c] = key[d] /\ key[c] \in Keys \ Expiring) => core[c] = core[d]

\* A stream stays where it is for as long as the tables, which keep to their
\* limits, can remember it.
StreamsStayPut == AffinityBounded /\ SameStreamSameCore

\* A checkout panics only in a pool that leaves out a core of its kind of device:
\* a stream name shared with any other pool leads nobody else to a core on which
\* it has no instance.
PanicsOnlyOnForeignCore ==
    \A p \in poisoned : \E x \in OfKind(KindOf(p)) : x \notin Allowed(p)
=============================================================================
