-------------------------- MODULE SchedulerProofs ---------------------------
(***************************************************************************)
(* Leases and load counters agree for any topology, any pools and any      *)
(* number of clients and streams.  The induction needs to know what each   *)
(* client holds at each point of its checkout (ClientOK) and that the      *)
(* pools' tables only hold instances of their pool (PinnedOK).  A stream   *)
(* keeps its core while the affinity table has room: nothing is evicted    *)
(* from it and every lease of the stream is remembered in it (SInv).       *)
(***************************************************************************)
EXTENDS Scheduler, FiniteSetTheorems, TLAPS

USE DEF Leasing

\* The tables of a pool name instances of the pool.
PinnedOK == \A p \in Pools : pinned[p] \in Tables(Instances(p))

\* What a client has at each point of a checkout.
ClientOK ==
    \A c \in Clients :
        /\ pc[c] \in Leasing => core[c] \in Cores
        /\ pc[c] \in {"idle", "missed", "leased"} => instance[c] = 0
        /\ pc[c] \in {"pinned", "chosen"} => instance[c] \in Instances(poolOf[c])
        /\ pc[c] = "chosen" => key[c] \in Keys
        /\ pc[c] = "leased" =>
              \/ core[c] \in Allowed(poolOf[c])
              \/ core[c] \in OfKind(KindOf(poolOf[c]))

IInv ==
    /\ TypeOK /\ PinnedOK /\ ClientOK
    /\ LoadIsLeases /\ LeaseMatchesInstance /\ PanicsOnlyOnForeignCore

-----------------------------------------------------------------------------
(* Tables and placements *)

LEMMA PlacementIsCore ==
    ASSUME NEW p \in Pools, NEW i \in Instances(p)
    PROVE  Placement(p, i) \in Cores
<1> DEFINE s == Available[p]
<1>1. s \in Seq(Cores) /\ s # <<>>
  BY SchedulerAssumption
<1>2. Len(s) \in Nat /\ Len(s) > 0
  BY <1>1
<1>3. i - 1 \in Nat
  BY SchedulerAssumption DEF Instances
<1>4. (i - 1) % Len(s) \in 0..(Len(s) - 1)
  BY <1>2, <1>3
<1>5. ((i - 1) % Len(s)) + 1 \in 1..Len(s)
  BY <1>2, <1>4
<1> QED BY <1>1, <1>5 DEF Placement

LEMMA EmptyIsTable == ASSUME NEW V PROVE Empty \in Tables(V)
BY DEF Empty, Tables

LEMMA RemoveKeepsTable ==
    ASSUME NEW V, NEW t \in Tables(V), NEW k
    PROVE  Remove(t, k) \in Tables(V)
BY DEF Remove, Tables

LEMMA UseKeepsTable ==
    ASSUME NEW V, NEW t \in Tables(V), NEW k \in Keys, NEW v \in V
    PROVE  Use(t, k, v) \in Tables(V)
BY DEF Use, Tables, Entries

LEMMA InsertKeepsTable ==
    ASSUME NEW V, NEW t \in Tables(V), NEW k \in Keys, NEW v \in V, NEW n,
           NEW u \in Insert(t, k, v, n)
    PROVE  u \in Tables(V)
<1>1. CASE Full(t, k, n)
  <2>1. PICK o \in Keys : u = Use(Remove(t, o), k, v)
    BY <1>1 DEF Insert
  <2> QED BY <2>1, RemoveKeepsTable, UseKeepsTable
<1>2. CASE ~Full(t, k, n)
  BY <1>2, UseKeepsTable DEF Insert
<1> QED BY <1>1, <1>2

-----------------------------------------------------------------------------
(* Counting *)

LEMMA HoldersFinite == ASSUME NEW x PROVE IsFiniteSet(Holders(x))
BY SchedulerAssumption, FS_Subset DEF Holders

\* A step of a client that keeps its lease, or its lack of one, moves no load.
LEMMA SameHolders ==
    ASSUME TypeOK, LoadIsLeases, NEW c \in Clients, load' = load, core' = core,
           NEW at, pc' = [pc EXCEPT ![c] = at], pc[c] \in Leasing <=> at \in Leasing
    PROVE  LoadIsLeases'
<1> SUFFICES ASSUME NEW x \in Cores PROVE load'[x] = Cardinality(Holders(x)')
  BY DEF LoadIsLeases
<1>1. Holders(x)' = Holders(x)
  BY DEF Holders, TypeOK
<1> QED BY <1>1 DEF LoadIsLeases

\* Taking a lease adds the client to the holders of one core.
LEMMA LeaseCounts ==
    ASSUME TypeOK, LoadIsLeases, NEW c \in Clients, pc[c] \notin Leasing, NEW x \in Cores,
           NEW at \in Leasing, Lease(c, x, at)
    PROVE  LoadIsLeases'
<1> SUFFICES ASSUME NEW y \in Cores PROVE load'[y] = Cardinality(Holders(y)')
  BY DEF LoadIsLeases
<1>1. CASE y = x
  <2>1. Holders(y)' = Holders(y) \union {c} /\ c \notin Holders(y)
    BY <1>1 DEF Lease, Holders, TypeOK
  <2>2. Cardinality(Holders(y)') = Cardinality(Holders(y)) + 1
    BY <2>1, HoldersFinite, FS_AddElement
  <2> QED BY <1>1, <2>2 DEF Lease, Increment, LoadIsLeases, TypeOK
<1>2. CASE y # x
  <2>1. Holders(y)' = Holders(y)
    BY <1>2 DEF Lease, Holders, TypeOK
  <2> QED BY <1>2, <2>1 DEF Lease, Increment, LoadIsLeases, TypeOK
<1> QED BY <1>1, <1>2

LEMMA LeaseTypes ==
    ASSUME TypeOK, NEW c \in Clients, NEW x \in Cores, NEW at \in Leasing, Lease(c, x, at)
    PROVE  /\ load' \in [Cores -> Nat]
           /\ core' \in [Clients -> Cores \union {0}]
           /\ pc' \in [Clients -> {"idle", "missed", "pinned"} \union Leasing]
BY DEF Lease, Increment, TypeOK

LEMMA ReleaseCounts ==
    ASSUME TypeOK, ClientOK, LoadIsLeases, NEW c \in Clients, Release(c)
    PROVE  LoadIsLeases'
<1> SUFFICES ASSUME NEW y \in Cores PROVE load'[y] = Cardinality(Holders(y)')
  BY DEF LoadIsLeases
<1>1. core[c] \in Cores
  BY DEF Release, ClientOK
<1>2. CASE y = core[c]
  <2>1. Holders(y)' = Holders(y) \ {c} /\ c \in Holders(y)
    BY <1>2 DEF Release, Holders, TypeOK
  <2>2. Cardinality(Holders(y)') = Cardinality(Holders(y)) - 1
    BY <2>1, HoldersFinite, FS_RemoveElement
  <2>3. Cardinality(Holders(y)) # 0
    BY <2>1, HoldersFinite, FS_EmptySet
  <2> QED BY <1>2, <2>2, <2>3 DEF Release, Decrement, LoadIsLeases, TypeOK
<1>3. CASE y # core[c]
  <2>1. Holders(y)' = Holders(y)
    BY <1>1, <1>3 DEF Release, Holders, TypeOK
  <2> QED BY <1>1, <1>3, <2>1 DEF Release, Decrement, LoadIsLeases, TypeOK
<1> QED BY <1>2, <1>3

-----------------------------------------------------------------------------
(* The inductive invariant *)

LEMMA InitIInv == Init => IInv
<1> SUFFICES ASSUME Init PROVE IInv
  OBVIOUS
<1> USE DEF Init
<1>1. TypeOK
  BY EmptyIsTable, SchedulerAssumption DEF TypeOK
<1>2. PinnedOK
  BY EmptyIsTable DEF PinnedOK
<1>3. LoadIsLeases
  <2>1. \A x \in Cores : Holders(x) = {}
    BY DEF Holders
  <2> QED BY <2>1, FS_EmptySet DEF LoadIsLeases
<1> QED BY <1>1, <1>2, <1>3 DEF IInv, ClientOK, LeaseMatchesInstance, PanicsOnlyOnForeignCore

LEMMA InstancesAreNat == ASSUME NEW p \in Pools PROVE Instances(p) \subseteq Nat
BY SchedulerAssumption DEF Instances

LEMMA TablesWiden ==
    ASSUME NEW p \in Pools, NEW t \in Tables(Instances(p)) PROVE t \in Tables(Nat)
BY InstancesAreNat DEF Tables

\* A pool's table is replaced by another table of the pool.
LEMMA PinnedReplaced ==
    ASSUME TypeOK, PinnedOK, NEW p \in Pools, NEW u \in Tables(Instances(p)),
           pinned' = [pinned EXCEPT ![p] = u]
    PROVE  PinnedOK' /\ pinned' \in [Pools -> Tables(Nat)]
BY TablesWiden DEF PinnedOK, TypeOK

LEMMA StepIInv == IInv /\ [Next]_vars => IInv'
<1> SUFFICES ASSUME IInv, [Next]_vars PROVE IInv'
  OBVIOUS
<1> USE SchedulerAssumption
<1>u. TypeOK /\ PinnedOK /\ ClientOK /\ LoadIsLeases /\ LeaseMatchesInstance
      /\ PanicsOnlyOnForeignCore
  BY DEF IInv
<1>p. poolOf' = poolOf /\ poolOf \in [Clients -> Pools]
  BY <1>u DEF Next, vars, TypeOK
<1> USE <1>p
<1>q. ASSUME poisoned' = poisoned PROVE PanicsOnlyOnForeignCore'
  BY <1>u, <1>q DEF PanicsOnlyOnForeignCore
<1>1. ASSUME NEW c \in Clients, NEW k \in Keys \union {NoKey}, Lookup(c, k) PROVE IInv'
  <2> DEFINE p == poolOf[c]
  <2>0. p \in Pools /\ pinned[p] \in Tables(Instances(p))
    BY <1>u DEF PinnedOK
  <2>1. Pinned(pinned[p], k) => k \in Keys /\ pinned[p].val[k] \in Instances(p)
    BY <2>0 DEF Pinned, Tables
  <2>2. PinnedOK' /\ pinned' \in [Pools -> Tables(Nat)]
    <3>1. CASE UNCHANGED pinned BY <1>u, <3>1 DEF PinnedOK, TypeOK
    <3>2. CASE Pinned(pinned[p], k) /\ pinned' = [pinned EXCEPT ![p] = Use(pinned[p], k, pinned[p].val[k])]
      BY <1>u, <2>0, <2>1, <3>2, UseKeepsTable, PinnedReplaced
    <3>3. CASE pinned' = [pinned EXCEPT ![p] = Remove(pinned[p], k)]
      BY <1>u, <2>0, <3>3, RemoveKeepsTable, PinnedReplaced
    <3> QED BY <1>1, <3>1, <3>2, <3>3 DEF Lookup
  <2>l. LoadIsLeases'
    BY <1>u, <1>1, SameHolders DEF Lookup, sched
  <2>t. TypeOK'
    BY <1>u, <1>1, <2>0, <2>1, <2>2, InstancesAreNat DEF Lookup, TypeOK, sched
  <2>b. PinnedOK'
    BY <1>u, <1>1, <2>2
  <2>c. ClientOK' /\ LeaseMatchesInstance'
    <3>1. pc'[c] \in {"missed", "pinned"}
          /\ \A d \in Clients \ {c} : pc'[d] = pc[d] /\ instance'[d] = instance[d] /\ key'[d] = key[d]
      BY <1>u, <1>1 DEF Lookup, TypeOK
    <3>2. core' = core /\ pc[c] = "idle"
      BY <1>1 DEF Lookup
    <3>3. pc'[c] = "missed" => instance'[c] = 0
      BY <1>u, <1>1 DEF Lookup, TypeOK, ClientOK
    <3>4. pc'[c] = "pinned" => instance'[c] \in Instances(poolOf[c])
      BY <1>u, <1>1, <2>1 DEF Lookup, TypeOK
    <3>5. ClientOK'
      BY <1>u, <3>1, <3>2, <3>3, <3>4 DEF ClientOK
    <3>6. LeaseMatchesInstance'
      BY <1>u, <3>1, <3>2 DEF LeaseMatchesInstance
    <3> QED BY <3>5, <3>6
  <2>p. PanicsOnlyOnForeignCore'
    BY <1>1, <1>q DEF Lookup
  <2> QED BY <2>l, <2>t, <2>b, <2>c, <2>p DEF IInv
<1>2. ASSUME NEW c \in Clients, AcquirePinned(c) PROVE IInv'
  <2>1. Placement(poolOf[c], instance[c]) \in Cores
    BY <1>u, <1>2, PlacementIsCore DEF AcquirePinned, ClientOK
  <2>l. LoadIsLeases'
    BY <1>u, <1>2, <2>1, LeaseCounts DEF AcquirePinned
  <2>t. TypeOK'
    BY <1>u, <1>2, <2>1, LeaseTypes DEF AcquirePinned, TypeOK, pool
  <2>b. PinnedOK'
    BY <1>u, <1>2 DEF AcquirePinned, PinnedOK, pool
  <2>c. ClientOK' /\ LeaseMatchesInstance'
    BY <1>u, <1>2, <2>1 DEF AcquirePinned, Lease, TypeOK, ClientOK, LeaseMatchesInstance
  <2>p. PanicsOnlyOnForeignCore'
    BY <1>2, <1>q DEF AcquirePinned, pool
  <2> QED BY <2>l, <2>t, <2>b, <2>c, <2>p DEF IInv
<1>3. ASSUME NEW c \in Clients, AcquireBound(c) PROVE IInv'
  <2>1. key[c] \in Keys /\ bound.val[key[c]] \in Cores
    BY <1>u, <1>3 DEF AcquireBound, Bound, TypeOK, Tables
  <2>2. bound' \in Tables(Cores)
    BY <1>u, <1>3, <2>1, UseKeepsTable DEF AcquireBound, TypeOK
  <2>3. bound.val[key[c]] \in OfKind(KindOf(poolOf[c]))
    BY <1>3, <2>1 DEF AcquireBound, Bound, OfKind
  <2>l. LoadIsLeases'
    BY <1>u, <1>3, <2>1, LeaseCounts DEF AcquireBound
  <2>t. TypeOK'
    BY <1>u, <1>3, <2>1, <2>2, LeaseTypes DEF AcquireBound, TypeOK, pool
  <2>b. PinnedOK'
    BY <1>u, <1>3 DEF AcquireBound, PinnedOK, pool
  <2>c. ClientOK' /\ LeaseMatchesInstance'
    BY <1>u, <1>3, <2>1, <2>3 DEF AcquireBound, Lease, TypeOK, ClientOK, LeaseMatchesInstance
  <2>p. PanicsOnlyOnForeignCore'
    BY <1>3, <1>q DEF AcquireBound, pool
  <2> QED BY <2>l, <2>t, <2>b, <2>c, <2>p DEF IInv
<1>4. ASSUME NEW c \in Clients, NEW x \in Cores, AcquireAny(c, x) PROVE IInv'
  <2>1. bound' \in Tables(Cores)
    <3>1. CASE key[c] = NoKey
      BY <1>u, <1>4, <3>1 DEF AcquireAny, Remember, TypeOK
    <3>2. CASE key[c] # NoKey
      BY <1>u, <1>4, <3>2, InsertKeepsTable DEF AcquireAny, Remember, TypeOK
    <3> QED BY <3>1, <3>2
  <2>2. cursor' \in Nat
    BY <1>u, <1>4 DEF AcquireAny, Select, TypeOK
  <2>3. x \in Allowed(poolOf[c])
    BY <1>4 DEF AcquireAny, Select, LeastLoaded, RoundRobin
  <2>l. LoadIsLeases'
    BY <1>u, <1>4, LeaseCounts DEF AcquireAny
  <2>t. TypeOK'
    BY <1>u, <1>4, <2>1, <2>2, LeaseTypes DEF AcquireAny, TypeOK, pool
  <2>b. PinnedOK'
    BY <1>u, <1>4 DEF AcquireAny, PinnedOK, pool
  <2>c. ClientOK' /\ LeaseMatchesInstance'
    BY <1>u, <1>4, <2>3 DEF AcquireAny, Lease, TypeOK, ClientOK, LeaseMatchesInstance
  <2>p. PanicsOnlyOnForeignCore'
    BY <1>4, <1>q DEF AcquireAny, pool
  <2> QED BY <2>l, <2>t, <2>b, <2>c, <2>p DEF IInv
<1>5. ASSUME NEW c \in Clients, NEW x \in Cores, AcquireExplicit(c, x) PROVE IInv'
  <2>l. LoadIsLeases'
    BY <1>u, <1>5, LeaseCounts DEF AcquireExplicit
  <2>t. TypeOK'
    BY <1>u, <1>5, LeaseTypes DEF AcquireExplicit, TypeOK, pool
  <2>b. PinnedOK'
    BY <1>u, <1>5 DEF AcquireExplicit, PinnedOK, pool
  <2>c. ClientOK' /\ LeaseMatchesInstance'
    BY <1>u, <1>5 DEF AcquireExplicit, Lease, TypeOK, ClientOK, LeaseMatchesInstance
  <2>p. PanicsOnlyOnForeignCore'
    BY <1>5, <1>q DEF AcquireExplicit, pool
  <2> QED BY <2>l, <2>t, <2>b, <2>c, <2>p DEF IInv
<1>6. ASSUME NEW c \in Clients, NEW x \in Cores, AcquireSingle(c, x) PROVE IInv'
  <2>l. LoadIsLeases'
    BY <1>u, <1>6, LeaseCounts DEF AcquireSingle
  <2>t. TypeOK'
    BY <1>u, <1>6, LeaseTypes DEF AcquireSingle, TypeOK, pool
  <2>b. PinnedOK'
    BY <1>u, <1>6 DEF AcquireSingle, PinnedOK, pool
  <2>c. ClientOK' /\ LeaseMatchesInstance'
    BY <1>u, <1>6 DEF AcquireSingle, Lease, TypeOK, ClientOK, LeaseMatchesInstance
  <2>p. PanicsOnlyOnForeignCore'
    BY <1>6, <1>q DEF AcquireSingle, pool
  <2> QED BY <2>l, <2>t, <2>b, <2>c, <2>p DEF IInv
<1>7. ASSUME NEW c \in Clients, NEW i \in Instances(poolOf[c]), Choose(c, i) PROVE IInv'
  <2>1. i \in Nat /\ Placement(poolOf[c], i) = core[c]
    BY <1>7, InstancesAreNat DEF Choose, Matching, InTurn
  <2>2. next' \in [Pools -> Nat]
    <3>1. poolOf[c] \in Pools /\ next[poolOf[c]] \in Nat
      BY <1>u DEF TypeOK
    <3>2. (next[poolOf[c]] + 1) % CursorWrap \in Nat
      BY <3>1
    <3> QED BY <1>u, <1>7, <3>1, <3>2 DEF Choose, TypeOK
  <2>l. LoadIsLeases'
    BY <1>u, <1>7, SameHolders DEF Choose, sched
  <2>t. TypeOK'
    BY <1>u, <1>7, <2>1, <2>2 DEF Choose, TypeOK, sched
  <2>b. PinnedOK'
    BY <1>u, <1>7 DEF Choose, PinnedOK
  <2>c. ClientOK' /\ LeaseMatchesInstance'
    BY <1>u, <1>7, <2>1 DEF Choose, ClientOK, LeaseMatchesInstance, TypeOK
  <2>p. PanicsOnlyOnForeignCore'
    BY <1>7, <1>q DEF Choose
  <2> QED BY <2>l, <2>t, <2>b, <2>c, <2>p DEF IInv
<1>8. ASSUME NEW c \in Clients, ChooseFails(c) PROVE IInv'
  <2>1. ASSUME Matching(poolOf[c], core[c]) = {}
        PROVE  \E x \in OfKind(KindOf(poolOf[c])) : x \notin Allowed(poolOf[c])
    BY <1>u, <1>8, <2>1 DEF ChooseFails, ClientOK, Matching, Allowed
  <2>l. LoadIsLeases'
    BY <1>u, <1>8, SameHolders DEF ChooseFails, sched
  <2>t. TypeOK'
    BY <1>u, <1>8 DEF ChooseFails, TypeOK, sched
  <2>b. PinnedOK'
    BY <1>u, <1>8 DEF ChooseFails, PinnedOK
  <2>c. ClientOK' /\ LeaseMatchesInstance'
    BY <1>u, <1>8 DEF ChooseFails, ClientOK, LeaseMatchesInstance, TypeOK
  <2>p. PanicsOnlyOnForeignCore'
    BY <1>8, <1>u, <2>1 DEF ChooseFails, PanicsOnlyOnForeignCore
  <2> QED BY <2>l, <2>t, <2>b, <2>c, <2>p DEF IInv
<1>9. ASSUME NEW c \in Clients, Pin(c) PROVE IInv'
  <2> DEFINE p == poolOf[c]
  <2>1. p \in Pools /\ pinned[p] \in Tables(Instances(p))
    BY <1>u DEF PinnedOK
  <2>2. key[c] \in Keys /\ instance[c] \in Instances(p)
    BY <1>u, <1>9 DEF Pin, ClientOK
  <2>3. PinnedOK' /\ pinned' \in [Pools -> Tables(Nat)]
    BY <1>u, <1>9, <2>1, <2>2, InsertKeepsTable, PinnedReplaced DEF Pin
  <2>l. LoadIsLeases'
    BY <1>u, <1>9, SameHolders DEF Pin, sched
  <2>t. TypeOK'
    BY <1>u, <1>9, <2>3 DEF Pin, TypeOK, sched
  <2>b. PinnedOK'
    BY <1>u, <1>9, <2>3
  <2>c. ClientOK' /\ LeaseMatchesInstance'
    BY <1>u, <1>9 DEF Pin, ClientOK, LeaseMatchesInstance, TypeOK
  <2>p. PanicsOnlyOnForeignCore'
    BY <1>9, <1>q DEF Pin
  <2> QED BY <2>l, <2>t, <2>b, <2>c, <2>p DEF IInv
<1>10. ASSUME NEW c \in Clients, Release(c) PROVE IInv'
  <2>1. load' \in [Cores -> Nat]
    <3>1. core[c] \in Cores /\ load[core[c]] \in Nat
      BY <1>u, <1>10 DEF Release, ClientOK, TypeOK
    <3>2. (IF load[core[c]] = 0 THEN 0 ELSE load[core[c]] - 1) \in Nat
      BY <3>1
    <3> QED BY <1>u, <1>10, <3>2 DEF Release, Decrement, TypeOK
  <2>l. LoadIsLeases'
    BY <1>u, <1>10, ReleaseCounts
  <2>t. TypeOK'
    BY <1>u, <1>10, <2>1 DEF Release, TypeOK, pool
  <2>b. PinnedOK'
    BY <1>u, <1>10 DEF Release, PinnedOK, pool
  <2>c. ClientOK' /\ LeaseMatchesInstance'
    BY <1>u, <1>10 DEF Release, TypeOK, ClientOK, LeaseMatchesInstance
  <2>p. PanicsOnlyOnForeignCore'
    BY <1>10, <1>q DEF Release, pool
  <2> QED BY <2>l, <2>t, <2>b, <2>c, <2>p DEF IInv
<1>11. ASSUME NEW p \in Pools, NEW k \in Keys, RemoveAffinity(p, k) PROVE IInv'
  <2>1. PinnedOK' /\ pinned' \in [Pools -> Tables(Nat)]
    BY <1>u, <1>11, RemoveKeepsTable, PinnedReplaced DEF RemoveAffinity, PinnedOK, TypeOK
  <2>l. LoadIsLeases'
    BY <1>u, <1>11 DEF RemoveAffinity, LoadIsLeases, Holders, sched, client
  <2>t. TypeOK'
    BY <1>u, <1>11, <2>1 DEF RemoveAffinity, TypeOK, sched, client
  <2>b. PinnedOK'
    BY <1>u, <1>11, <2>1
  <2>c. ClientOK' /\ LeaseMatchesInstance'
    BY <1>u, <1>11 DEF RemoveAffinity, ClientOK, LeaseMatchesInstance, client
  <2>p. PanicsOnlyOnForeignCore'
    BY <1>11, <1>q DEF RemoveAffinity
  <2> QED BY <2>l, <2>t, <2>b, <2>c, <2>p DEF IInv
<1>12. CASE UNCHANGED vars
  BY <1>u, <1>12
  DEF vars, sched, pool, client, IInv, TypeOK, PinnedOK, ClientOK, LeaseMatchesInstance,
      LoadIsLeases, Holders, PanicsOnlyOnForeignCore
<1> QED
  BY <1>1, <1>2, <1>3, <1>4, <1>5, <1>6, <1>7, <1>8, <1>9, <1>10, <1>11, <1>12 DEF Next, Step

LEMMA IInvHolds == Spec => []IInv
BY InitIInv, StepIInv, PTL DEF Spec

\* The scheduler and the pools keep their types.
THEOREM TypeCorrect == Spec => []TypeOK
<1>1. IInv => TypeOK
  BY DEF IInv
<1> QED BY IInvHolds, <1>1, PTL

\* Every core's counter is the number of leases on it, at each step of every
\* checkout, the failing ones included.
THEOREM LoadCountsLeases == Spec => []LoadIsLeases
<1>1. IInv => LoadIsLeases
  BY DEF IInv
<1> QED BY IInvHolds, <1>1, PTL

\* A client always holds its lease on the core its instance runs on.
THEOREM InstanceOnLeasedCore == Spec => []LeaseMatchesInstance
<1>1. IInv => LeaseMatchesInstance
  BY DEF IInv
<1> QED BY IInvHolds, <1>1, PTL

\* Leases, load counters and checked out instances agree at every step of every
\* checkout, also of one that fails or panics (select, checkout, drop of a lease).
THEOREM LeasesStayExact == Spec => []LeasesAreExact
<1>1. IInv => LeasesAreExact
  BY DEF IInv, LeasesAreExact
<1> QED
  BY <1>1, IInvHolds, PTL

\* Only a pool that leaves out a core of its kind can be led to a core on which
\* it has no instance: a pool on all cores of its kind never panics, whatever
\* stream names it shares with other pools.
THEOREM PanicNeedsForeignCore == Spec => []PanicsOnlyOnForeignCore
<1>1. IInv => PanicsOnlyOnForeignCore
  BY DEF IInv
<1> QED BY IInvHolds, <1>1, PTL
-----------------------------------------------------------------------------
(* Streams stay where they are *)

\* All workers are on one kind of device, and the scheduler's table has room for
\* every stream.
RoomForAll ==
    /\ \A c, d \in Clients : KindOf(poolOf[c]) = KindOf(poolOf[d])
    /\ Cardinality(Keys) <= Cardinality(Cores)

\* The scheduler's table names the core of every stream that is worked on or
\* pinned: whoever missed the pool's table is sent there.
Remembered ==
    /\ \A k \in Keys, c \in Clients :
          bound.val[k] # 0 => Kind[bound.val[k]] = KindOf(poolOf[c])
    /\ \A p \in Pools, k \in Keys \ Expiring :
          pinned[p].val[k] # 0 => bound.val[k] = Placement(p, pinned[p].val[k])
    /\ \A c \in Clients : key[c] \in Keys \ Expiring =>
          /\ pc[c] = "pinned" => bound.val[key[c]] = Placement(poolOf[c], instance[c])
          /\ pc[c] \in Leasing => bound.val[key[c]] = core[c]

NoKeyWhenIdle == \A c \in Clients : pc[c] = "idle" => key[c] = NoKey

SInv == AffinityBounded /\ NoKeyWhenIdle /\ (RoomForAll => Remembered)

LEMMA EntriesFinite == ASSUME NEW t PROVE IsFiniteSet(Entries(t)) /\ Cardinality(Entries(t)) \in Nat
BY SchedulerAssumption, FS_Subset, FS_CardinalityType DEF Entries

\* Dropping an entry keeps a table in its bounds and its order whole.
LEMMA RemoveBounded ==
    ASSUME NEW V, NEW t \in Tables(V), NEW k, NEW n \in Nat, TableBounded(t, n)
    PROVE  /\ Entries(Remove(t, k)) = Entries(t) \ {k}
           /\ TableBounded(Remove(t, k), n)
<1> DEFINE u == Remove(t, k)
<1>1. Entries(u) = Entries(t) \ {k}
  BY DEF Remove, Entries, Tables
<1>2. Cardinality(Entries(u)) <= Cardinality(Entries(t))
  BY <1>1, EntriesFinite, FS_Subset
<1>3. Cardinality(Entries(u)) <= n
  <2>1. /\ Cardinality(Entries(u)) \in Nat /\ Cardinality(Entries(t)) \in Nat
        /\ Cardinality(Entries(t)) <= n
    BY EntriesFinite DEF TableBounded
  <2> QED BY <1>2, <2>1
<1>4. ASSUME NEW i \in Entries(u), NEW j \in Entries(u), i # j
      PROVE  (<<i, j>> \in u.older) # (<<j, i>> \in u.older)
  <2>1. i \in Entries(t) /\ j \in Entries(t) /\ i # k /\ j # k
    BY <1>1, <1>4
  <2>2. (<<i, j>> \in u.older <=> <<i, j>> \in t.older) /\ (<<j, i>> \in u.older <=> <<j, i>> \in t.older)
    BY <2>1 DEF Remove
  <2>3. (<<i, j>> \in t.older) # (<<j, i>> \in t.older)
    BY <1>4, <2>1 DEF TableBounded
  <2> QED BY <2>2, <2>3
<1> QED BY <1>1, <1>3, <1>4 DEF TableBounded

\* The key that was used is the youngest of the entries.
LEMMA UseBounded ==
    ASSUME NEW V, NEW t \in Tables(V), NEW k \in Keys, NEW v, v # 0, NEW m \in Nat, NEW n \in Nat,
           TableBounded(t, m), Cardinality(Entries(t) \union {k}) <= n
    PROVE  TableBounded(Use(t, k, v), n)
<1> DEFINE u == Use(t, k, v)
<1>1. Entries(u) = Entries(t) \union {k}
  BY DEF Use, Entries, Tables
<1>2. ASSUME NEW i \in Entries(u), NEW j \in Entries(u), i # j
      PROVE  (<<i, j>> \in u.older) # (<<j, i>> \in u.older)
  <2>0. u.older = {e \in t.older : e[1] # k /\ e[2] # k} \union ((Entries(t) \ {k}) \X {k})
    BY DEF Use
  <2>1. CASE i # k /\ j # k
    <3>1. i \in Entries(t) /\ j \in Entries(t)
      BY <1>1, <2>1
    <3>2. (<<i, j>> \in u.older <=> <<i, j>> \in t.older) /\ (<<j, i>> \in u.older <=> <<j, i>> \in t.older)
      BY <2>0, <2>1
    <3>3. (<<i, j>> \in t.older) # (<<j, i>> \in t.older)
      BY <1>2, <3>1 DEF TableBounded
    <3> QED BY <3>2, <3>3
  <2>2. CASE j = k
    <3>1. <<i, j>> \in u.older /\ <<j, i>> \notin u.older
      BY <1>1, <1>2, <2>0, <2>2
    <3> QED BY <3>1
  <2>3. CASE i = k
    <3>1. <<j, i>> \in u.older /\ <<i, j>> \notin u.older
      BY <1>1, <1>2, <2>0, <2>3
    <3> QED BY <3>1
  <2> QED BY <2>1, <2>2, <2>3
<1> QED BY <1>1, <1>2 DEF TableBounded

\* A key that has an entry is used again.
LEMMA UseAgainBounded ==
    ASSUME NEW V, NEW t \in Tables(V), NEW k \in Entries(t), NEW n \in Nat, TableBounded(t, n)
    PROVE  TableBounded(Use(t, k, t.val[k]), n)
<1>1. k \in Keys /\ t.val[k] # 0 /\ Entries(t) \union {k} = Entries(t)
  BY DEF Entries
<1>2. Cardinality(Entries(t) \union {k}) <= n
  BY <1>1 DEF TableBounded
<1> QED BY <1>1, <1>2, UseBounded

\* A full table gives up one entry for the new one.
LEMMA InsertBounded ==
    ASSUME NEW V, NEW t \in Tables(V), NEW k \in Keys, NEW v, v # 0, NEW n \in Nat,
           TableBounded(t, n), NEW u \in Insert(t, k, v, n)
    PROVE  TableBounded(u, n)
<1>0. Cardinality(Entries(t)) \in Nat /\ Cardinality(Entries(t)) <= n /\ IsFiniteSet(Entries(t))
  BY EntriesFinite DEF TableBounded
<1>1. CASE Full(t, k, n)
  <2>1. PICK o \in Keys : Oldest(t, o) /\ u = Use(Remove(t, o), k, v)
    BY <1>1 DEF Insert
  <2> DEFINE r == Remove(t, o)
  <2>2. r \in Tables(V) /\ Entries(r) = Entries(t) \ {o} /\ TableBounded(r, n)
    BY RemoveKeepsTable, RemoveBounded
  <2>3. Cardinality(Entries(r)) = Cardinality(Entries(t)) - 1
    BY <1>0, <2>1, <2>2, FS_RemoveElement DEF Oldest
  <2>4. k \notin Entries(r) /\ IsFiniteSet(Entries(r))
    BY <1>1, <2>2, EntriesFinite DEF Full
  <2>5. Cardinality(Entries(r) \union {k}) = Cardinality(Entries(r)) + 1
    BY <2>4, FS_AddElement
  <2>6. Cardinality(Entries(r) \union {k}) <= n
    BY <1>0, <2>3, <2>5
  <2> HIDE DEF r
  <2>7. TableBounded(Use(r, k, v), n)
    BY <2>2, <2>6, UseBounded
  <2> QED BY <2>1, <2>7 DEF r
<1>2. CASE ~Full(t, k, n)
  <2>1. u = Use(t, k, v)
    BY <1>2 DEF Insert
  <2>2. Cardinality(Entries(t) \union {k}) <= n
    <3>1. CASE k \in Entries(t)
      <4>1. Entries(t) \union {k} = Entries(t)
        BY <3>1
      <4> QED BY <1>0, <4>1
    <3>2. CASE k \notin Entries(t)
      <4>1. Cardinality(Entries(t) \union {k}) = Cardinality(Entries(t)) + 1
        BY <1>0, <3>2, FS_AddElement
      <4>2. ~(Cardinality(Entries(t)) >= n)
        BY <1>2, <3>2 DEF Full
      <4> QED BY <1>0, <4>1, <4>2
    <3> QED BY <3>1, <3>2
  <2> QED BY <2>1, <2>2, UseBounded
<1> QED BY <1>1, <1>2

\* Where there is room for every key, nothing is evicted.
LEMMA InsertEvictsNothing ==
    ASSUME NEW t, NEW k \in Keys, NEW v, NEW n \in Nat, Cardinality(Keys) <= n,
           NEW u \in Insert(t, k, v, n)
    PROVE  u = Use(t, k, v)
<1>1. ASSUME k \notin Entries(t) PROVE ~(Cardinality(Entries(t)) >= n)
  <2>1. Entries(t) \subseteq Keys \ {k} /\ IsFiniteSet(Keys \ {k})
    BY <1>1, SchedulerAssumption, FS_RemoveElement DEF Entries
  <2>2. Cardinality(Keys \ {k}) = Cardinality(Keys) - 1 /\ Cardinality(Keys) \in Nat
    BY SchedulerAssumption, FS_RemoveElement, FS_CardinalityType
  <2>3. Cardinality(Entries(t)) <= Cardinality(Keys \ {k})
    BY <2>1, FS_Subset
  <2> QED BY <2>2, <2>3, EntriesFinite
<1> QED BY <1>1 DEF Insert, Full

\* The two limits are numbers.
LEMMA Limits == Cardinality(Cores) \in Nat /\ \A p \in Pools : InstanceCount[p] \in Nat
BY SchedulerAssumption, FS_CardinalityType

\* A pool's table is replaced by one that is in bounds.
LEMMA BoundedReplaced ==
    ASSUME TypeOK, AffinityBounded, bound' = bound, NEW p \in Pools, NEW u,
           TableBounded(u, InstanceCount[p]), pinned' = [pinned EXCEPT ![p] = u]
    PROVE  AffinityBounded'
<1>1. ASSUME NEW q \in Pools PROVE TableBounded(pinned'[q], InstanceCount[q])
  BY DEF AffinityBounded, TypeOK
<1> QED BY <1>1 DEF AffinityBounded

\* Which steps change an affinity table.
LEMMA TableSteps ==
    ASSUME [Next]_vars
    PROVE  \/ UNCHANGED <<bound, pinned>>
           \/ \E c \in Clients, k \in Keys \union {NoKey} : Lookup(c, k)
           \/ \E c \in Clients : AcquireBound(c) \/ Pin(c)
           \/ \E c \in Clients, x \in Cores : AcquireAny(c, x)
           \/ \E p \in Pools, k \in Keys : RemoveAffinity(p, k)
BY DEF Next, Step, vars, sched, pool, AcquirePinned, AcquireExplicit, AcquireSingle, Choose,
   ChooseFails, Release

\* Both tables keep to their limits and their orders, whatever the step.
LEMMA AffinityKept ==
    ASSUME IInv, AffinityBounded, [Next]_vars
    PROVE  AffinityBounded'
<1>u. TypeOK /\ PinnedOK /\ ClientOK /\ poolOf \in [Clients -> Pools]
  BY DEF IInv, TypeOK
<1>b. bound \in Tables(Cores) /\ TableBounded(bound, Cardinality(Cores))
  BY <1>u DEF TypeOK, AffinityBounded
<1>t. ASSUME NEW p \in Pools
      PROVE  pinned[p] \in Tables(Instances(p)) /\ TableBounded(pinned[p], InstanceCount[p])
  BY <1>u DEF PinnedOK, AffinityBounded
<1>z. 0 \notin Cores /\ \A p \in Pools : 0 \notin Instances(p)
  BY SchedulerAssumption DEF Instances
<1>1. CASE UNCHANGED <<bound, pinned>>
  BY <1>1 DEF AffinityBounded
<1>2. ASSUME NEW c \in Clients, NEW k \in Keys \union {NoKey}, Lookup(c, k)
      PROVE  AffinityBounded'
  <2>0. PICK p \in Pools : p = poolOf[c]
    BY <1>u
  <2>1. bound' = bound
    BY <1>2 DEF Lookup, sched
  <2>2. CASE UNCHANGED pinned
    BY <2>1, <2>2 DEF AffinityBounded
  <2>3. CASE Pinned(pinned[p], k) /\ pinned' = [pinned EXCEPT ![p] = Use(pinned[p], k, pinned[p].val[k])]
    <3>1. k \in Entries(pinned[p])
      BY <2>3 DEF Pinned, Entries
    <3>2. TableBounded(Use(pinned[p], k, pinned[p].val[k]), InstanceCount[p])
      BY <1>t, <3>1, UseAgainBounded, Limits
    <3> QED BY <1>u, <2>1, <2>3, <3>2, BoundedReplaced
  <2>4. CASE pinned' = [pinned EXCEPT ![p] = Remove(pinned[p], k)]
    <3>1. TableBounded(Remove(pinned[p], k), InstanceCount[p])
      BY <1>t, RemoveBounded, Limits
    <3> QED BY <1>u, <2>1, <2>4, <3>1, BoundedReplaced
  <2> QED BY <1>2, <2>0, <2>2, <2>3, <2>4 DEF Lookup
<1>3. ASSUME NEW c \in Clients, AcquireBound(c) PROVE AffinityBounded'
  <2>1. key[c] \in Entries(bound)
    BY <1>u, <1>3 DEF AcquireBound, Bound, Entries, TypeOK
  <2>2. TableBounded(Use(bound, key[c], bound.val[key[c]]), Cardinality(Cores))
    BY <1>b, <2>1, UseAgainBounded, Limits
  <2> QED BY <1>3, <2>2 DEF AcquireBound, pool, AffinityBounded
<1>4. ASSUME NEW c \in Clients, Pin(c) PROVE AffinityBounded'
  <2>0. PICK p \in Pools : p = poolOf[c]
    BY <1>u
  <2>1. key[c] \in Keys /\ instance[c] # 0
    BY <1>u, <1>z, <1>4 DEF Pin, ClientOK
  <2>2. PICK u \in Insert(pinned[p], key[c], instance[c], InstanceCount[p]) :
           pinned' = [pinned EXCEPT ![p] = u]
    BY <1>4, <2>0 DEF Pin
  <2>3. TableBounded(u, InstanceCount[p])
    BY <1>t, <2>1, InsertBounded, Limits
  <2> QED BY <1>u, <1>4, <2>2, <2>3, BoundedReplaced DEF Pin, sched
<1>5. ASSUME NEW c \in Clients, NEW x \in Cores, AcquireAny(c, x) PROVE AffinityBounded'
  <2>1. CASE key[c] = NoKey
    BY <1>5, <2>1 DEF AcquireAny, Remember, pool, AffinityBounded
  <2>2. CASE key[c] # NoKey
    <3>1. key[c] \in Keys /\ x # 0 /\ bound' \in Insert(bound, key[c], x, Cardinality(Cores))
      BY <1>u, <1>z, <1>5, <2>2 DEF AcquireAny, Remember, TypeOK
    <3>2. TableBounded(bound', Cardinality(Cores))
      BY <1>b, <3>1, InsertBounded, Limits
    <3> QED BY <1>5, <3>2 DEF AcquireAny, pool, AffinityBounded
  <2> QED BY <2>1, <2>2
<1>6. ASSUME NEW p \in Pools, NEW k \in Keys, RemoveAffinity(p, k) PROVE AffinityBounded'
  <2>1. TableBounded(Remove(pinned[p], k), InstanceCount[p])
    BY <1>t, RemoveBounded, Limits
  <2> QED BY <1>u, <1>6, <2>1, BoundedReplaced DEF RemoveAffinity, sched
<1> QED BY <1>1, <1>2, <1>3, <1>4, <1>5, <1>6, TableSteps

\* A client keeps its key from the first look at the pool's table to the release.
LEMMA IdleKept ==
    ASSUME TypeOK, NoKeyWhenIdle, [Next]_vars
    PROVE  NoKeyWhenIdle'
<1> USE DEF TypeOK, NoKeyWhenIdle
<1>1. ASSUME NEW c \in Clients, NEW k \in Keys \union {NoKey}, Lookup(c, k) PROVE NoKeyWhenIdle'
  BY <1>1 DEF Lookup
<1>2. ASSUME NEW c \in Clients, AcquirePinned(c) \/ AcquireBound(c) \/ ChooseFails(c) \/ Pin(c)
      PROVE  NoKeyWhenIdle'
  BY <1>2 DEF AcquirePinned, AcquireBound, Lease, ChooseFails, Pin
<1>3. ASSUME NEW c \in Clients, NEW x \in Cores,
             AcquireAny(c, x) \/ AcquireExplicit(c, x) \/ AcquireSingle(c, x)
      PROVE  NoKeyWhenIdle'
  BY <1>3 DEF AcquireAny, AcquireExplicit, AcquireSingle, Lease
<1>4. ASSUME NEW c \in Clients, NEW i \in Instances(poolOf[c]), Choose(c, i) PROVE NoKeyWhenIdle'
  BY <1>4 DEF Choose
<1>5. ASSUME NEW c \in Clients, Release(c) PROVE NoKeyWhenIdle'
  BY <1>5 DEF Release
<1>6. ASSUME NEW p \in Pools, NEW k \in Keys, RemoveAffinity(p, k) PROVE NoKeyWhenIdle'
  BY <1>6 DEF RemoveAffinity, client
<1>7. CASE UNCHANGED vars
  BY <1>7 DEF vars, client
<1> QED BY <1>1, <1>2, <1>3, <1>4, <1>5, <1>6, <1>7 DEF Next, Step

\* A step that leaves the scheduler's table alone, pins nothing new and keeps
\* what every other client has.
LEMMA RememberedByOthers ==
    ASSUME TypeOK, Remembered, bound' = bound, poolOf' = poolOf, NEW c \in Clients,
           \A p \in Pools, k \in Keys : pinned'[p].val[k] \in {0, pinned[p].val[k]},
           \A d \in Clients \ {c} : /\ pc'[d] = pc[d] /\ key'[d] = key[d]
                                    /\ core'[d] = core[d] /\ instance'[d] = instance[d],
           key'[c] \in Keys \ Expiring =>
              /\ pc'[c] = "pinned" => bound.val[key'[c]] = Placement(poolOf[c], instance'[c])
              /\ pc'[c] \in Leasing => bound.val[key'[c]] = core'[c]
    PROVE  Remembered'
<1>1. \A p \in Pools, k \in Keys \ Expiring :
         pinned'[p].val[k] # 0 => bound.val[k] = Placement(p, pinned'[p].val[k])
  BY DEF Remembered
<1>2. \A d \in Clients : key'[d] \in Keys \ Expiring =>
         /\ pc'[d] = "pinned" => bound.val[key'[d]] = Placement(poolOf[d], instance'[d])
         /\ pc'[d] \in Leasing => bound.val[key'[d]] = core'[d]
  <2> SUFFICES ASSUME NEW d \in Clients, d # c, key'[d] \in Keys \ Expiring
               PROVE  /\ pc'[d] = "pinned" => bound.val[key'[d]] = Placement(poolOf[d], instance'[d])
                      /\ pc'[d] \in Leasing => bound.val[key'[d]] = core'[d]
    OBVIOUS
  <2>1. pc'[d] = pc[d] /\ key'[d] = key[d] /\ core'[d] = core[d] /\ instance'[d] = instance[d]
    OBVIOUS
  <2> QED BY <2>1 DEF Remembered
<1> QED BY <1>1, <1>2 DEF Remembered, Placement, KindOf

\* What the tables say of a key after an entry was dropped or used again.
LEMMA TableValues ==
    ASSUME NEW V, NEW t \in Tables(V), NEW k \in Keys, NEW j, NEW v
    PROVE  /\ Remove(t, j).val[k] \in {0, t.val[k]}
           /\ Use(t, j, v).val[k] = IF j = k THEN v ELSE t.val[k]
BY DEF Remove, Use, Tables

\* The scheduler's table knows the core of every stream at every step, as long as
\* it has room for every stream and all workers are on one kind of device.
LEMMA RememberedKept ==
    ASSUME IInv, NoKeyWhenIdle, RoomForAll, Remembered, Next
    PROVE  Remembered'
<1>u. /\ TypeOK /\ PinnedOK /\ ClientOK /\ LeaseMatchesInstance
      /\ poolOf \in [Clients -> Pools] /\ poolOf' = poolOf
      /\ pc \in [Clients -> {"idle", "missed", "pinned"} \union Leasing]
      /\ key \in [Clients -> Keys \union {NoKey}]
      /\ core \in [Clients -> Cores \union {0}] /\ instance \in [Clients -> Nat]
      /\ bound \in Tables(Cores) /\ pinned \in [Pools -> Tables(Nat)]
  BY DEF IInv, TypeOK, Next
<1>z. 0 \notin Cores /\ NoKey \notin Keys
  BY SchedulerAssumption
<1>n. \A c \in Clients : pc[c] = "idle" => key[c] = NoKey
  BY DEF NoKeyWhenIdle
<1>t. ASSUME NEW p \in Pools, NEW k \in Keys
      PROVE  pinned[p] \in Tables(Nat) /\ (pinned[p].val[k] # 0 => pinned[p].val[k] \in Instances(p))
  BY <1>u DEF PinnedOK, Tables
<1>1. ASSUME NEW c \in Clients, NEW k \in Keys \union {NoKey}, Lookup(c, k) PROVE Remembered'
  <2>0. PICK p \in Pools : p = poolOf[c]
    BY <1>u
  <2>1. \A q \in Pools, j \in Keys : pinned'[q].val[j] \in {0, pinned[q].val[j]}
    <3> SUFFICES ASSUME NEW q \in Pools, NEW j \in Keys
                 PROVE  pinned'[q].val[j] \in {0, pinned[q].val[j]}
      OBVIOUS
    <3>1. CASE pinned' = pinned
      BY <3>1
    <3>2. CASE pinned' = [pinned EXCEPT ![p] = Use(pinned[p], k, pinned[p].val[k])]
      BY <1>u, <3>2, TableValues
    <3>3. CASE pinned' = [pinned EXCEPT ![p] = Remove(pinned[p], k)]
      BY <1>u, <3>3, TableValues
    <3> QED BY <1>1, <2>0, <3>1, <3>2, <3>3 DEF Lookup
  <2>2. \A d \in Clients \ {c} : /\ pc'[d] = pc[d] /\ key'[d] = key[d]
                                 /\ core'[d] = core[d] /\ instance'[d] = instance[d]
    BY <1>u, <1>1 DEF Lookup
  <2>3. key'[c] = k /\ pc'[c] \in {"missed", "pinned"} /\ bound' = bound
    BY <1>u, <1>1 DEF Lookup, sched
  <2>4. ASSUME k \in Keys \ Expiring, pc'[c] = "pinned"
        PROVE  bound.val[k] = Placement(poolOf[c], instance'[c])
    <3>1. pinned[p].val[k] # 0 /\ instance'[c] = pinned[p].val[k]
      BY <1>u, <1>1, <2>0, <2>4 DEF Lookup, Pinned
    <3> QED BY <2>0, <2>4, <3>1 DEF Remembered
  <2>5. pc'[c] \notin Leasing
    BY <2>3
  <2> QED BY <1>u, <2>1, <2>2, <2>3, <2>4, <2>5, RememberedByOthers
<1>2. ASSUME NEW c \in Clients, AcquirePinned(c) PROVE Remembered'
  <2>1. /\ pc[c] = "pinned" /\ core'[c] = Placement(poolOf[c], instance[c])
        /\ bound' = bound /\ pinned' = pinned /\ pc'[c] = "held" /\ key' = key
        /\ \A d \in Clients \ {c} : /\ pc'[d] = pc[d] /\ key'[d] = key[d]
                                    /\ core'[d] = core[d] /\ instance'[d] = instance[d]
    BY <1>u, <1>2 DEF AcquirePinned, Lease, pool
  <2>2. key'[c] \in Keys \ Expiring => bound.val[key'[c]] = core'[c]
    BY <2>1 DEF Remembered
  <2> QED BY <1>u, <2>1, <2>2, RememberedByOthers
<1>3. ASSUME NEW c \in Clients, AcquireBound(c) PROVE Remembered'
  <2>1. /\ core'[c] = bound.val[key[c]] /\ pinned' = pinned /\ pc'[c] = "leased"
        /\ key' = key /\ instance' = instance
        /\ \A d \in Clients \ {c} : pc'[d] = pc[d] /\ core'[d] = core[d]
        /\ key[c] \in Keys /\ bound' = Use(bound, key[c], bound.val[key[c]])
    BY <1>u, <1>3 DEF AcquireBound, Lease, pool, Bound
  <2>2. \A k \in Keys : bound'.val[k] = bound.val[k]
    BY <1>u, <2>1, TableValues
  <2>3. \A k \in Keys, d \in Clients :
          bound'.val[k] # 0 => Kind[bound'.val[k]] = KindOf(poolOf[d])
    BY <2>2 DEF Remembered
  <2>4. \A p \in Pools, k \in Keys \ Expiring :
          pinned'[p].val[k] # 0 => bound'.val[k] = Placement(p, pinned'[p].val[k])
    BY <2>1, <2>2 DEF Remembered
  <2>5. \A d \in Clients : key'[d] \in Keys \ Expiring =>
          /\ pc'[d] = "pinned" => bound'.val[key'[d]] = Placement(poolOf[d], instance'[d])
          /\ pc'[d] \in Leasing => bound'.val[key'[d]] = core'[d]
    BY <2>1, <2>2 DEF Remembered
  <2> QED BY <1>u, <2>3, <2>4, <2>5 DEF Remembered, Placement, KindOf
<1>4. ASSUME NEW c \in Clients, NEW x \in Cores, AcquireAny(c, x) PROVE Remembered'
  <2>1. /\ core'[c] = x /\ pinned' = pinned /\ pc'[c] = "leased" /\ pc[c] = "missed"
        /\ key' = key /\ instance' = instance /\ Kind[x] = KindOf(poolOf[c])
        /\ \A d \in Clients \ {c} : pc'[d] = pc[d] /\ core'[d] = core[d]
    BY <1>u, <1>4 DEF AcquireAny, Lease, pool, Select, LeastLoaded, RoundRobin, OfKind
  <2>2. CASE key[c] = NoKey
    <3>1. bound' = bound
      BY <1>4, <2>2 DEF AcquireAny, Remember
    <3>2. key'[c] \notin Keys
      BY <1>z, <2>1, <2>2
    <3> QED BY <1>u, <2>1, <3>1, <3>2, RememberedByOthers
  <2>3. CASE key[c] # NoKey
    <3>0. PICK k \in Keys : k = key[c]
      BY <1>u, <2>3
    <3>1. bound' = Use(bound, k, x)
      BY <1>4, <2>3, <3>0, InsertEvictsNothing, Limits DEF AcquireAny, Remember, RoomForAll
    <3>2. \A j \in Keys : bound'.val[j] = IF k = j THEN x ELSE bound.val[j]
      BY <1>u, <3>1, TableValues
    <3>3. k \notin Expiring => bound.val[k] = 0
      <4> SUFFICES ASSUME k \notin Expiring, bound.val[k] # 0 PROVE FALSE
        OBVIOUS
      <4>1. ~Bound(k, KindOf(poolOf[c]))
        BY <1>4, <3>0 DEF AcquireAny
      <4>2. Kind[bound.val[k]] = KindOf(poolOf[c])
        BY DEF Remembered
      <4> QED BY <2>3, <3>0, <4>1, <4>2 DEF Bound
    <3>4. \A j \in Keys, d \in Clients :
            bound'.val[j] # 0 => Kind[bound'.val[j]] = KindOf(poolOf[d])
      BY <2>1, <3>2 DEF Remembered, RoomForAll
    <3>5. ASSUME NEW p \in Pools, NEW j \in Keys \ Expiring, pinned'[p].val[j] # 0
          PROVE  bound'.val[j] = Placement(p, pinned'[p].val[j])
      <4>1. bound.val[j] = Placement(p, pinned[p].val[j])
        BY <2>1, <3>5 DEF Remembered
      <4>2. Placement(p, pinned[p].val[j]) \in Cores
        BY <1>t, <2>1, <3>5, PlacementIsCore
      <4>3. j # k
        BY <1>z, <3>3, <4>1, <4>2
      <4> QED BY <2>1, <3>2, <4>1, <4>3
    <3>6. ASSUME NEW d \in Clients, key'[d] \in Keys \ Expiring, pc'[d] = "pinned"
          PROVE  bound'.val[key'[d]] = Placement(poolOf[d], instance'[d])
      <4>0. d # c /\ pc[d] = "pinned" /\ key[d] \in Keys \ Expiring
        BY <2>1, <3>6
      <4>1. bound.val[key[d]] = Placement(poolOf[d], instance[d])
        BY <4>0 DEF Remembered
      <4>2. Placement(poolOf[d], instance[d]) \in Cores
        BY <1>u, <4>0, PlacementIsCore DEF ClientOK
      <4>3. key[d] # k
        BY <1>z, <3>3, <4>0, <4>1, <4>2
      <4> QED BY <2>1, <3>2, <4>0, <4>1, <4>3
    <3>7. ASSUME NEW d \in Clients, key'[d] \in Keys \ Expiring, pc'[d] \in Leasing
          PROVE  bound'.val[key'[d]] = core'[d]
      <4>1. CASE d = c
        BY <2>1, <3>0, <3>2, <4>1
      <4>2. CASE d # c
        <5>0. pc[d] \in Leasing /\ key[d] \in Keys \ Expiring /\ core'[d] = core[d]
          BY <2>1, <3>7, <4>2
        <5>1. bound.val[key[d]] = core[d] /\ core[d] \in Cores
          BY <1>u, <5>0 DEF Remembered, ClientOK
        <5>2. key[d] # k
          BY <1>z, <3>3, <5>0, <5>1
        <5> QED BY <2>1, <3>2, <5>0, <5>1, <5>2
      <4> QED BY <4>1, <4>2
    <3> QED BY <1>u, <3>4, <3>5, <3>6, <3>7 DEF Remembered, Placement, KindOf
  <2> QED BY <2>2, <2>3
<1>5. ASSUME NEW c \in Clients, NEW x \in Cores, AcquireExplicit(c, x) \/ AcquireSingle(c, x)
      PROVE  Remembered'
  <2>1. /\ bound' = bound /\ pinned' = pinned /\ key'[c] = NoKey /\ instance' = instance
        /\ \A d \in Clients \ {c} : pc'[d] = pc[d] /\ key'[d] = key[d] /\ core'[d] = core[d]
    BY <1>u, <1>n, <1>5 DEF AcquireExplicit, AcquireSingle, Lease, pool
  <2> QED BY <1>u, <1>z, <2>1, RememberedByOthers
<1>6. ASSUME NEW c \in Clients, NEW i \in Instances(poolOf[c]), Choose(c, i) PROVE Remembered'
  <2>1. /\ bound' = bound /\ pinned' = pinned /\ key' = key /\ core' = core
        /\ pc[c] = "leased" /\ pc'[c] \in Leasing /\ pc'[c] # "pinned"
        /\ \A d \in Clients \ {c} : pc'[d] = pc[d] /\ instance'[d] = instance[d]
    BY <1>u, <1>6 DEF Choose, sched
  <2>2. key'[c] \in Keys \ Expiring => bound.val[key'[c]] = core'[c]
    BY <2>1 DEF Remembered
  <2> QED BY <1>u, <2>1, <2>2, RememberedByOthers
<1>7. ASSUME NEW c \in Clients, ChooseFails(c) PROVE Remembered'
  <2>1. /\ bound' = bound /\ pinned' = pinned /\ key' = key /\ core' = core
        /\ pc[c] = "leased" /\ pc'[c] \in Leasing /\ pc'[c] # "pinned" /\ instance' = instance
        /\ \A d \in Clients \ {c} : pc'[d] = pc[d]
    BY <1>u, <1>7 DEF ChooseFails, sched
  <2>2. key'[c] \in Keys \ Expiring => bound.val[key'[c]] = core'[c]
    BY <2>1 DEF Remembered
  <2> QED BY <1>u, <2>1, <2>2, RememberedByOthers
<1>8. ASSUME NEW c \in Clients, Pin(c) PROVE Remembered'
  <2>0. PICK p \in Pools : p = poolOf[c]
    BY <1>u
  <2>1. /\ bound' = bound /\ key' = key /\ core' = core /\ instance' = instance
        /\ pc[c] = "chosen" /\ pc'[c] = "held"
        /\ \A d \in Clients \ {c} : pc'[d] = pc[d]
    BY <1>u, <1>8 DEF Pin, sched
  <2>2. key[c] \in Keys /\ instance[c] \in Instances(p) /\ core[c] = Placement(p, instance[c])
    <3>1. key[c] \in Keys /\ instance[c] \in Instances(p) /\ instance[c] # 0
      BY <1>u, <2>0, <2>1, SchedulerAssumption DEF ClientOK, Instances
    <3> QED BY <1>u, <2>0, <2>1, <3>1 DEF LeaseMatchesInstance
  <2>3. PICK v \in Insert(pinned[p], key[c], instance[c], InstanceCount[p]) :
           pinned' = [pinned EXCEPT ![p] = v]
    BY <1>8, <2>0 DEF Pin
  <2>4. ASSUME NEW j \in Keys
        PROVE  v.val[j] \in {0, pinned[p].val[j]} \/ (j = key[c] /\ v.val[j] = instance[c])
    <3>1. CASE v = Use(pinned[p], key[c], instance[c])
      BY <1>u, <3>1, TableValues
    <3>2. ASSUME NEW o \in Keys, v = Use(Remove(pinned[p], o), key[c], instance[c])
          PROVE  v.val[j] \in {0, pinned[p].val[j]} \/ (j = key[c] /\ v.val[j] = instance[c])
      <4>1. Remove(pinned[p], o) \in Tables(Nat) /\ Remove(pinned[p], o).val[j] \in {0, pinned[p].val[j]}
        BY <1>u, TableValues, RemoveKeepsTable
      <4> QED BY <3>2, <4>1, TableValues
    <3> QED BY <2>3, <3>1, <3>2 DEF Insert
  <2>5. ASSUME NEW q \in Pools, NEW j \in Keys \ Expiring, pinned'[q].val[j] # 0
        PROVE  bound'.val[j] = Placement(q, pinned'[q].val[j])
    <3>1. CASE q # p
      BY <1>u, <2>1, <2>3, <2>5, <3>1 DEF Remembered
    <3>2. CASE q = p /\ v.val[j] = pinned[p].val[j]
      BY <1>u, <2>1, <2>3, <2>5, <3>2 DEF Remembered
    <3>3. CASE q = p /\ j = key[c] /\ v.val[j] = instance[c]
      <4>1. bound.val[j] = core[c]
        BY <2>1, <3>3 DEF Remembered
      <4> QED BY <1>u, <2>1, <2>2, <2>3, <3>3, <4>1
    <3>4. q = p => pinned'[q] = v
      BY <1>u, <2>3
    <3> QED BY <2>4, <2>5, <3>1, <3>2, <3>3, <3>4
  <2>6. \A d \in Clients : key'[d] \in Keys \ Expiring =>
          /\ pc'[d] = "pinned" => bound'.val[key'[d]] = Placement(poolOf[d], instance'[d])
          /\ pc'[d] \in Leasing => bound'.val[key'[d]] = core'[d]
    BY <2>1 DEF Remembered
  <2>7. \A j \in Keys, d \in Clients :
          bound'.val[j] # 0 => Kind[bound'.val[j]] = KindOf(poolOf[d])
    BY <2>1 DEF Remembered
  <2> QED BY <1>u, <2>5, <2>6, <2>7 DEF Remembered, Placement, KindOf
<1>9. ASSUME NEW c \in Clients, Release(c) PROVE Remembered'
  <2>1. /\ bound' = bound /\ pinned' = pinned /\ key'[c] = NoKey
        /\ \A d \in Clients \ {c} : /\ pc'[d] = pc[d] /\ key'[d] = key[d]
                                    /\ core'[d] = core[d] /\ instance'[d] = instance[d]
    BY <1>u, <1>9 DEF Release, pool
  <2> QED BY <1>u, <1>z, <2>1, RememberedByOthers
<1>10. ASSUME NEW p \in Pools, NEW k \in Keys, RemoveAffinity(p, k) PROVE Remembered'
  <2>1. bound' = bound /\ pc' = pc /\ key' = key /\ core' = core /\ instance' = instance
        /\ pinned' = [pinned EXCEPT ![p] = Remove(pinned[p], k)]
    BY <1>10 DEF RemoveAffinity, sched, client
  <2>2. \A q \in Pools, j \in Keys : pinned'[q].val[j] \in {0, pinned[q].val[j]}
    BY <1>u, <2>1, TableValues
  <2>3. \A q \in Pools, j \in Keys \ Expiring :
          pinned'[q].val[j] # 0 => bound'.val[j] = Placement(q, pinned'[q].val[j])
    BY <2>1, <2>2 DEF Remembered
  <2> QED BY <1>u, <2>1, <2>3 DEF Remembered, Placement, KindOf
<1> QED BY <1>1, <1>2, <1>3, <1>4, <1>5, <1>6, <1>7, <1>8, <1>9, <1>10 DEF Next, Step

\* The tables stay within their limits, and clients of a pool that work on the same
\* stream hold the same core, also when their first checkouts race past the pool's
\* table, for any topology, pools, streams and number of clients.
THEOREM StreamsAreKept == Spec => []StreamsStayPut
<1>1. Init => SInv
  <2> SUFFICES ASSUME Init PROVE SInv
    OBVIOUS
  <2>1. Entries(Empty) = {} /\ Cardinality({}) = 0
    BY FS_EmptySet DEF Entries, Empty
  <2>2. AffinityBounded
    BY <2>1, Limits DEF Init, AffinityBounded, TableBounded
  <2>3. Remembered /\ NoKeyWhenIdle
    BY SchedulerAssumption DEF Init, Empty, Remembered, NoKeyWhenIdle
  <2> QED BY <2>2, <2>3 DEF SInv
<1>2. IInv /\ SInv /\ [Next]_vars => SInv'
  <2> SUFFICES ASSUME IInv, SInv, [Next]_vars PROVE SInv'
    OBVIOUS
  <2>1. AffinityBounded' /\ NoKeyWhenIdle'
    BY AffinityKept, IdleKept DEF SInv, IInv
  <2>2. ASSUME RoomForAll' PROVE Remembered'
    <3>1. poolOf' = poolOf
      BY DEF Next, vars
    <3>2. RoomForAll
      BY <2>2, <3>1 DEF RoomForAll, KindOf, Placement
    <3>3. CASE Next
      BY <3>2, <3>3, RememberedKept DEF SInv
    <3>4. CASE UNCHANGED vars
      BY <3>2, <3>4 DEF SInv, Remembered, vars, sched, pool, client, KindOf, Placement
    <3> QED BY <3>3, <3>4
  <2> QED BY <2>1, <2>2 DEF SInv
<1>3. IInv /\ SInv => StreamsStayPut
  <2> SUFFICES ASSUME IInv, SInv,
                      Cardinality({KindOf(poolOf[c]) : c \in Clients}) = 1,
                      Cardinality(Keys) <= Cardinality(Cores),
                      NEW c \in Clients, NEW d \in Clients,
                      {pc[c], pc[d]} \subseteq Leasing, key[c] = key[d],
                      key[c] \in Keys \ Expiring
               PROVE  core[c] = core[d]
    BY DEF StreamsStayPut, SInv, SameStreamSameCore
  <2> DEFINE D == {KindOf(poolOf[e]) : e \in Clients}
  <2>1. IsFiniteSet(D)
    <3> DEFINE f == [e \in Clients |-> KindOf(poolOf[e])]
    <3>1. f \in Surjection(Clients, D)
      BY DEF Surjection
    <3> QED BY <3>1, SchedulerAssumption, FS_Surjection
  <2>2. \E k : D = {k}
    BY <2>1, FS_Singleton
  <2>3. RoomForAll
    BY <2>2 DEF RoomForAll
  <2> QED BY <2>3 DEF SInv, Remembered
<1> QED BY <1>1, <1>2, <1>3, IInvHolds, PTL DEF Spec

=============================================================================
