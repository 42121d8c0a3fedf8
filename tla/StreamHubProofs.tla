--------------------------- MODULE StreamHubProofs ---------------------------
(***************************************************************************)
(* The stream hub for any number of URLs, publishers, subscribers and      *)
(* frames, any limits and any policy: the registry, the publisher counter  *)
(* and the handles agree, no entry is reaped under a handle, a hole in a   *)
(* stream ends in a keyframe, and a clean end is a complete stream.        *)
(***************************************************************************)
EXTENDS StreamHub, FiniteSetTheorems, SequenceTheorems, WellFoundedInduction, TLAPS

HandleRec ==
    [at : {"none", "found", "leaving", "reaping", "gone", "closing"} \cup Listening,
     url : Urls \cup {None}, core : Cores \cup {None}, id : Ids \cup {None}, left : Nat]

\* What each kind of handle has at each point of its calls.
HandleOK(a, r, cs, is) ==
    /\ r \in HandleRec
    /\ r.at # "none" => r.url \in Urls /\ r.core \in 1 .. cs
    /\ a \in Pubs => r.at \notin {"receiving", "waiting", "ended"}
    /\ a \in Subs => r.at # "closing"
    /\ a \in Subs /\ r.at \in Listening => r.id \in 1 .. is
    /\ a \in Reqs => r.at \in {"none", "found"}

HandlesOK ==
    /\ h \in [Actors -> HandleRec]
    /\ \A a \in Actors : HandleOK(a, h[a], ncores, nid)

\* A core is registered once, and its handles know the URL it is registered for.
RegistryOK ==
    /\ \A u \in Urls : streams[u] # None => streams[u] \in 1 .. ncores
    /\ \A u, v \in Urls : streams[u] # None /\ streams[u] = streams[v] => u = v
    /\ \A u \in Urls, a \in Actors :
         streams[u] # None /\ h[a].at # "none" /\ h[a].core = streams[u] => h[a].url = u

\* Where handles are closed before they are let go, every member of a core has
\* a handle that will close it, and every registered core has a handle that
\* will look at it again or a keyframe request.
Kept ==
    ~use.drops =>
      /\ \A c \in Cores : \A i \in members[c] :
           \E s \in Subs : h[s].at \in Listening /\ h[s].core = c /\ h[s].id = i
      /\ \A u \in Registered :
           \/ requests[streams[u]] > 0
           \/ \E a \in Actors : h[a].at \notin {"none", "gone"} /\ h[a].core = streams[u]

FrameRec == [n : Nat, key : BOOLEAN]

HistoryOK ==
    /\ nframes \in Nat
    /\ taken \in [Ids -> Seq(FrameRec)]
    /\ due \in [Ids -> SUBSET (1 .. nframes)]

\* What a subscriber got, s, of the frames due, d, of the n pushed so far: it is
\* increasing, a hole in it ends in a keyframe, and a frame missed at its end is
\* remembered in dropping_until_keyframe.
SoundStream(s, d, n, drop) ==
    /\ \A k \in 1 .. Len(s) : s[k].n <= n
    /\ \A k, m \in 1 .. Len(s) : k < m => s[k].n < s[m].n
    /\ ~drop /\ s # <<>> => \A x \in d : x <= s[Len(s)].n
    /\ \A k \in 1 .. Len(s) - 1 :
         (\E x \in d : s[k].n < x /\ x < s[k + 1].n) => s[k + 1].key

\* Policy DropUntilNextKeyframe never overflows and hands out sound streams.
HolesOK ==
    use.policy = "DropUntilNextKeyframe" => \A i \in Ids :
      ~overflowed[i] /\ SoundStream(Stream(i), due[i], nframes, dropping[i])

\* Policy DisconnectOnOverflow: until it overflows, a queue has every frame due.
CompleteOK ==
    use.policy = "DisconnectOnOverflow" => \A i \in Ids :
      /\ ~dropping[i]
      /\ ~overflowed[i] => Numbers(taken[i]) \cup Numbers(queue[i]) = due[i]

IInv == TypeOK /\ HistoryOK /\ OpenPublisherAccepted /\ HandlesOK /\ RegistryOK /\ Kept

-----------------------------------------------------------------------------
(* Queues *)

\* A non-empty set of natural numbers has a least element.
LEMMA LeastNumber ==
  ASSUME NEW T \in SUBSET Nat, T # {}
  PROVE  \E m \in T : \A k \in T : m <= k
  <1> DEFINE R == OpToRel(<, Nat)
  <1>1. ASSUME NEW x \in Nat, NEW y \in Nat, x < y PROVE <<x, y>> \in R
    BY <1>1, Zenon DEF OpToRel
  <1>2. IsWellFoundedOn(R, Nat)
    BY NatLessThanWellFounded, Zenon
  <1> HIDE DEF R
  <1>3. PICK m \in T : \A k \in T : ~(<<k, m>> \in R)
    BY <1>2, WFMin
  <1>4. ASSUME NEW k \in T PROVE m <= k
    <2>1. k \in Nat /\ m \in Nat /\ <<k, m>> \notin R
      BY <1>3
    <2>2. ~(k < m)
      BY <1>1, <2>1
    <2> QED BY <2>1, <2>2
  <1> QED BY <1>4

\* push_frame evicts a frame that is in the queue.
LEMMA DroppableInQueue ==
  ASSUME NEW S, NEW q \in Seq(S), q # <<>>
  PROVE  Droppable(q) \in 1 .. Len(q)
  <1> DEFINE deltas == {k \in DOMAIN q : ~q[k].key}
  <1>1. Len(q) \in Nat /\ Len(q) > 0 /\ DOMAIN q = 1 .. Len(q)
    BY EmptySeq, LenProperties
  <1>2. CASE deltas = {}
    BY <1>1, <1>2 DEF Droppable
  <1>3. CASE deltas # {}
    <2>1. deltas \in SUBSET Nat
      BY <1>1
    <2> HIDE DEF deltas
    <2>2. \E k \in deltas : \A m \in deltas : k <= m
      BY <1>3, <2>1, LeastNumber
    <2>3. (CHOOSE k \in deltas : \A m \in deltas : k <= m) \in deltas
      BY <2>2
    <2>4. deltas \subseteq 1 .. Len(q)
      BY <1>1 DEF deltas
    <2> QED BY <1>3, <2>3, <2>4 DEF Droppable, deltas
  <1> QED BY <1>2, <1>3

\* Taking one element out of a sequence shortens it by one.
LEMMA WithoutShorter ==
  ASSUME NEW S, NEW q \in Seq(S), NEW k \in 1 .. Len(q)
  PROVE  Without(q, k) \in Seq(S) /\ Len(Without(q, k)) = Len(q) - 1
  <1>1. Len(q) \in Nat /\ \A i \in 1 .. Len(q) : q[i] \in S
    BY LenProperties, ElementOfSeq
  <1>2. SubSeq(q, 1, k - 1) \in Seq(S) /\ Len(SubSeq(q, 1, k - 1)) = k - 1
    BY <1>1, SubSeqProperties
  <1>3. /\ SubSeq(q, k + 1, Len(q)) \in Seq(S)
        /\ Len(SubSeq(q, k + 1, Len(q))) = Len(q) - k
    BY <1>1, SubSeqProperties
  <1>4. Without(q, k) = SubSeq(q, 1, k - 1) \o SubSeq(q, k + 1, Len(q))
    BY DEF Without
  <1>5. /\ Without(q, k) \in Seq(S)
        /\ Len(Without(q, k)) = Len(SubSeq(q, 1, k - 1)) + Len(SubSeq(q, k + 1, Len(q)))
    BY <1>2, <1>3, <1>4, ConcatProperties
  <1>6. Len(Without(q, k)) = (k - 1) + (Len(q) - k)
    BY <1>2, <1>3, <1>5
  <1>7. ASSUME NEW m \in Int, NEW j \in Int PROVE (j - 1) + (m - j) = m - 1
    OBVIOUS
  <1>8. (k - 1) + (Len(q) - k) = Len(q) - 1
    BY <1>1, <1>7
  <1> QED BY <1>5, <1>6, <1>8

UpTo(n) == [n : 1 .. n, key : BOOLEAN]

\* A queue stays within its capacity whatever push_frame does to it.
LEMMA OfferFits ==
  ASSUME use \in Uses, NEW n \in Nat, NEW q \in Seq(UpTo(n)), Len(q) <= use.capacity,
         NEW drop \in BOOLEAN, NEW f \in UpTo(n + 1)
  PROVE  /\ Offer(q, drop, f).queue \in Seq(UpTo(n + 1))
         /\ Len(Offer(q, drop, f).queue) <= use.capacity
         /\ Offer(q, drop, f).overflowed \in BOOLEAN
         /\ Offer(q, drop, f).dropping \in BOOLEAN
  <1>1. use.capacity \in Nat \ {0} /\ f.key \in BOOLEAN
        /\ use.policy \in {"DropDroppableFirst", "DropUntilNextKeyframe",
                           "DisconnectOnOverflow"}
    BY HubAssumption DEF UpTo
  <1>2. q \in Seq(UpTo(n + 1)) /\ Len(q) \in Nat
    <2>1. UpTo(n) \subseteq UpTo(n + 1)
      BY DEF UpTo
    <2>2. q \in Seq(UpTo(n + 1))
      BY <2>1, SeqMonotonic
    <2> QED BY <2>2, LenProperties
  <1>3. CASE SkipsDelta(drop, f)
    BY <1>2, <1>3 DEF Offer
  <1>4. CASE ~SkipsDelta(drop, f) /\ ~Full(q)
    <2>1. Append(q, f) \in Seq(UpTo(n + 1)) /\ Len(Append(q, f)) = Len(q) + 1
      BY <1>2, AppendProperties
    <2>2. Offer(q, drop, f) = [queue |-> Append(q, f), overflowed |-> FALSE,
                               dropping |-> FALSE]
      BY <1>4 DEF Offer
    <2>3. Len(q) + 1 <= use.capacity
      BY <1>1, <1>2, <1>4 DEF Full
    <2> QED BY <2>1, <2>2, <2>3
  <1>5. CASE ~SkipsDelta(drop, f) /\ Full(q)
    <2>1. Offer(q, drop, f) = OfferFull(q, f)
      BY <1>5 DEF Offer
    <2>2. CASE use.policy = "DropDroppableFirst"
      <3>1. q # <<>>
        BY <1>1, <1>2, <1>5, EmptySeq DEF Full
      <3>2. Droppable(q) \in 1 .. Len(q)
        BY <1>2, <3>1, DroppableInQueue
      <3> DEFINE w == Without(q, Droppable(q))
      <3>3. w \in Seq(UpTo(n + 1)) /\ Len(w) = Len(q) - 1
        BY <1>2, <3>2, WithoutShorter
      <3> HIDE DEF w
      <3>4. Append(w, f) \in Seq(UpTo(n + 1)) /\ Len(Append(w, f)) = Len(w) + 1
        BY <3>3, AppendProperties
      <3>5. OfferFull(q, f) = [queue |-> Append(w, f), overflowed |-> FALSE,
                               dropping |-> FALSE]
        BY <2>2 DEF OfferFull, w
      <3> QED BY <1>1, <1>2, <2>1, <3>3, <3>4, <3>5
    <2>3. CASE use.policy = "DropUntilNextKeyframe"
      <3>1. OfferFull(q, f) = [queue |-> IF f.key THEN <<f>> ELSE q,
                               overflowed |-> FALSE, dropping |-> ~f.key]
        BY <2>3 DEF OfferFull
      <3>2. <<f>> \in Seq(UpTo(n + 1)) /\ Len(<<f>>) = 1
        OBVIOUS
      <3>3. CASE f.key
        BY <1>1, <2>1, <3>1, <3>2, <3>3
      <3>4. CASE ~f.key
        BY <1>1, <1>2, <2>1, <3>1, <3>4
      <3> QED BY <3>3, <3>4
    <2>4. CASE use.policy = "DisconnectOnOverflow"
      <3>1. OfferFull(q, f) = [queue |-> <<>>, overflowed |-> TRUE, dropping |-> FALSE]
        BY <2>4 DEF OfferFull
      <3> QED BY <1>1, <2>1, <3>1, EmptySeq
    <2> QED BY <1>1, <2>2, <2>3, <2>4
  <1> QED BY <1>3, <1>4, <1>5

-----------------------------------------------------------------------------
(* Which steps touch what *)

\* Only push_frame and recv change queues and histories.
LEMMA InboxSteps ==
  ASSUME [Next]_vars
  PROVE  \/ UNCHANGED <<use, inbox, history>>
         \/ \E p \in Pubs, key \in BOOLEAN, m \in Media : PushFrame(p, key, m)
         \/ \E s \in Subs : RecvFrame(s)
  <1>1. ASSUME NEW a \in Actors, NEW u \in Urls, GetOrCreate(a, u)
        PROVE  UNCHANGED <<use, inbox, history>>
    BY <1>1 DEF GetOrCreate, registry
  <1> QED
  BY <1>1 DEF Next, vars, inbox, history, registry, ReapLook, ReapRemove,
     Release, Publish, PublisherClose, PublisherLeave, TakeKeyframeRequests,
     RequestKeyframe, Subscribe, SubscribeRefused, CloneSubscriber, RecvMissing,
     RecvOverflow, RecvEnd, RecvWait, RecvTimedOut, SubscriberClose, SubscriberDrop

\* Only the registry lookup and try_reap change the registry.
LEMMA RegistrySteps ==
  ASSUME [Next]_vars
  PROVE  \/ UNCHANGED registry
         \/ \E a \in Actors, u \in Urls : GetOrCreate(a, u)
         \/ \E a \in Actors : ReapRemove(a)
  <1>1. ASSUME NEW p \in Pubs, NEW key \in BOOLEAN, NEW m \in Media, PushFrame(p, key, m)
        PROVE  UNCHANGED registry
    BY <1>1 DEF PushFrame
  <1> QED
  BY <1>1 DEF Next, vars, registry, ReapLook,
     Release, Publish, PublisherClose, PublisherLeave, TakeKeyframeRequests,
     RequestKeyframe, Subscribe, SubscribeRefused, CloneSubscriber, RecvMissing, RecvFrame,
     RecvOverflow, RecvEnd, RecvWait, RecvTimedOut, SubscriberClose, SubscriberDrop

-----------------------------------------------------------------------------
(* Types, limits and handles *)

\* Later cores and ids leave a handle as it is.
LEMMA HandleGrows ==
  ASSUME NEW a, NEW r, NEW cs \in Nat, NEW ds \in Nat, NEW is \in Nat, NEW js \in Nat,
         cs <= ds, is <= js, HandleOK(a, r, cs, is)
  PROVE  HandleOK(a, r, ds, js)
  <1>1. 1 .. cs \subseteq 1 .. ds /\ 1 .. is \subseteq 1 .. js
    OBVIOUS
  <1> QED BY <1>1 DEF HandleOK

\* A step that changes one handle has only that one to answer for.
LEMMA OneHandle ==
  ASSUME HandlesOK, ncores \in Nat, nid \in Nat, ncores' \in Nat, nid' \in Nat,
         ncores <= ncores', nid <= nid',
         NEW a \in Actors, NEW r, HandleOK(a, r, ncores', nid'), h' = [h EXCEPT ![a] = r]
  PROVE  HandlesOK'
  <1>1. h' \in [Actors -> HandleRec]
    BY DEF HandlesOK, HandleOK
  <1>2. ASSUME NEW b \in Actors PROVE HandleOK(b, h'[b], ncores', nid')
    <2>1. CASE b = a
      BY <2>1 DEF HandlesOK
    <2>2. CASE b # a
      <3>1. h'[b] = h[b]
        BY <2>2 DEF HandlesOK
      <3>2. HandleOK(b, h[b], ncores, nid)
        BY DEF HandlesOK
      <3> QED BY <3>1, <3>2, HandleGrows
    <2> QED BY <2>1, <2>2
  <1> QED BY <1>1, <1>2 DEF HandlesOK

\* notify_all moves subscribers that wait; one other handle may move as well.
LEMMA WokenHandles ==
  ASSUME HandlesOK, UNCHANGED <<ncores, nid>>, NEW a \in Actors, NEW c, NEW r,
         HandleOK(a, r, ncores, nid),
         h' = [b \in Actors |->
                 IF b = a THEN r
                 ELSE IF b \in Woken(c) THEN [h[b] EXCEPT !.at = "receiving"]
                 ELSE h[b]]
  PROVE  HandlesOK'
  <1>1. ASSUME NEW b \in Actors PROVE HandleOK(b, h'[b], ncores, nid) /\ h'[b] \in HandleRec
    <2>1. CASE b = a
      BY <2>1 DEF HandleOK
    <2>2. CASE b # a /\ b \in Woken(c)
      <3>1. b \in Subs /\ h[b].at = "waiting" /\ h'[b] = [h[b] EXCEPT !.at = "receiving"]
        BY <2>2 DEF Woken, At
      <3>2. HandleOK(b, h[b], ncores, nid)
        BY DEF HandlesOK
      <3> QED BY <3>1, <3>2, HubAssumption DEF HandleOK, HandleRec, Listening
    <2>3. CASE b # a /\ b \notin Woken(c)
      BY <2>3 DEF HandlesOK, HandleOK
    <2> QED BY <2>1, <2>2, <2>3
  <1>2. h' \in [Actors -> HandleRec]
    BY <1>1
  <1> QED BY <1>1, <1>2 DEF HandlesOK

\* The counters of cores and of subscriber ids only grow, up to their bounds.
LEMMA CountersGrow ==
  ASSUME ncores \in 0 .. MaxCores, nid \in 0 .. MaxIds, [Next]_vars
  PROVE  /\ ncores' \in 0 .. MaxCores /\ ncores <= ncores'
         /\ nid' \in 0 .. MaxIds /\ nid <= nid'
  <1> USE HubAssumption
  <1>1. CASE \E a \in Actors, u \in Urls : GetOrCreate(a, u)
    BY <1>1 DEF GetOrCreate, registry
  <1>2. CASE \E s \in Subs : Subscribe(s)
    BY <1>2 DEF Subscribe, registry
  <1>3. CASE UNCHANGED <<ncores, nid>>
    BY <1>3
  <1> QED
    BY <1>1, <1>2, <1>3 DEF Next, vars, registry, core, inbox, history, ReapLook, ReapRemove,
     Release, Publish, PublisherClose, PublisherLeave, TakeKeyframeRequests, PushFrame,
     RequestKeyframe, SubscribeRefused, CloneSubscriber, RecvMissing, RecvFrame,
     RecvOverflow, RecvEnd, RecvWait, RecvTimedOut, SubscriberClose, SubscriberDrop

\* Handles keep their types, and the points of a call keep their meaning.
LEMMA HandlesKept ==
  ASSUME HandlesOK, streams \in [Urls -> Cores \cup {None}], RegistryOK,
         ncores \in 0 .. MaxCores, nid \in 0 .. MaxIds, [Next]_vars
  PROVE  HandlesOK'
  <1>1. /\ ncores \in Nat /\ nid \in Nat /\ ncores' \in Nat /\ nid' \in Nat
        /\ ncores <= ncores' /\ nid <= nid' /\ ncores' <= MaxCores /\ nid' <= MaxIds
        /\ MaxCores \in Nat /\ MaxIds \in Nat
    BY CountersGrow, HubAssumption
  <1>2. Pubs \subseteq Actors /\ Subs \subseteq Actors /\ Reqs \subseteq Actors
    BY DEF Actors
  <1>3. ASSUME NEW a \in Actors PROVE HandleOK(a, h[a], ncores', nid')
    BY <1>1, HandleGrows DEF HandlesOK
  <1> DEFINE Ok(a, r) == HandleOK(a, r, ncores', nid')
  <1>4. ASSUME NEW a \in Actors, NEW r, Ok(a, r), h' = [h EXCEPT ![a] = r]
        PROVE  HandlesOK'
    BY <1>1, <1>4, OneHandle
  <1>5. ASSUME NEW a \in Actors, NEW at, Goto(a, at), Ok(a, [h[a] EXCEPT !.at = at])
        PROVE  HandlesOK'
    BY <1>4, <1>5 DEF Goto
  <1>6. ASSUME NEW a \in Actors, h' = [h EXCEPT ![a] = Idle(h[a].left)]
        PROVE  HandlesOK'
    <2>1. Ok(a, Idle(h[a].left))
      BY <1>3 DEF HandleOK, HandleRec, Idle, Listening
    <2> QED BY <1>4, <1>6, <2>1
  <1>7. CASE \E a \in Actors, u \in Urls : GetOrCreate(a, u)
    <2>1. PICK a \in Actors, u \in Urls : GetOrCreate(a, u)
      BY <1>7
    <2>2. PICK c \in 1 .. ncores' : h' = [h EXCEPT ![a] = [h[a] EXCEPT !.at = "found",
                                        !.url = u, !.core = c, !.left = h[a].left - 1]]
      <3>1. CASE streams[u] # None
        <4>1. streams[u] \in 1 .. ncores'
          BY <1>1, <3>1 DEF RegistryOK
        <4> QED BY <2>1, <3>1, <4>1 DEF GetOrCreate
      <3>2. CASE streams[u] = None
        <4>1. ncores' \in 1 .. ncores'
          BY <1>1, <2>1, <3>2 DEF GetOrCreate
        <4>2. h' = [h EXCEPT ![a].at = "found", ![a].url = u, ![a].core = ncores',
                             ![a].left = @ - 1]
          BY <2>1, <3>2 DEF GetOrCreate
        <4> QED BY <4>1, <4>2 DEF HandlesOK
      <3> QED BY <3>1, <3>2
    <2>3. c \in Cores /\ h[a].at = "none" /\ h[a].left > 0
      BY <1>1, <2>1 DEF Cores, GetOrCreate, At
    <2> DEFINE r == [h[a] EXCEPT !.at = "found", !.url = u, !.core = c,
                                 !.left = h[a].left - 1]
    <2>4. h[a] \in HandleRec /\ h[a].left - 1 \in Nat
      BY <1>3, <2>3 DEF HandleOK, HandleRec
    <2>5. /\ r \in HandleRec /\ r.at = "found" /\ r.url = u /\ r.core = c
      BY <2>3, <2>4 DEF HandleRec
    <2>6. h' = [h EXCEPT ![a] = r]
      BY <2>2
    <2> HIDE DEF r
    <2>7. Ok(a, r)
      BY <2>5 DEF HandleOK, Listening
    <2> QED BY <1>4, <2>6, <2>7
  <1>8. CASE \E a \in Actors : ReapLook(a) \/ ReapRemove(a)
    <2>1. PICK a \in Actors, at \in {"reaping", "gone"} :
               h[a].at \in {"leaving", "reaping"} /\ Goto(a, at)
      BY <1>8 DEF ReapLook, ReapRemove, At
    <2>2. Ok(a, [h[a] EXCEPT !.at = at])
      BY <1>3, <2>1 DEF HandleOK, HandleRec, Listening
    <2> QED BY <1>5, <2>1, <2>2
  <1>9. CASE \/ \E a \in Actors : Release(a)
             \/ \E a \in Reqs : RequestKeyframe(a)
             \/ \E a \in Subs : SubscriberDrop(a)
    BY <1>2, <1>6, <1>9 DEF Release, RequestKeyframe, SubscriberDrop
  <1>10. CASE \E p \in Pubs : Publish(p) \/ PublisherClose(p)
    <2>1. PICK p \in Pubs, at \in {"open", "closing"} :
               h[p].at \in {"found", "open"} /\ Goto(p, at)
      BY <1>10 DEF Publish, PublisherClose, At
    <2>2. Ok(p, [h[p] EXCEPT !.at = at])
      BY <1>2, <1>3, <2>1, HubAssumption DEF HandleOK, HandleRec, Listening
    <2> QED BY <1>2, <1>5, <2>1, <2>2
  <1>11. CASE \E p \in Pubs : PublisherLeave(p)
    <2>1. PICK p \in Pubs : PublisherLeave(p)
      BY <1>11
    <2>2. UNCHANGED <<ncores, nid>> /\ h[p].at = "closing"
      BY <2>1 DEF PublisherLeave, registry, At
    <2> DEFINE r == [h[p] EXCEPT !.at = "leaving"]
    <2>3. HandleOK(p, r, ncores, nid)
      BY <1>2, <2>2, HubAssumption DEF HandlesOK, HandleOK, HandleRec, Listening
    <2>4. h' = [b \in Actors |->
                 IF b = p THEN r
                 ELSE IF b \in Woken(h[p].core) THEN [h[b] EXCEPT !.at = "receiving"]
                 ELSE h[b]]
      BY <2>1 DEF PublisherLeave
    <2> HIDE DEF r
    <2> QED BY <1>2, <2>2, <2>3, <2>4, WokenHandles
  <1>12. CASE \E p \in Pubs, key \in BOOLEAN, m \in Media : PushFrame(p, key, m)
    <2>1. PICK p \in Pubs, key \in BOOLEAN, m \in Media : PushFrame(p, key, m)
      BY <1>12
    <2>2. UNCHANGED <<ncores, nid>> /\ p \notin Woken(h[p].core)
      BY <2>1, HubAssumption DEF PushFrame, registry, Woken
    <2>3. HandleOK(p, h[p], ncores, nid)
      BY <1>2 DEF HandlesOK
    <2>4. h' = [b \in Actors |->
                 IF b = p THEN h[p]
                 ELSE IF b \in Woken(h[p].core) THEN [h[b] EXCEPT !.at = "receiving"]
                 ELSE h[b]]
      BY <2>1, <2>2 DEF PushFrame
    <2> QED BY <1>2, <2>2, <2>3, <2>4, WokenHandles
  <1>13. CASE \E s \in Subs : Subscribe(s)
    <2>1. PICK s \in Subs : Subscribe(s)
      BY <1>13
    <2>2. nid' \in 1 .. nid' /\ nid' \in Ids /\ h[s].at = "found"
      BY <1>1, <2>1 DEF Subscribe, At, Ids
    <2>3. Ok(s, [h[s] EXCEPT !.at = "open", !.id = nid'])
      BY <1>2, <1>3, <2>2, HubAssumption DEF HandleOK, HandleRec, Listening
    <2> QED BY <1>2, <1>4, <2>1, <2>3 DEF Subscribe
  <1>14. CASE \E s \in Subs : SubscribeRefused(s) \/ RecvMissing(s) \/ RecvOverflow(s)
    <2>1. PICK s \in Subs, at \in {"gone", "leaving"} : h[s].at # "none" /\ Goto(s, at)
      BY <1>14 DEF SubscribeRefused, RecvMissing, RecvOverflow, At, Receiving
    <2>2. Ok(s, [h[s] EXCEPT !.at = at])
      BY <1>2, <1>3, <2>1, HubAssumption DEF HandleOK, HandleRec, Listening
    <2> QED BY <1>2, <1>5, <2>1, <2>2
  <1>15. CASE \E s \in Subs : RecvFrame(s) \/ RecvEnd(s) \/ RecvWait(s) \/ RecvTimedOut(s)
    <2>1. PICK s \in Subs, at \in {"open", "ended", "waiting"} :
               h[s].at \in Listening /\ Goto(s, at)
      BY <1>15 DEF RecvFrame, RecvEnd, RecvWait, RecvTimedOut, At, Receiving, Listening
    <2>2. Ok(s, [h[s] EXCEPT !.at = at])
      BY <1>2, <1>3, <2>1, HubAssumption DEF HandleOK, HandleRec, Listening
    <2> QED BY <1>2, <1>5, <2>1, <2>2
  <1>16. CASE \E s \in Subs : SubscriberClose(s)
    <2>1. PICK s \in Subs : SubscriberClose(s)
      BY <1>16
    <2>2. UNCHANGED <<ncores, nid>> /\ h[s].at \in {"open", "ended"}
      BY <2>1 DEF SubscriberClose, registry, At
    <2> DEFINE r == [h[s] EXCEPT !.at = "leaving"]
    <2>3. HandleOK(s, r, ncores, nid)
      BY <1>2, <2>2, HubAssumption DEF HandlesOK, HandleOK, HandleRec, Listening
    <2>4. h' = [b \in Actors |->
                 IF b = s THEN r
                 ELSE IF b \in Woken(h[s].core) THEN [h[b] EXCEPT !.at = "receiving"]
                 ELSE h[b]]
      BY <2>1 DEF SubscriberClose
    <2> HIDE DEF r
    <2> QED BY <1>2, <2>2, <2>3, <2>4, WokenHandles
  <1>17. CASE \E s \in Subs, t \in Subs : CloneSubscriber(s, t)
    <2>1. PICK s \in Subs, t \in Subs : CloneSubscriber(s, t)
      BY <1>17
    <2>2. h[s].at = "open" /\ h[t].left > 0
      BY <2>1 DEF CloneSubscriber, At
    <2>3. Ok(t, [h[s] EXCEPT !.left = h[t].left - 1])
      BY <1>2, <1>3, <2>2, HubAssumption DEF HandleOK, HandleRec, Listening
    <2> QED BY <1>2, <1>4, <2>1, <2>3 DEF CloneSubscriber
  <1>18. CASE UNCHANGED h
    BY <1>3, <1>18 DEF HandlesOK
  <1>19. ASSUME NEW p \in Pubs, TakeKeyframeRequests(p) PROVE UNCHANGED h
    BY <1>19 DEF TakeKeyframeRequests
  <1>20. UNCHANGED vars => UNCHANGED h
    BY DEF vars
  <1> QED
    BY <1>7, <1>8, <1>9, <1>10, <1>11, <1>12, <1>13, <1>14, <1>15, <1>16, <1>17, <1>18,
       <1>19, <1>20 DEF Next

-----------------------------------------------------------------------------
(* The registry *)

\* A handle's URL and core come from the registry or from another handle.
LEMMA HandleSteps ==
  ASSUME HandlesOK, [Next]_vars, NEW b \in Actors
  PROVE  \/ h'[b].at = "none"
         \/ \E a \in Actors : /\ h[a].at # "none"
                              /\ h'[b].url = h[a].url /\ h'[b].core = h[a].core
         \/ \E u \in Urls : GetOrCreate(b, u)
  <1> DEFINE Goal == \/ h'[b].at = "none"
                     \/ \E a \in Actors : /\ h[a].at # "none"
                              /\ h'[b].url = h[a].url /\ h'[b].core = h[a].core
                     \/ \E u \in Urls : GetOrCreate(b, u)
  <1>1. h \in [Actors -> HandleRec] /\ h[b] \in HandleRec
    BY DEF HandlesOK
  <1>2. Pubs \subseteq Actors /\ Subs \subseteq Actors /\ Reqs \subseteq Actors
    BY DEF Actors
  <1>3. CASE h'[b] = h[b]
    BY <1>3
  <1>4. ASSUME NEW a \in Actors, NEW at, Goto(a, at), h[a].at # "none"
        PROVE  Goal
    <2>1. CASE b = a
      BY <1>1, <1>4, <2>1 DEF Goto, HandleRec
    <2>2. CASE b # a
      BY <1>1, <1>3, <1>4, <2>2 DEF Goto
    <2> QED BY <2>1, <2>2
  <1>5. ASSUME NEW a \in Actors, NEW l, h' = [h EXCEPT ![a] = Idle(l)]
        PROVE  Goal
    <2>1. CASE b = a
      BY <1>1, <1>5, <2>1 DEF Idle
    <2>2. CASE b # a
      BY <1>1, <1>3, <1>5, <2>2
    <2> QED BY <2>1, <2>2
  <1>6. ASSUME NEW c, h'[b] = [h[b] EXCEPT !.at = "receiving"], b \in Woken(c)
        PROVE  Goal
    BY <1>1, <1>6 DEF Woken, At, HandleRec
  <1>7. ASSUME NEW a \in Actors, NEW u \in Urls, GetOrCreate(a, u)
        PROVE  Goal
    <2>1. CASE b = a
      BY <1>7, <2>1
    <2>2. CASE b # a
      <3>1. h'[b] = h[b]
        BY <1>1, <1>7, <2>2 DEF GetOrCreate
      <3> QED BY <1>3, <3>1
    <2> QED BY <2>1, <2>2
  <1>8. ASSUME NEW a \in Actors, ReapLook(a) \/ ReapRemove(a) \/ Release(a)
        PROVE  Goal
    BY <1>4, <1>5, <1>8 DEF ReapLook, ReapRemove, Release, At
  <1>9. ASSUME NEW p \in Pubs, Publish(p) \/ PublisherClose(p)
        PROVE  Goal
    BY <1>2, <1>4, <1>9 DEF Publish, PublisherClose, At
  <1>10. ASSUME NEW p \in Pubs, PublisherLeave(p)
         PROVE  Goal
    <2>1. CASE b = p
      BY <1>1, <1>10, <2>1 DEF PublisherLeave, At, HandleRec
    <2>2. CASE b # p /\ b \in Woken(h[p].core)
      BY <1>6, <1>10, <2>2 DEF PublisherLeave
    <2>3. CASE b # p /\ b \notin Woken(h[p].core)
      BY <1>3, <1>10, <2>3 DEF PublisherLeave
    <2> QED BY <2>1, <2>2, <2>3
  <1>11. ASSUME NEW p \in Pubs, NEW key \in BOOLEAN, NEW m \in Media, PushFrame(p, key, m)
         PROVE  Goal
    <2>1. CASE b \in Woken(h[p].core)
      BY <1>6, <1>11, <2>1 DEF PushFrame
    <2>2. CASE b \notin Woken(h[p].core)
      BY <1>3, <1>11, <2>2 DEF PushFrame
    <2> QED BY <2>1, <2>2
  <1>12. ASSUME NEW r \in Reqs, RequestKeyframe(r)
         PROVE  Goal
    BY <1>2, <1>5, <1>12 DEF RequestKeyframe
  <1>13. ASSUME NEW s \in Subs, Subscribe(s)
         PROVE  Goal
    <2>1. CASE b = s
      BY <1>1, <1>13, <2>1 DEF Subscribe, At, HandleRec
    <2>2. CASE b # s
      BY <1>1, <1>3, <1>13, <2>2 DEF Subscribe
    <2> QED BY <2>1, <2>2
  <1>14. ASSUME NEW s \in Subs, \/ SubscribeRefused(s) \/ RecvMissing(s) \/ RecvOverflow(s)
                                \/ RecvFrame(s) \/ RecvEnd(s) \/ RecvWait(s) \/ RecvTimedOut(s)
         PROVE  Goal
    BY <1>2, <1>4, <1>14 DEF SubscribeRefused, RecvMissing, RecvOverflow, RecvFrame,
       RecvEnd, RecvWait, RecvTimedOut, At, Receiving
  <1>15. ASSUME NEW s \in Subs, SubscriberClose(s)
         PROVE  Goal
    <2>1. CASE b = s
      BY <1>1, <1>15, <2>1 DEF SubscriberClose, At, HandleRec
    <2>2. CASE b # s /\ b \in Woken(h[s].core)
      BY <1>6, <1>15, <2>2 DEF SubscriberClose
    <2>3. CASE b # s /\ b \notin Woken(h[s].core)
      BY <1>3, <1>15, <2>3 DEF SubscriberClose
    <2> QED BY <2>1, <2>2, <2>3
  <1>16. ASSUME NEW s \in Subs, SubscriberDrop(s)
         PROVE  Goal
    BY <1>2, <1>5, <1>16 DEF SubscriberDrop
  <1>17. ASSUME NEW s \in Subs, NEW t \in Subs, CloneSubscriber(s, t)
         PROVE  Goal
    <2>1. CASE b = t
      <3>1. h[s].at # "none" /\ h'[b] = [h[s] EXCEPT !.left = h[t].left - 1]
        BY <1>1, <1>17, <2>1 DEF CloneSubscriber, At
      <3>2. h[s] \in HandleRec /\ s \in Actors
        BY <1>1, <1>2
      <3> QED BY <3>1, <3>2 DEF HandleRec
    <2>2. CASE b # t
      BY <1>1, <1>3, <1>17, <2>2 DEF CloneSubscriber
    <2> QED BY <2>1, <2>2
  <1>18. ASSUME NEW p \in Pubs, TakeKeyframeRequests(p)
         PROVE  Goal
    BY <1>3, <1>18 DEF TakeKeyframeRequests
  <1>19. CASE UNCHANGED vars
    BY <1>3, <1>19 DEF vars
  <1>20. CASE \/ \E a \in Actors, u \in Urls : GetOrCreate(a, u)
              \/ \E a \in Actors : ReapLook(a) \/ ReapRemove(a) \/ Release(a)
    BY <1>7, <1>8, <1>20
  <1>21. CASE \E p \in Pubs :
                \/ Publish(p) \/ PublisherClose(p) \/ PublisherLeave(p)
                \/ TakeKeyframeRequests(p)
                \/ \E key \in BOOLEAN, m \in Media : PushFrame(p, key, m)
    BY <1>9, <1>10, <1>11, <1>18, <1>21
  <1>22. CASE \E s \in Subs :
                \/ Subscribe(s) \/ SubscribeRefused(s)
                \/ RecvMissing(s) \/ RecvOverflow(s) \/ RecvFrame(s) \/ RecvEnd(s)
                \/ RecvWait(s) \/ RecvTimedOut(s)
                \/ SubscriberClose(s) \/ SubscriberDrop(s)
                \/ \E t \in Subs : CloneSubscriber(s, t)
    BY <1>13, <1>14, <1>15, <1>16, <1>17, <1>22
  <1>23. CASE \E r \in Reqs : RequestKeyframe(r)
    BY <1>12, <1>23
  <1>24. Goal
    BY <1>19, <1>20, <1>21, <1>22, <1>23 DEF Next
  <1> QED BY <1>24

\* The registry names each core once, for the URL its handles know, within the limit.
LEMMA RegistryKept ==
  ASSUME TypeOK, HandlesOK, RegistryOK, [Next]_vars
  PROVE  /\ use' \in Uses /\ streams' \in [Urls -> Cores \cup {None}]
         /\ Cardinality(Registered') <= MaxStreams
         /\ RegistryOK'
  <1>1. /\ streams \in [Urls -> Cores \cup {None}] /\ ncores \in 0 .. MaxCores
        /\ nid \in 0 .. MaxIds /\ use \in Uses /\ MaxCores \in Nat /\ MaxStreams \in Nat
        /\ None \notin Nat /\ ncores \in Nat
    BY HubAssumption DEF TypeOK
  <1>2. /\ ncores' \in 0 .. MaxCores /\ ncores <= ncores' /\ ncores' \in Nat
    BY <1>1, CountersGrow
  <1>3. IsFiniteSet(Registered) /\ Cardinality(Registered) \in Nat
        /\ Cardinality(Registered) <= MaxStreams
    <2>1. IsFiniteSet(Registered)
      BY HubAssumption, FS_Subset DEF Registered
    <2> QED BY <2>1, FS_CardinalityType DEF TypeOK
  <1>4. ASSUME NEW b \in Actors
        PROVE  \/ h'[b].at = "none"
               \/ \E a \in Actors : /\ h[a].at # "none"
                                    /\ h'[b].url = h[a].url /\ h'[b].core = h[a].core
               \/ \E u \in Urls : GetOrCreate(b, u)
    BY HandleSteps
  <1>5. ASSUME NEW a \in Actors, NEW u \in Urls, GetOrCreate(a, u), streams[u] = None
        PROVE  /\ use' \in Uses /\ streams' \in [Urls -> Cores \cup {None}]
               /\ Cardinality(Registered') <= MaxStreams
               /\ RegistryOK'
    <2>1. /\ ncores' = ncores + 1 /\ streams' = [streams EXCEPT ![u] = ncores + 1]
          /\ Cardinality(Registered) < MaxStreams /\ use' = use
      BY <1>5 DEF GetOrCreate
    <2>2. /\ h' = [h EXCEPT ![a].at = "found", ![a].url = u, ![a].core = ncores + 1,
                            ![a].left = @ - 1]
      BY <1>5, <2>1 DEF GetOrCreate
    <2>3. h \in [Actors -> HandleRec]
      BY DEF HandlesOK
    <2>4. h'[a].url = u /\ h'[a].core = ncores + 1
      BY <2>2, <2>3 DEF HandleRec
    <2>5. \A b \in Actors : b # a => h'[b] = h[b]
      BY <2>2, <2>3
    <2>6. \A b \in Actors : h[b].at # "none" => h[b].core \in 1 .. ncores
      BY DEF HandlesOK, HandleOK
    <2>7. ncores + 1 \in Cores /\ ncores + 1 # None
      BY <1>1, <1>2, <2>1 DEF Cores
    <2>8. streams' \in [Urls -> Cores \cup {None}]
      BY <1>1, <2>1, <2>7
    <2>9. Cardinality(Registered') <= MaxStreams
      <3>1. Registered' = Registered \cup {u}
        BY <1>1, <2>1, <2>7 DEF Registered
      <3>2. u \notin Registered
        BY <1>5 DEF Registered
      <3>3. Cardinality(Registered \cup {u}) = Cardinality(Registered) + 1
        BY <1>3, <3>2, FS_AddElement
      <3> QED BY <1>1, <1>3, <2>1, <3>1, <3>3
    <2>10. \A v \in Urls : streams'[v] # None => streams'[v] \in 1 .. ncores'
      BY <1>1, <2>1 DEF RegistryOK
    <2>11. \A v, w \in Urls : streams'[v] # None /\ streams'[v] = streams'[w] => v = w
      BY <1>1, <2>1 DEF RegistryOK
    <2>12. ASSUME NEW v \in Urls, NEW b \in Actors, streams'[v] # None, h'[b].at # "none",
                  h'[b].core = streams'[v]
           PROVE  h'[b].url = v
      <3>1. CASE b = a
        BY <1>1, <2>1, <2>4, <2>12, <3>1 DEF RegistryOK
      <3>2. CASE b # a
        <4>1. h'[b] = h[b] /\ h[b].core \in 1 .. ncores
          BY <2>5, <2>6, <2>12, <3>2
        <4>2. v # u /\ streams'[v] = streams[v]
          BY <1>1, <2>1, <2>12, <4>1
        <4> QED BY <2>12, <4>1, <4>2 DEF RegistryOK
      <3> QED BY <3>1, <3>2
    <2> QED BY <1>1, <2>1, <2>8, <2>9, <2>10, <2>11, <2>12 DEF RegistryOK
  <1>6. ASSUME NEW a \in Actors, NEW u \in Urls, GetOrCreate(a, u), streams[u] # None
        PROVE  UNCHANGED registry /\ h'[a].url = u /\ h'[a].core = streams[u]
               /\ \A b \in Actors : b # a => h'[b] = h[b]
    <2>1. h' = [h EXCEPT ![a].at = "found", ![a].url = u, ![a].core = streams[u],
                         ![a].left = @ - 1] /\ UNCHANGED registry
      BY <1>6 DEF GetOrCreate
    <2>2. h \in [Actors -> HandleRec]
      BY DEF HandlesOK
    <2> QED BY <2>1, <2>2 DEF HandleRec
  <1>7. ASSUME /\ use' = use /\ streams' \in [Urls -> Cores \cup {None}]
               /\ \A u \in Urls : streams'[u] \in {streams[u], None}
               /\ \A a \in Actors, u \in Urls : GetOrCreate(a, u) => streams[u] # None
        PROVE  /\ use' \in Uses /\ streams' \in [Urls -> Cores \cup {None}]
               /\ Cardinality(Registered') <= MaxStreams
               /\ RegistryOK'
    <2>1. Registered' \subseteq Registered
      BY <1>7 DEF Registered
    <2>2. Cardinality(Registered') <= Cardinality(Registered) /\ Cardinality(Registered') \in Nat
      BY <1>3, <2>1, FS_Subset, FS_CardinalityType
    <2>3. Cardinality(Registered') <= MaxStreams
      BY <1>1, <1>3, <2>2
    <2>4. \A v \in Urls : streams'[v] # None => streams'[v] \in 1 .. ncores'
      BY <1>1, <1>2, <1>7 DEF RegistryOK
    <2>5. \A v, w \in Urls : streams'[v] # None /\ streams'[v] = streams'[w] => v = w
      BY <1>7 DEF RegistryOK
    <2>6. ASSUME NEW v \in Urls, NEW b \in Actors, streams'[v] # None, h'[b].at # "none",
                 h'[b].core = streams'[v]
          PROVE  h'[b].url = v
      <3>1. streams'[v] = streams[v]
        BY <1>7, <2>6
      <3>2. CASE \E a \in Actors : /\ h[a].at # "none"
                                   /\ h'[b].url = h[a].url /\ h'[b].core = h[a].core
        BY <2>6, <3>1, <3>2 DEF RegistryOK
      <3>3. ASSUME NEW u \in Urls, GetOrCreate(b, u) PROVE h'[b].url = v
        <4>1. h'[b].url = u /\ h'[b].core = streams[u] /\ streams[u] # None
          BY <1>6, <1>7, <3>3
        <4> QED BY <2>6, <3>1, <4>1 DEF RegistryOK
      <3> QED BY <1>4, <2>6, <3>2, <3>3
    <2> QED BY <1>1, <1>7, <2>3, <2>4, <2>5, <2>6 DEF RegistryOK
  <1>8. CASE \E a \in Actors, u \in Urls : GetOrCreate(a, u) /\ streams[u] = None
    BY <1>5, <1>8
  <1>9. CASE /\ \E a \in Actors : ReapRemove(a)
             /\ ~\E a \in Actors, u \in Urls : GetOrCreate(a, u) /\ streams[u] = None
    <2>1. PICK a \in Actors : ReapRemove(a)
      BY <1>9
    <2>2. /\ use' = use
          /\ streams' = streams \/ streams' = [streams EXCEPT ![h[a].url] = None]
      BY <2>1 DEF ReapRemove
    <2>3. \A u \in Urls : streams'[u] \in {streams[u], None}
      BY <1>1, <2>2
    <2>4. streams' \in [Urls -> Cores \cup {None}]
      BY <1>1, <2>2
    <2> QED BY <1>7, <1>9, <2>2, <2>3, <2>4
  <1>10. CASE /\ UNCHANGED registry
              /\ ~\E a \in Actors, u \in Urls : GetOrCreate(a, u) /\ streams[u] = None
    BY <1>1, <1>7, <1>10 DEF registry
  <1>11. (\E a \in Actors, u \in Urls : GetOrCreate(a, u) /\ streams[u] # None)
            => UNCHANGED registry
    BY <1>6
  <1> QED BY <1>8, <1>9, <1>10, <1>11, RegistrySteps

-----------------------------------------------------------------------------
(* The publisher counter *)

\* Only publish and the close of a publisher change who is counted.
LEMMA SameHolders ==
  ASSUME HandlesOK, [Next]_vars, \A p \in Pubs : ~Publish(p) /\ ~PublisherLeave(p)
  PROVE  /\ \A c \in Cores : Holders(c)' = Holders(c)
         /\ UNCHANGED <<publishers, pclosed>>
  <1> DEFINE Same == \A p \in Pubs : /\ h'[p].at \in Open <=> h[p].at \in Open
                                     /\ h[p].at \in Open => h'[p].core = h[p].core
  <1>1. h \in [Actors -> HandleRec]
    BY DEF HandlesOK
  <1>2. Pubs \subseteq Actors /\ Subs \subseteq Actors /\ Reqs \subseteq Actors
    BY DEF Actors
  <1>3. ASSUME NEW a \in Actors, h[a].at \notin Open, h'[a].at \notin Open,
               \A b \in Actors : b # a => h'[b] = h[b]
        PROVE  Same
    BY <1>2, <1>3
  <1>4. ASSUME NEW s \in Subs, \A p \in Pubs : p # s => h'[p] = h[p]
        PROVE  Same
    BY <1>2, <1>4, HubAssumption
  <1>5. ASSUME NEW a \in Actors, NEW u \in Urls, GetOrCreate(a, u)
        PROVE  Same
    BY <1>1, <1>3, <1>5 DEF GetOrCreate, At, Open, HandleRec
  <1>6. ASSUME NEW a \in Actors, ReapLook(a) \/ ReapRemove(a)
        PROVE  Same
    BY <1>1, <1>3, <1>6 DEF ReapLook, ReapRemove, At, Goto, Open, HandleRec
  <1>7. ASSUME NEW a \in Actors, Release(a)
        PROVE  Same
    BY <1>1, <1>3, <1>7 DEF Release, Idle, At, Open
  <1>8. ASSUME NEW r \in Reqs, RequestKeyframe(r)
        PROVE  Same
    BY <1>1, <1>2, <1>3, <1>8 DEF RequestKeyframe, Idle, At, Open
  <1>9. ASSUME NEW p \in Pubs, PublisherClose(p)
        PROVE  Same
    BY <1>1, <1>2, <1>9 DEF PublisherClose, Goto, At, Open, HandleRec
  <1>10. ASSUME NEW p \in Pubs, NEW key \in BOOLEAN, NEW m \in Media, PushFrame(p, key, m)
         PROVE  Same
    <2>1. \A q \in Pubs : h'[q] = h[q]
      BY <1>2, <1>10, HubAssumption DEF PushFrame, Woken
    <2> QED BY <2>1
  <1>11. ASSUME NEW s \in Subs, SubscriberClose(s)
         PROVE  Same
    <2>1. \A q \in Pubs : h'[q] = h[q]
      BY <1>2, <1>11, HubAssumption DEF SubscriberClose, Woken
    <2> QED BY <2>1
  <1>12. ASSUME NEW s \in Subs, NEW t \in Subs, CloneSubscriber(s, t)
         PROVE  Same
    <2>1. \A q \in Pubs : h'[q] = h[q]
      BY <1>1, <1>2, <1>12, HubAssumption DEF CloneSubscriber
    <2> QED BY <2>1
  <1>13. ASSUME NEW s \in Subs, \/ Subscribe(s) \/ SubscribeRefused(s) \/ RecvMissing(s)
                                \/ RecvOverflow(s) \/ RecvFrame(s) \/ RecvEnd(s)
                                \/ RecvWait(s) \/ RecvTimedOut(s) \/ SubscriberDrop(s)
         PROVE  Same
    <2>1. \A q \in Pubs : h'[q] = h[q]
      BY <1>1, <1>2, <1>13, HubAssumption DEF Subscribe, SubscribeRefused, RecvMissing,
         RecvOverflow, RecvFrame, RecvEnd, RecvWait, RecvTimedOut, SubscriberDrop, Goto
    <2> QED BY <2>1
  <1>14. ASSUME UNCHANGED h PROVE Same
    BY <1>14
  <1>15. Same
    <2>1. CASE \/ \E a \in Actors, u \in Urls : GetOrCreate(a, u)
               \/ \E a \in Actors : ReapLook(a) \/ ReapRemove(a) \/ Release(a)
      BY <1>5, <1>6, <1>7, <2>1
    <2>2. CASE \E p \in Pubs :
                 \/ PublisherClose(p) \/ TakeKeyframeRequests(p)
                 \/ \E key \in BOOLEAN, m \in Media : PushFrame(p, key, m)
      BY <1>9, <1>10, <1>14, <2>2 DEF TakeKeyframeRequests
    <2>3. CASE \E s \in Subs :
                \/ Subscribe(s) \/ SubscribeRefused(s)
                \/ RecvMissing(s) \/ RecvOverflow(s) \/ RecvFrame(s) \/ RecvEnd(s)
                \/ RecvWait(s) \/ RecvTimedOut(s)
                \/ SubscriberClose(s) \/ SubscriberDrop(s)
                \/ \E t \in Subs : CloneSubscriber(s, t)
      BY <1>11, <1>12, <1>13, <2>3
    <2>4. CASE \E r \in Reqs : RequestKeyframe(r)
      BY <1>8, <2>4
    <2>5. CASE UNCHANGED vars
      BY <1>14, <2>5 DEF vars
    <2> QED BY <2>1, <2>2, <2>3, <2>4, <2>5 DEF Next
  <1>16. \A c \in Cores : Holders(c)' = Holders(c)
    BY <1>15 DEF Holders
  <1>17. UNCHANGED <<publishers, pclosed>>
    BY DEF Next, vars, core, GetOrCreate, ReapLook, ReapRemove, Release, PublisherClose,
     TakeKeyframeRequests, PushFrame, RequestKeyframe, Subscribe, SubscribeRefused,
     CloneSubscriber, RecvMissing, RecvFrame, RecvOverflow, RecvEnd, RecvWait,
     RecvTimedOut, SubscriberClose, SubscriberDrop
  <1> QED BY <1>16, <1>17

\* The counter is the number of open handles, and a stream with one is not closed.
LEMMA CounterKept ==
  ASSUME TypeOK, HandlesOK, OpenPublisherAccepted, [Next]_vars
  PROVE  /\ publishers' \in [Cores -> Nat] /\ pclosed' \in [Cores -> BOOLEAN]
         /\ OpenPublisherAccepted'
  <1>1. /\ publishers \in [Cores -> Nat] /\ pclosed \in [Cores -> BOOLEAN]
        /\ h \in [Actors -> HandleRec] /\ ncores \in 0 .. MaxCores
    BY DEF TypeOK, HandlesOK
  <1>2. \A a \in Actors : h[a].at # "none" => h[a].core \in Cores
    BY <1>1, HubAssumption DEF HandlesOK, HandleOK, Cores
  <1>3. Pubs \subseteq Actors
    BY DEF Actors
  <1>4. ASSUME NEW c PROVE IsFiniteSet(Holders(c)) /\ Cardinality(Holders(c)) \in Nat
    <2>1. IsFiniteSet(Holders(c))
      BY HubAssumption, FS_Subset DEF Holders
    <2> QED BY <2>1, FS_CardinalityType
  <1>5. CASE \A p \in Pubs : ~Publish(p) /\ ~PublisherLeave(p)
    BY <1>1, <1>5, SameHolders DEF OpenPublisherAccepted
  <1>6. ASSUME NEW p \in Pubs, Publish(p)
        PROVE  /\ publishers' \in [Cores -> Nat] /\ pclosed' \in [Cores -> BOOLEAN]
               /\ OpenPublisherAccepted'
    <2>1. PICK c \in Cores : c = h[p].core /\ h[p].at = "found" /\ p \in Actors
      BY <1>2, <1>3, <1>6 DEF Publish, At
    <2>2. /\ publishers' = [publishers EXCEPT ![c] = @ + 1]
          /\ pclosed' = [pclosed EXCEPT ![c] = FALSE]
          /\ h' = [h EXCEPT ![p].at = "open"]
      BY <1>6, <2>1 DEF Publish, Goto
    <2>3. p \notin Holders(c) /\ Holders(c)' = Holders(c) \cup {p}
      BY <1>1, <1>3, <2>1, <2>2 DEF Holders, Open, HandleRec
    <2>4. Cardinality(Holders(c)') = Cardinality(Holders(c)) + 1
      BY <1>4, <2>3, FS_AddElement
    <2>5. ASSUME NEW d \in Cores, d # c PROVE Holders(d)' = Holders(d)
      BY <1>1, <1>3, <2>1, <2>2, <2>5 DEF Holders, Open, HandleRec
    <2>6. ASSUME NEW d \in Cores
          PROVE  publishers'[d] = Cardinality(Holders(d)') /\ (Holders(d)' # {} => ~pclosed'[d])
      <3>1. CASE d = c
        BY <1>1, <2>1, <2>2, <2>4, <3>1 DEF OpenPublisherAccepted
      <3>2. CASE d # c
        BY <1>1, <2>2, <2>5, <3>2 DEF OpenPublisherAccepted
      <3> QED BY <3>1, <3>2
    <2>7. publishers' \in [Cores -> Nat]
      BY <1>1, <2>1, <2>2
    <2>8. pclosed' \in [Cores -> BOOLEAN]
      BY <1>1, <2>2, Zenon
    <2> QED BY <2>6, <2>7, <2>8 DEF OpenPublisherAccepted
  <1>7. ASSUME NEW p \in Pubs, PublisherLeave(p)
        PROVE  /\ publishers' \in [Cores -> Nat] /\ pclosed' \in [Cores -> BOOLEAN]
               /\ OpenPublisherAccepted'
    <2>1. PICK c \in Cores : c = h[p].core /\ h[p].at = "closing" /\ p \in Actors
      BY <1>2, <1>3, <1>7 DEF PublisherLeave, At
    <2>2. /\ publishers' = [publishers EXCEPT ![c] = @ - 1]
          /\ pclosed' = [pclosed EXCEPT ![c] = @ \/ Ends(c)]
      BY <1>7, <2>1 DEF PublisherLeave
    <2>3. \A q \in Pubs : q # p => h'[q] = h[q]
      BY <1>3, <1>7, HubAssumption DEF PublisherLeave, Woken
    <2>4. h'[p].at = "leaving"
      BY <1>1, <1>7, <2>1 DEF PublisherLeave, HandleRec
    <2>5. p \in Holders(c) /\ Holders(c)' = Holders(c) \ {p}
      BY <2>1, <2>3, <2>4 DEF Holders, Open
    <2>6. /\ Cardinality(Holders(c)') = Cardinality(Holders(c)) - 1
          /\ IsFiniteSet(Holders(c)') /\ Cardinality(Holders(c)') \in Nat
      BY <1>4, <2>5, FS_RemoveElement, FS_CardinalityType
    <2>7. ASSUME NEW d \in Cores, d # c PROVE Holders(d)' = Holders(d)
      BY <2>1, <2>3, <2>4, <2>7 DEF Holders, Open
    <2>8. publishers[c] = Cardinality(Holders(c)) /\ publishers[c] - 1 \in Nat
      BY <1>4, <2>1, <2>6 DEF OpenPublisherAccepted
    <2>9. publishers' \in [Cores -> Nat] /\ publishers'[c] = publishers[c] - 1
      BY <1>1, <2>1, <2>2, <2>8
    <2>10. pclosed' \in [Cores -> BOOLEAN]
      BY <1>1, <2>2, Zenon
    <2>11. Holders(c)' # {} => ~pclosed'[c]
      <3> SUFFICES ASSUME Holders(c)' # {} PROVE ~pclosed'[c]
        OBVIOUS
      <3>1. Cardinality(Holders(c)') # 0
        BY <2>6, FS_EmptySet
      <3>2. publishers[c] # 1
        BY <2>6, <2>8, <3>1
      <3>3. ~pclosed[c]
        BY <2>1, <2>5 DEF OpenPublisherAccepted
      <3>4. ~Ends(c)
        BY <3>2 DEF Ends
      <3>5. pclosed'[c] = (pclosed[c] \/ Ends(c))
        BY <1>1, <2>1, <2>2, Zenon
      <3> QED BY <3>3, <3>4, <3>5
    <2>12. ASSUME NEW d \in Cores
           PROVE  publishers'[d] = Cardinality(Holders(d)') /\ (Holders(d)' # {} => ~pclosed'[d])
      <3>1. CASE d = c
        BY <2>6, <2>8, <2>9, <2>11, <3>1
      <3>2. CASE d # c
        <4>1. pclosed'[d] = pclosed[d] /\ publishers'[d] = publishers[d]
          BY <1>1, <2>2, <3>2
        <4> QED BY <2>7, <3>2, <4>1 DEF OpenPublisherAccepted
      <3> QED BY <3>1, <3>2
    <2> QED BY <2>9, <2>10, <2>12 DEF OpenPublisherAccepted
  <1> QED BY <1>5, <1>6, <1>7

-----------------------------------------------------------------------------
(* Subscribers and their queues *)

\* A subscriber comes in by subscribe and goes by close or overflow.
LEMMA MemberSteps ==
  ASSUME [Next]_vars
  PROVE  \/ UNCHANGED members
         \/ \E s \in Subs : Subscribe(s)
         \/ \E s \in Subs : RecvOverflow(s) \/ SubscriberClose(s)
  <1>1. ASSUME NEW a \in Actors, NEW u \in Urls, GetOrCreate(a, u)
        PROVE  UNCHANGED members
    BY <1>1 DEF GetOrCreate, core
  <1> QED
    BY <1>1 DEF Next, vars, core, ReapLook, ReapRemove, Release, Publish, PublisherClose,
     PublisherLeave, TakeKeyframeRequests, PushFrame, RequestKeyframe, SubscribeRefused,
     CloneSubscriber, RecvMissing, RecvFrame, RecvEnd, RecvWait, RecvTimedOut, SubscriberDrop

\* A stream never has more subscribers than its limit.
LEMMA MembersKept ==
  ASSUME TypeOK, HandlesOK, [Next]_vars
  PROVE  /\ members' \in [Cores -> SUBSET Ids]
         /\ \A c \in Cores : Cardinality(members'[c]) <= MaxSubs
  <1>1. /\ members \in [Cores -> SUBSET Ids] /\ nid \in 0 .. MaxIds
        /\ \A c \in Cores : Cardinality(members[c]) <= MaxSubs
        /\ MaxSubs \in Nat /\ MaxIds \in Nat
    BY HubAssumption DEF TypeOK
  <1>2. ASSUME NEW M \in SUBSET Ids
        PROVE  IsFiniteSet(M) /\ Cardinality(M) \in Nat
    <2>1. IsFiniteSet(Ids)
      BY <1>1, FS_Interval DEF Ids
    <2>2. IsFiniteSet(M)
      BY <2>1, FS_Subset
    <2> QED BY <2>2, FS_CardinalityType
  <1>3. CASE UNCHANGED members
    BY <1>1, <1>3
  <1>4. CASE \E s \in Subs : Subscribe(s)
    <2>1. PICK s \in Subs : Subscribe(s)
      BY <1>4
    <2> DEFINE c == h[s].core
               M == members[c]
    <2>2. members' = [members EXCEPT ![c] = M \cup {nid + 1}] /\ nid + 1 \in Ids
      BY <1>1, <2>1 DEF Subscribe, Ids
    <2>0. Cardinality(M) < MaxSubs
      BY <2>1 DEF Subscribe, HasPlace
    <2>3. members' \in [Cores -> SUBSET Ids]
      BY <1>1, <2>2
    <2>4. ASSUME NEW d \in Cores PROVE Cardinality(members'[d]) <= MaxSubs
      <3>1. CASE d = c
        <4>1. M \in SUBSET Ids /\ members'[d] = M \cup {nid + 1}
          BY <1>1, <2>2, <3>1
        <4> HIDE DEF M
        <4>2. IsFiniteSet(M) /\ Cardinality(M) \in Nat
          BY <1>2, <4>1
        <4>3. Cardinality(M \cup {nid + 1}) \in {Cardinality(M), Cardinality(M) + 1}
          BY <4>2, FS_AddElement
        <4> QED BY <1>1, <2>0, <4>1, <4>2, <4>3 DEF M
      <3>2. CASE d # c
        BY <1>1, <2>2, <3>2
      <3> QED BY <3>1, <3>2
    <2> QED BY <2>3, <2>4
  <1>5. CASE \E s \in Subs : RecvOverflow(s) \/ SubscriberClose(s)
    <2>1. PICK s \in Subs : members' = [members EXCEPT ![h[s].core] = @ \ {h[s].id}]
      BY <1>5 DEF RecvOverflow, SubscriberClose
    <2>2. members' \in [Cores -> SUBSET Ids] /\ \A d \in Cores : members'[d] \subseteq members[d]
      BY <1>1, <2>1
    <2>3. ASSUME NEW d \in Cores PROVE Cardinality(members'[d]) <= MaxSubs
      <3>1. members'[d] \in SUBSET members[d] /\ IsFiniteSet(members[d])
            /\ Cardinality(members[d]) \in Nat /\ members'[d] \in SUBSET Ids
        BY <1>1, <1>2, <2>2
      <3>2. Cardinality(members'[d]) <= Cardinality(members[d])
            /\ Cardinality(members'[d]) \in Nat
        BY <1>2, <3>1, FS_Subset
      <3> QED BY <1>1, <3>1, <3>2
    <2> QED BY <2>2, <2>3
  <1> QED BY <1>3, <1>4, <1>5, MemberSteps

\* Keyframe requests are counted from nought.
LEMMA RequestsKept ==
  ASSUME requests \in [Cores -> Nat], [Next]_vars
  PROVE  requests' \in [Cores -> Nat]
  <1>1. ASSUME NEW a \in Actors, NEW u \in Urls, GetOrCreate(a, u)
        PROVE  UNCHANGED requests
    BY <1>1 DEF GetOrCreate, core
  <1>2. ASSUME NEW r \in Reqs, RequestKeyframe(r)
        PROVE  requests' \in [Cores -> Nat]
    <2>1. requests' = [requests EXCEPT ![h[r].core] = @ + 1]
      BY <1>2 DEF RequestKeyframe
    <2>2. CASE h[r].core \in Cores
      BY <2>1, <2>2
    <2>3. CASE h[r].core \notin Cores
      BY <2>1, <2>3
    <2> QED BY <2>2, <2>3
  <1>3. ASSUME NEW p \in Pubs, TakeKeyframeRequests(p)
        PROVE  requests' \in [Cores -> Nat]
    BY <1>3 DEF TakeKeyframeRequests
  <1>4. CASE UNCHANGED requests
    BY <1>4
  <1>5. ASSUME \A r \in Reqs : ~RequestKeyframe(r), \A p \in Pubs : ~TakeKeyframeRequests(p)
        PROVE  UNCHANGED requests
    BY <1>1, <1>5 DEF Next, vars, core, ReapLook, ReapRemove, Release, Publish,
     PublisherClose, PublisherLeave, PushFrame, Subscribe, SubscribeRefused, SubscriberClose,
     CloneSubscriber, RecvMissing, RecvOverflow, RecvFrame, RecvEnd, RecvWait, RecvTimedOut,
     SubscriberDrop
  <1> QED BY <1>2, <1>3, <1>4, <1>5

InboxOK ==
    /\ queue \in [Ids -> Seq(UpTo(nframes))]
    /\ \A i \in Ids : Len(queue[i]) <= use.capacity
    /\ overflowed \in [Ids -> BOOLEAN]
    /\ dropping \in [Ids -> BOOLEAN]

\* The frame push_frame hands to the queues.
Pushed(key) == [n |-> nframes + 1, key |-> key]

\* What push_frame does, subscriber by subscriber.
LEMMA PushEffect ==
  ASSUME InboxOK, HistoryOK, NEW p \in Pubs, NEW key \in BOOLEAN, NEW m \in Media, PushFrame(p, key, m),
         NEW i \in Ids
  PROVE  /\ nframes' = nframes + 1 /\ use' = use /\ taken' = taken
         /\ i \in Served(h[p].core, m) =>
              /\ queue'[i] = Offer(queue[i], dropping[i], Pushed(key)).queue
              /\ overflowed'[i] = Offer(queue[i], dropping[i], Pushed(key)).overflowed
              /\ dropping'[i] = Offer(queue[i], dropping[i], Pushed(key)).dropping
         /\ i \notin Served(h[p].core, m) =>
              /\ queue'[i] = queue[i] /\ overflowed'[i] = overflowed[i]
              /\ dropping'[i] = dropping[i]
         /\ i \in Wanting(h[p].core, m) => due'[i] = due[i] \cup {nframes + 1}
         /\ i \notin Wanting(h[p].core, m) => due'[i] = due[i]
  BY DEF PushFrame, Pushed, registry

\* Queues stay within their capacity and histories within the frames pushed.
LEMMA InboxKept ==
  ASSUME InboxOK, HistoryOK, use \in Uses, [Next]_vars
  PROVE  InboxOK' /\ HistoryOK'
  <1>1. CASE UNCHANGED <<use, inbox, history>>
    BY <1>1 DEF inbox, history, InboxOK, HistoryOK, UpTo
  <1>2. ASSUME NEW p \in Pubs, NEW key \in BOOLEAN, NEW m \in Media, PushFrame(p, key, m)
        PROVE  InboxOK' /\ HistoryOK'
    <2>1. nframes' = nframes + 1 /\ nframes \in Nat /\ nframes + 1 \in Nat
          /\ use' = use /\ taken' = taken
      BY <1>2 DEF PushFrame, registry, HistoryOK
    <2>2. Pushed(key) \in UpTo(nframes + 1)
      BY <2>1 DEF Pushed, UpTo
    <2>3. ASSUME NEW i \in Ids
          PROVE  /\ queue'[i] \in Seq(UpTo(nframes + 1)) /\ Len(queue'[i]) <= use.capacity
                 /\ overflowed'[i] \in BOOLEAN /\ dropping'[i] \in BOOLEAN
                 /\ due'[i] \in SUBSET (1 .. nframes + 1)
      <3>1. /\ queue[i] \in Seq(UpTo(nframes)) /\ Len(queue[i]) <= use.capacity
            /\ overflowed[i] \in BOOLEAN /\ dropping[i] \in BOOLEAN
            /\ due[i] \in SUBSET (1 .. nframes)
        BY DEF InboxOK, HistoryOK
      <3>2. /\ queue'[i] \in Seq(UpTo(nframes + 1)) /\ Len(queue'[i]) <= use.capacity
            /\ overflowed'[i] \in BOOLEAN /\ dropping'[i] \in BOOLEAN
        <4>1. CASE i \in Served(h[p].core, m)
          <5> DEFINE o == Offer(queue[i], dropping[i], Pushed(key))
          <5>1. queue'[i] = o.queue /\ overflowed'[i] = o.overflowed
                /\ dropping'[i] = o.dropping
            BY <1>2, <4>1, PushEffect
          <5>2. /\ o.queue \in Seq(UpTo(nframes + 1)) /\ Len(o.queue) <= use.capacity
                /\ o.overflowed \in BOOLEAN /\ o.dropping \in BOOLEAN
            BY <2>1, <2>2, <3>1, OfferFits
          <5> QED BY <5>1, <5>2
        <4>2. CASE i \notin Served(h[p].core, m)
          <5>1. UpTo(nframes) \subseteq UpTo(nframes + 1)
            BY <2>1 DEF UpTo
          <5>2. queue[i] \in Seq(UpTo(nframes + 1))
            BY <3>1, <5>1, SeqMonotonic
          <5> QED BY <1>2, <3>1, <4>2, <5>2, PushEffect
        <4> QED BY <4>1, <4>2
      <3>3. due'[i] \in SUBSET (1 .. nframes + 1)
        <4>1. due'[i] = due[i] \cup {nframes + 1} \/ due'[i] = due[i]
          BY <1>2, PushEffect
        <4> QED BY <2>1, <3>1, <4>1
      <3> QED BY <3>2, <3>3
    <2>4. /\ queue' = [i \in Ids |-> queue'[i]]
          /\ overflowed' = [i \in Ids |-> overflowed'[i]]
          /\ dropping' = [i \in Ids |-> dropping'[i]]
          /\ due' = [i \in Ids |-> due'[i]]
      BY <1>2 DEF PushFrame
    <2>5. /\ queue' \in [Ids -> Seq(UpTo(nframes + 1))]
          /\ due' \in [Ids -> SUBSET (1 .. nframes + 1)]
      BY <2>3, <2>4
    <2>6. overflowed' \in [Ids -> BOOLEAN] /\ dropping' \in [Ids -> BOOLEAN]
      BY <2>3, <2>4, Zenon
    <2> QED BY <2>1, <2>3, <2>5, <2>6 DEF InboxOK, HistoryOK
  <1>3. ASSUME NEW s \in Subs, RecvFrame(s)
        PROVE  InboxOK' /\ HistoryOK'
    <2> DEFINE i == h[s].id
    <2>1. /\ queue' = [queue EXCEPT ![i] = Tail(queue[i])] /\ queue[i] # <<>>
          /\ taken' = [taken EXCEPT ![i] = Append(taken[i], Head(queue[i]))]
          /\ UNCHANGED <<use, nframes, due, overflowed, dropping>>
      BY <1>3 DEF RecvFrame, registry
    <2>2. ASSUME i \in Ids
          PROVE  /\ Tail(queue[i]) \in Seq(UpTo(nframes))
                 /\ Len(Tail(queue[i])) <= use.capacity
                 /\ Append(taken[i], Head(queue[i])) \in Seq(FrameRec)
      <3>1. /\ queue[i] \in Seq(UpTo(nframes)) /\ Len(queue[i]) <= use.capacity
            /\ taken[i] \in Seq(FrameRec) /\ use.capacity \in Nat
        BY <2>2, HubAssumption DEF InboxOK, HistoryOK
      <3>2. /\ Tail(queue[i]) \in Seq(UpTo(nframes)) /\ Len(Tail(queue[i])) = Len(queue[i]) - 1
            /\ Head(queue[i]) \in UpTo(nframes) /\ Len(queue[i]) \in Nat
        BY <2>1, <3>1, HeadTailProperties, LenProperties
      <3>3. Head(queue[i]) \in FrameRec
        BY <3>2 DEF UpTo, FrameRec
      <3>4. Append(taken[i], Head(queue[i])) \in Seq(FrameRec)
        BY <3>1, <3>3, AppendProperties
      <3> QED BY <3>1, <3>2, <3>4
    <2>3. queue' \in [Ids -> Seq(UpTo(nframes))] /\ taken' \in [Ids -> Seq(FrameRec)]
      BY <2>1, <2>2 DEF InboxOK, HistoryOK
    <2>4. \A j \in Ids : Len(queue'[j]) <= use.capacity
      BY <2>1, <2>2 DEF InboxOK
    <2> QED BY <2>1, <2>3, <2>4 DEF InboxOK, HistoryOK, UpTo
  <1> QED BY <1>1, <1>2, <1>3, InboxSteps

-----------------------------------------------------------------------------
(* Nothing registered is forgotten *)

\* The ways a handle stops looking after its core.
LEMMA KeeperSteps ==
  ASSUME HandlesOK, [Next]_vars, NEW a \in Actors, h[a].at \notin {"none", "gone"}
  PROVE  \/ h'[a].at \notin {"none", "gone"} /\ h'[a].core = h[a].core
         \/ ReapLook(a) /\ ~Deserted(h[a].core)
         \/ ReapRemove(a)
         \/ a \in Subs /\ SubscribeRefused(a)
         \/ a \in Reqs /\ RequestKeyframe(a)
         \/ use.drops
  <1> DEFINE Goal == \/ h'[a].at \notin {"none", "gone"} /\ h'[a].core = h[a].core
                     \/ ReapLook(a) /\ ~Deserted(h[a].core)
                     \/ ReapRemove(a)
                     \/ a \in Subs /\ SubscribeRefused(a)
                     \/ a \in Reqs /\ RequestKeyframe(a)
                     \/ use.drops
  <1>1. h \in [Actors -> HandleRec] /\ h[a] \in HandleRec
    BY DEF HandlesOK
  <1>2. Pubs \subseteq Actors /\ Subs \subseteq Actors /\ Reqs \subseteq Actors
    BY DEF Actors
  <1>3. ASSUME h'[a] = h[a] PROVE Goal
    BY <1>3
  <1>4. ASSUME NEW at, at \notin {"none", "gone"}, h'[a] = [h[a] EXCEPT !.at = at]
        PROVE  Goal
    BY <1>1, <1>4 DEF HandleRec
  <1>5. ASSUME NEW b \in Actors, NEW at, at \notin {"none", "gone"}, Goto(b, at)
        PROVE  Goal
    BY <1>1, <1>3, <1>4, <1>5 DEF Goto
  <1>6. ASSUME NEW b \in Actors, NEW u \in Urls, GetOrCreate(b, u)
        PROVE  Goal
    <2>1. a # b
      BY <1>6 DEF GetOrCreate, At
    <2>2. h'[a] = h[a]
      BY <1>1, <1>6, <2>1 DEF GetOrCreate
    <2> QED BY <1>3, <2>2
  <1>7. ASSUME NEW b \in Actors, ReapLook(b)
        PROVE  Goal
    <2>1. CASE a = b
      BY <1>5, <1>7, <2>1 DEF ReapLook
    <2>2. CASE a # b
      BY <1>1, <1>3, <1>7, <2>2 DEF ReapLook, Goto
    <2> QED BY <2>1, <2>2
  <1>8. ASSUME NEW b \in Actors, ReapRemove(b)
        PROVE  Goal
    BY <1>1, <1>3, <1>8 DEF ReapRemove, Goto
  <1>9. ASSUME NEW b \in Actors, Release(b)
        PROVE  Goal
    <2>1. a # b
      BY <1>9 DEF Release, At
    <2> QED BY <1>1, <1>3, <1>9, <2>1 DEF Release
  <1>10. ASSUME NEW p \in Pubs, Publish(p) \/ PublisherClose(p)
         PROVE  Goal
    BY <1>2, <1>5, <1>10 DEF Publish, PublisherClose
  <1>11. ASSUME NEW p \in Pubs, PublisherLeave(p)
         PROVE  Goal
    BY <1>3, <1>4, <1>11 DEF PublisherLeave
  <1>12. ASSUME NEW p \in Pubs, NEW key \in BOOLEAN, NEW m \in Media, PushFrame(p, key, m)
         PROVE  Goal
    BY <1>3, <1>4, <1>12 DEF PushFrame
  <1>13. ASSUME NEW r \in Reqs, RequestKeyframe(r)
         PROVE  Goal
    BY <1>1, <1>2, <1>3, <1>13 DEF RequestKeyframe
  <1>14. ASSUME NEW s \in Subs, Subscribe(s)
         PROVE  Goal
    <2>1. CASE a = s
      <3>1. h'[a].at = "open" /\ h'[a].core = h[a].core
        BY <1>1, <1>14, <2>1 DEF Subscribe, HandleRec
      <3> QED BY <3>1
    <2>2. CASE a # s
      BY <1>1, <1>3, <1>14, <2>2 DEF Subscribe
    <2> QED BY <2>1, <2>2
  <1>15. ASSUME NEW s \in Subs, SubscribeRefused(s)
         PROVE  Goal
    BY <1>1, <1>2, <1>3, <1>15 DEF SubscribeRefused, Goto
  <1>16. ASSUME NEW s \in Subs, \/ RecvMissing(s) \/ RecvOverflow(s)
                                \/ RecvFrame(s) \/ RecvEnd(s) \/ RecvWait(s) \/ RecvTimedOut(s)
         PROVE  Goal
    BY <1>2, <1>5, <1>16 DEF RecvMissing, RecvOverflow, RecvFrame, RecvEnd, RecvWait,
       RecvTimedOut
  <1>17. ASSUME NEW s \in Subs, SubscriberClose(s)
         PROVE  Goal
    BY <1>3, <1>4, <1>17 DEF SubscriberClose
  <1>18. ASSUME NEW s \in Subs, SubscriberDrop(s)
         PROVE  Goal
    BY <1>18 DEF SubscriberDrop
  <1>19. ASSUME NEW s \in Subs, NEW t \in Subs, CloneSubscriber(s, t)
         PROVE  Goal
    <2>1. a # t
      BY <1>19 DEF CloneSubscriber, At
    <2> QED BY <1>1, <1>3, <1>19, <2>1 DEF CloneSubscriber
  <1>20. ASSUME NEW p \in Pubs, TakeKeyframeRequests(p)
         PROVE  Goal
    BY <1>3, <1>20 DEF TakeKeyframeRequests
  <1>21. CASE UNCHANGED vars
    BY <1>3, <1>21 DEF vars
  <1>22. CASE \/ \E b \in Actors, u \in Urls : GetOrCreate(b, u)
              \/ \E b \in Actors : ReapLook(b) \/ ReapRemove(b) \/ Release(b)
    BY <1>6, <1>7, <1>8, <1>9, <1>22
  <1>23. CASE \E p \in Pubs :
                \/ Publish(p) \/ PublisherClose(p) \/ PublisherLeave(p)
                \/ TakeKeyframeRequests(p)
                \/ \E key \in BOOLEAN, m \in Media : PushFrame(p, key, m)
    BY <1>10, <1>11, <1>12, <1>20, <1>23
  <1>24. CASE \E s \in Subs :
                \/ Subscribe(s) \/ SubscribeRefused(s)
                \/ RecvMissing(s) \/ RecvOverflow(s) \/ RecvFrame(s) \/ RecvEnd(s)
                \/ RecvWait(s) \/ RecvTimedOut(s)
                \/ SubscriberClose(s) \/ SubscriberDrop(s)
                \/ \E t \in Subs : CloneSubscriber(s, t)
    BY <1>14, <1>15, <1>16, <1>17, <1>18, <1>19, <1>24
  <1>25. CASE \E r \in Reqs : RequestKeyframe(r)
    BY <1>13, <1>25
  <1> QED
    BY <1>21, <1>22, <1>23, <1>24, <1>25 DEF Next

\* A subscriber listens on until its id leaves the core.
LEMMA ListenSteps ==
  ASSUME TypeOK, HandlesOK, [Next]_vars, ~use.drops, NEW x \in Subs, h[x].at \in Listening
  PROVE  \/ h'[x].at \in Listening /\ h'[x].core = h[x].core /\ h'[x].id = h[x].id
         \/ h[x].id \notin members'[h[x].core]
  <1> DEFINE Goal == \/ /\ h'[x].at \in Listening
                        /\ h'[x].core = h[x].core /\ h'[x].id = h[x].id
                     \/ h[x].id \notin members'[h[x].core]
  <1>1. h \in [Actors -> HandleRec] /\ h[x] \in HandleRec /\ x \in Actors
        /\ h[x].core \in Cores /\ members \in [Cores -> SUBSET Ids]
    BY HubAssumption DEF HandlesOK, HandleOK, TypeOK, Actors, Cores, Listening
  <1>2. Pubs \subseteq Actors /\ Subs \subseteq Actors /\ Reqs \subseteq Actors
    BY DEF Actors
  <1>3. ASSUME h'[x] = h[x] PROVE Goal
    BY <1>3
  <1>4. ASSUME NEW at \in Listening, h'[x] = [h[x] EXCEPT !.at = at]
        PROVE  Goal
    BY <1>1, <1>4 DEF HandleRec
  <1>5. ASSUME NEW b \in Actors, b # x, \A y \in Actors : y # b => h'[y] = h[y]
        PROVE  Goal
    BY <1>1, <1>3, <1>5
  <1>6. ASSUME NEW b \in Actors, NEW u \in Urls, GetOrCreate(b, u)
        PROVE  Goal
    <2>1. b # x
      BY <1>6 DEF GetOrCreate, At, Listening
    <2> QED BY <1>1, <1>5, <1>6, <2>1 DEF GetOrCreate
  <1>7. ASSUME NEW b \in Actors, ReapLook(b) \/ ReapRemove(b) \/ Release(b)
        PROVE  Goal
    <2>1. b # x
      BY <1>7 DEF ReapLook, ReapRemove, Release, At, Listening
    <2> QED BY <1>1, <1>5, <1>7, <2>1 DEF ReapLook, ReapRemove, Release, Goto
  <1>8. ASSUME NEW p \in Pubs, Publish(p) \/ PublisherClose(p)
        PROVE  Goal
    <2>1. p # x
      BY HubAssumption
    <2> QED BY <1>1, <1>2, <1>5, <1>8, <2>1 DEF Publish, PublisherClose, Goto
  <1>9. ASSUME NEW p \in Pubs, PublisherLeave(p)
        PROVE  Goal
    <2>1. p # x
      BY HubAssumption
    <2> QED BY <1>1, <1>3, <1>4, <1>9, <2>1 DEF PublisherLeave, Listening
  <1>10. ASSUME NEW p \in Pubs, NEW key \in BOOLEAN, NEW m \in Media, PushFrame(p, key, m)
         PROVE  Goal
    BY <1>1, <1>3, <1>4, <1>10 DEF PushFrame, Listening
  <1>11. ASSUME NEW r \in Reqs, RequestKeyframe(r)
         PROVE  Goal
    <2>1. r # x
      BY HubAssumption
    <2> QED BY <1>1, <1>2, <1>5, <1>11, <2>1 DEF RequestKeyframe
  <1>12. ASSUME NEW s \in Subs, Subscribe(s) \/ SubscribeRefused(s)
         PROVE  Goal
    <2>1. s # x
      BY <1>12 DEF Subscribe, SubscribeRefused, At, Listening
    <2> QED BY <1>1, <1>2, <1>5, <1>12, <2>1 DEF Subscribe, SubscribeRefused, Goto
  <1>13. ASSUME NEW s \in Subs, RecvMissing(s)
         PROVE  Goal
    <2>1. CASE s = x
      BY <1>13, <2>1 DEF RecvMissing, Missing, core
    <2>2. CASE s # x
      BY <1>1, <1>2, <1>5, <1>13, <2>2 DEF RecvMissing, Goto
    <2> QED BY <2>1, <2>2
  <1>14. ASSUME NEW s \in Subs, RecvOverflow(s)
         PROVE  Goal
    <2>1. CASE s = x
      BY <1>1, <1>14, <2>1 DEF RecvOverflow
    <2>2. CASE s # x
      BY <1>1, <1>2, <1>5, <1>14, <2>2 DEF RecvOverflow, Goto
    <2> QED BY <2>1, <2>2
  <1>15. ASSUME NEW s \in Subs, RecvFrame(s) \/ RecvEnd(s) \/ RecvWait(s) \/ RecvTimedOut(s)
         PROVE  Goal
    <2>1. CASE s = x
      BY <1>1, <1>4, <1>15, <2>1 DEF RecvFrame, RecvEnd, RecvWait, RecvTimedOut, Goto, Listening
    <2>2. CASE s # x
      BY <1>1, <1>2, <1>5, <1>15, <2>2 DEF RecvFrame, RecvEnd, RecvWait, RecvTimedOut, Goto
    <2> QED BY <2>1, <2>2
  <1>16. ASSUME NEW s \in Subs, SubscriberClose(s)
         PROVE  Goal
    <2>1. CASE s = x
      BY <1>1, <1>16, <2>1 DEF SubscriberClose
    <2>2. CASE s # x
      BY <1>1, <1>3, <1>4, <1>16, <2>2 DEF SubscriberClose, Listening
    <2> QED BY <2>1, <2>2
  <1>17. ASSUME NEW s \in Subs, NEW t \in Subs, CloneSubscriber(s, t)
         PROVE  Goal
    <2>1. t # x
      BY <1>17 DEF CloneSubscriber, At, Listening
    <2> QED BY <1>1, <1>2, <1>5, <1>17, <2>1 DEF CloneSubscriber
  <1>18. ASSUME NEW s \in Subs PROVE ~SubscriberDrop(s)
    BY DEF SubscriberDrop
  <1>19. ASSUME NEW p \in Pubs, TakeKeyframeRequests(p)
         PROVE  Goal
    BY <1>3, <1>19 DEF TakeKeyframeRequests
  <1>20. CASE UNCHANGED vars
    BY <1>3, <1>20 DEF vars
  <1>21. CASE \/ \E b \in Actors, u \in Urls : GetOrCreate(b, u)
              \/ \E b \in Actors : ReapLook(b) \/ ReapRemove(b) \/ Release(b)
    BY <1>6, <1>7, <1>21
  <1>22. CASE \E p \in Pubs :
                \/ Publish(p) \/ PublisherClose(p) \/ PublisherLeave(p)
                \/ TakeKeyframeRequests(p)
                \/ \E key \in BOOLEAN, m \in Media : PushFrame(p, key, m)
    BY <1>8, <1>9, <1>10, <1>19, <1>22
  <1>23. CASE \E s \in Subs :
                \/ Subscribe(s) \/ SubscribeRefused(s)
                \/ RecvMissing(s) \/ RecvOverflow(s) \/ RecvFrame(s) \/ RecvEnd(s)
                \/ RecvWait(s) \/ RecvTimedOut(s)
                \/ SubscriberClose(s) \/ SubscriberDrop(s)
                \/ \E t \in Subs : CloneSubscriber(s, t)
    BY <1>12, <1>13, <1>14, <1>15, <1>16, <1>17, <1>18, <1>23
  <1>24. CASE \E r \in Reqs : RequestKeyframe(r)
    BY <1>11, <1>24
  <1> QED
    BY <1>20, <1>21, <1>22, <1>23, <1>24 DEF Next

\* A core that is not deserted has a publisher or a subscriber that will leave it.
LEMMA SomebodyLeft ==
  ASSUME TypeOK, OpenPublisherAccepted, HandlesOK, Kept, ~use.drops, NEW c \in Cores,
         ~Deserted(c)
  PROVE  \E b \in Actors : h[b].at \in Open \cup Listening /\ h[b].core = c
  <1>1. CASE members[c] # {}
    <2>1. PICK i \in members[c] : TRUE
      BY <1>1
    <2>2. PICK b \in Subs : h[b].at \in Listening /\ h[b].core = c
      BY <2>1 DEF Kept
    <2> QED BY <2>2 DEF Actors
  <1>2. CASE members[c] = {}
    <2>1. publishers[c] # 0
      BY <1>2 DEF Deserted
    <2>2. Holders(c) # {}
      BY <2>1, FS_EmptySet DEF OpenPublisherAccepted
    <2> QED BY <2>2 DEF Holders, Actors
  <1> QED BY <1>1, <1>2

\* Every member keeps a handle that will close it.
LEMMA MembersHeld ==
  ASSUME TypeOK, HandlesOK, Kept, [Next]_vars, ~use.drops
  PROVE  \A c \in Cores : \A i \in members'[c] :
           \E s \in Subs : h'[s].at \in Listening /\ h'[s].core = c /\ h'[s].id = i
  <1> TAKE c \in Cores
  <1> TAKE i \in members'[c]
  <1>1. CASE i \in members[c]
    <2>1. PICK s \in Subs : h[s].at \in Listening /\ h[s].core = c /\ h[s].id = i
      BY <1>1 DEF Kept
    <2> QED BY <2>1, ListenSteps
  <1>2. CASE i \notin members[c]
    <2>1. members \in [Cores -> SUBSET Ids] /\ h \in [Actors -> HandleRec]
      BY DEF TypeOK, HandlesOK
    <2>2. ASSUME NEW s \in Subs, RecvOverflow(s) \/ SubscriberClose(s)
          PROVE  members'[c] \subseteq members[c]
      BY <2>1, <2>2 DEF RecvOverflow, SubscriberClose
    <2>3. PICK s \in Subs : Subscribe(s)
      BY <1>2, <2>2, MemberSteps
    <2>4. members' = [members EXCEPT ![h[s].core] = @ \cup {nid'}]
          /\ h' = [h EXCEPT ![s] = [@ EXCEPT !.at = "open", !.id = nid']]
      BY <2>3 DEF Subscribe
    <2>5. c = h[s].core /\ i = nid'
      BY <1>2, <2>1, <2>4
    <2>6. s \in Actors
      BY DEF Actors
    <2>7. h'[s].at = "open" /\ h'[s].core = h[s].core /\ h'[s].id = nid'
      BY <2>1, <2>4, <2>6 DEF HandleRec
    <2> QED BY <2>5, <2>7 DEF Listening
  <1> QED BY <1>1, <1>2

\* Every registered core keeps somebody who will look at it again, or a request.
LEMMA KeptKept ==
  ASSUME TypeOK, HandlesOK, RegistryOK, OpenPublisherAccepted, Kept, [Next]_vars
  PROVE  Kept'
  <1>1. use' = use
    BY RegistrySteps DEF registry, GetOrCreate, ReapRemove
  <1> SUFFICES ASSUME ~use.drops, NEW u \in Registered'
               PROVE  \/ requests'[streams'[u]] > 0
                      \/ \E a \in Actors : /\ h'[a].at \notin {"none", "gone"}
                                           /\ h'[a].core = streams'[u]
    BY <1>1, MembersHeld DEF Kept
  <1>2. /\ u \in Urls /\ streams'[u] # None /\ None \notin Nat
        /\ streams \in [Urls -> Cores \cup {None}] /\ h \in [Actors -> HandleRec]
        /\ requests \in [Cores -> Nat]
    BY HubAssumption DEF Registered, TypeOK, HandlesOK
  <1>3. \A b \in Actors : h[b].at # "none" => h[b].url \in Urls /\ h[b].core \in Cores
    BY HubAssumption DEF HandlesOK, HandleOK, TypeOK, Cores
  <1>4. CASE streams[u] = None
    <2>1. PICK a \in Actors : GetOrCreate(a, u)
      <3>1. ~UNCHANGED registry
        BY <1>2, <1>4 DEF registry
      <3>2. ASSUME NEW a \in Actors, ReapRemove(a) PROVE FALSE
        BY <1>2, <1>4, <3>2 DEF ReapRemove
      <3>3. PICK a \in Actors, v \in Urls : GetOrCreate(a, v)
        BY <3>1, <3>2, RegistrySteps
      <3>4. v = u
        BY <1>2, <1>4, <3>3 DEF GetOrCreate, registry
      <3> QED BY <3>3, <3>4
    <2>2. /\ streams' = [streams EXCEPT ![u] = ncores']
          /\ h' = [h EXCEPT ![a].at = "found", ![a].url = u, ![a].core = ncores',
                            ![a].left = @ - 1]
      BY <1>4, <2>1 DEF GetOrCreate
    <2>3. h'[a].at = "found" /\ h'[a].core = streams'[u]
      BY <1>2, <2>2 DEF HandleRec
    <2> QED BY <2>3
  <1>5. CASE streams[u] # None
    <2>1. streams'[u] = streams[u]
      <3>1. ASSUME NEW a \in Actors, NEW v \in Urls, GetOrCreate(a, v)
            PROVE  streams'[u] = streams[u]
        BY <1>2, <1>5, <3>1 DEF GetOrCreate, registry
      <3>2. ASSUME NEW a \in Actors, ReapRemove(a) PROVE streams'[u] = streams[u]
        BY <1>2, <3>2 DEF ReapRemove
      <3> QED BY <3>1, <3>2, RegistrySteps DEF registry
    <2>2. PICK c \in Cores : c = streams[u] /\ c = streams'[u] /\ u \in Registered
      BY <1>2, <1>5, <2>1 DEF Registered
    <2> DEFINE Goal == \/ requests'[c] > 0
                       \/ \E a \in Actors : /\ h'[a].at \notin {"none", "gone"}
                                            /\ h'[a].core = c
    <2> SUFFICES Goal
      BY <2>2
    \* a leaving handle that finds others leaves the entry to them
    <2>3. ASSUME NEW a \in Actors, ~Deserted(c), h[a].at \notin Open \cup Listening,
                 \A b \in Actors : b # a => h'[b] = h[b]
          PROVE  Goal
      <3>1. PICK b \in Actors : h[b].at \in Open \cup Listening /\ h[b].core = c
        BY <2>3, SomebodyLeft
      <3>2. h'[b] = h[b]
        BY <2>3, <3>1
      <3> QED BY <3>1, <3>2 DEF Open, Listening
    <2>4. CASE requests[c] > 0
      <3>1. CASE requests'[c] > 0
        BY <3>1
      <3>2. CASE ~(requests'[c] > 0)
        <4>1. ASSUME NEW r \in Reqs, RequestKeyframe(r) PROVE FALSE
          BY <1>2, <2>4, <3>2, <4>1 DEF RequestKeyframe
        <4>2. ASSUME NEW p \in Pubs, TakeKeyframeRequests(p) PROVE Goal
          <5>1. h[p].core = c /\ h'[p] = h[p] /\ h[p].at = "open"
            BY <1>2, <2>4, <3>2, <4>2 DEF TakeKeyframeRequests, At
          <5> QED BY <5>1 DEF Actors
        <4>3. ASSUME NEW b \in Actors, NEW v \in Urls, GetOrCreate(b, v) PROVE UNCHANGED requests
          BY <4>3 DEF GetOrCreate, core
        <4>4. (\A p \in Pubs : ~TakeKeyframeRequests(p)) => UNCHANGED requests
          BY <4>1, <4>3 DEF Next, vars, core, ReapLook, ReapRemove, Release, Publish,
             PublisherClose, PublisherLeave, PushFrame, Subscribe, SubscribeRefused,
             SubscriberClose, CloneSubscriber, RecvMissing, RecvOverflow, RecvFrame, RecvEnd,
             RecvWait, RecvTimedOut, SubscriberDrop
        <4> QED BY <2>4, <3>2, <4>2, <4>4
      <3> QED BY <3>1, <3>2
    <2>5. CASE \E a \in Actors : h[a].at \notin {"none", "gone"} /\ h[a].core = c
      <3>1. PICK a \in Actors : h[a].at \notin {"none", "gone"} /\ h[a].core = c
        BY <2>5
      <3>2. CASE h'[a].at \notin {"none", "gone"} /\ h'[a].core = h[a].core
        BY <3>1, <3>2
      <3>3. CASE ReapLook(a) /\ ~Deserted(h[a].core)
        <4>1. h[a].at \notin Open \cup Listening
          BY <3>3 DEF ReapLook, At, Open, Listening
        <4>2. \A b \in Actors : b # a => h'[b] = h[b]
          BY <1>2, <3>3 DEF ReapLook, Goto
        <4> QED BY <2>3, <3>1, <3>3, <4>1, <4>2
      <3>4. CASE ReapRemove(a)
        <4>1. h[a].url = u
          BY <1>2, <2>2, <3>1 DEF RegistryOK
        <4>2. ~Reapable(a)
          BY <1>2, <3>4, <4>1 DEF ReapRemove
        <4>3. ~Deserted(c)
          BY <2>2, <3>1, <4>1, <4>2 DEF Reapable
        <4>4. h[a].at \notin Open \cup Listening
          BY <3>4 DEF ReapRemove, At, Open, Listening
        <4>5. \A b \in Actors : b # a => h'[b] = h[b]
          BY <1>2, <3>4 DEF ReapRemove, Goto
        <4> QED BY <2>3, <4>3, <4>4, <4>5
      <3>5. CASE a \in Subs /\ SubscribeRefused(a)
        <4>1. ~HasPlace(c) /\ h[a].at = "found"
          BY <3>1, <3>5 DEF SubscribeRefused, At
        <4>2. members[c] # {}
          BY <4>1, FS_EmptySet, HubAssumption DEF HasPlace
        <4>3. \A b \in Actors : b # a => h'[b] = h[b]
          BY <1>2, <3>5 DEF SubscribeRefused, Goto
        <4> QED BY <2>3, <4>1, <4>2, <4>3 DEF Deserted, Open, Listening
      <3>6. CASE a \in Reqs /\ RequestKeyframe(a)
        <4>1. requests' = [requests EXCEPT ![c] = @ + 1]
          BY <3>1, <3>6 DEF RequestKeyframe
        <4>2. requests'[c] > 0
          BY <1>2, <4>1
        <4> QED BY <4>2
      <3> QED BY <3>1, <3>2, <3>3, <3>4, <3>5, <3>6, KeeperSteps
    <2>6. \/ requests[c] > 0
          \/ \E a \in Actors : h[a].at \notin {"none", "gone"} /\ h[a].core = c
      <3>1. \A v \in Registered :
              \/ requests[streams[v]] > 0
              \/ \E a \in Actors : h[a].at \notin {"none", "gone"} /\ h[a].core = streams[v]
        BY Zenon DEF Kept
      <3> QED BY <2>2, <3>1, Zenon
    <2> QED BY <2>4, <2>5, <2>6
  <1> QED BY <1>4, <1>5

-----------------------------------------------------------------------------
(* The theorems *)

\* The parts of the invariant give the invariant.
LEMMA Inductive == IInv /\ [Next]_vars => IInv'
  <1> SUFFICES ASSUME IInv, [Next]_vars PROVE IInv'
    OBVIOUS
  <1>1. TypeOK /\ HistoryOK /\ OpenPublisherAccepted /\ HandlesOK /\ RegistryOK /\ Kept
    BY DEF IInv
  <1>2. InboxOK /\ use \in Uses
    BY <1>1 DEF TypeOK, InboxOK, UpTo
  <1>3. InboxOK' /\ HistoryOK'
    BY <1>1, <1>2, InboxKept
  <1>4. /\ use' \in Uses /\ streams' \in [Urls -> Cores \cup {None}]
        /\ Cardinality(Registered') <= MaxStreams /\ RegistryOK'
    BY <1>1, RegistryKept
  <1>5. /\ ncores \in 0 .. MaxCores /\ nid \in 0 .. MaxIds
        /\ streams \in [Urls -> Cores \cup {None}] /\ requests \in [Cores -> Nat]
    BY <1>1 DEF TypeOK
  <1>6. ncores' \in 0 .. MaxCores /\ nid' \in 0 .. MaxIds
    BY <1>5, CountersGrow
  <1>7. HandlesOK'
    BY <1>1, <1>5, HandlesKept
  <1>8. /\ publishers' \in [Cores -> Nat] /\ pclosed' \in [Cores -> BOOLEAN]
        /\ OpenPublisherAccepted'
    BY <1>1, CounterKept
  <1>9. /\ members' \in [Cores -> SUBSET Ids]
        /\ \A c \in Cores : Cardinality(members'[c]) <= MaxSubs
    BY <1>1, MembersKept
  <1>10. requests' \in [Cores -> Nat]
    BY <1>5, RequestsKept
  <1>11. Kept'
    BY <1>1, KeptKept
  <1>12. TypeOK'
    BY <1>3, <1>4, <1>6, <1>7, <1>8, <1>9, <1>10
       DEF TypeOK, InboxOK, UpTo, HandlesOK, HandleRec
  <1> QED BY <1>3, <1>4, <1>7, <1>8, <1>11, <1>12 DEF IInv

\* Nothing is registered, counted or queued at the start.
LEMMA Initially == Init => IInv
  <1> SUFFICES ASSUME Init PROVE IInv
    OBVIOUS
  <1>1. use \in Uses /\ use.capacity \in Nat /\ \A a \in Actors : use.opens[a] \in Nat
    BY HubAssumption DEF Init
  <1>2. Registered = {} /\ Cardinality(Registered) = 0 /\ Cardinality({}) = 0
    BY FS_EmptySet DEF Init, Registered
  <1>3. h \in [Actors -> HandleRec] /\ \A a \in Actors : h[a].at = "none"
    BY <1>1 DEF Init, Idle, HandleRec
  <1>4. HandlesOK
    <2>1. ASSUME NEW a \in Actors PROVE HandleOK(a, h[a], ncores, nid)
      BY <1>3 DEF HandleOK, Listening
    <2> QED BY <1>3, <2>1 DEF HandlesOK
  <1>5. OpenPublisherAccepted
    <2>1. ASSUME NEW c \in Cores PROVE Holders(c) = {}
      BY <1>3 DEF Holders, Open, Actors
    <2> QED BY <1>2, <2>1 DEF OpenPublisherAccepted, Init
  <1>6. RegistryOK /\ Kept
    BY <1>2 DEF Init, RegistryOK, Kept
  <1>7. HistoryOK
    BY EmptySeq DEF Init, HistoryOK
  <1>8. /\ queue \in [Ids -> Seq([n : 1 .. nframes, key : BOOLEAN])]
        /\ \A i \in Ids : Len(queue[i]) <= use.capacity
    BY <1>1, EmptySeq DEF Init
  <1>9. /\ publishers \in [Cores -> Nat] /\ requests \in [Cores -> Nat]
        /\ members \in [Cores -> SUBSET Ids] /\ ncores \in 0 .. MaxCores
        /\ nid \in 0 .. MaxIds /\ streams \in [Urls -> Cores \cup {None}]
        /\ \A c \in Cores : Cardinality(members[c]) <= MaxSubs
        /\ Cardinality(Registered) <= MaxStreams
    BY <1>2, HubAssumption DEF Init
  <1>10. /\ pclosed \in [Cores -> BOOLEAN] /\ overflowed \in [Ids -> BOOLEAN]
         /\ dropping \in [Ids -> BOOLEAN]
    BY Zenon DEF Init
  <1>11. TypeOK
    BY <1>1, <1>3, <1>8, <1>9, <1>10 DEF TypeOK, HandleRec
  <1> QED BY <1>4, <1>5, <1>6, <1>7, <1>11 DEF IInv

\* The inductive invariant holds of the hub.
LEMMA Invariant == Spec => []IInv
  BY Initially, Inductive, PTL DEF Spec

\* For any URLs, handles and limits: the hub keeps its limits, a publisher that is
\* open is counted once and never refused, and where subscribers are closed before
\* they are let go, an entry of the registry outlives its handles only for the sake
\* of a keyframe request.
THEOREM RegistryStaysExact == Spec => []RegistryIsExact
  <1>1. IInv => RegistryIsExact
    <2> SUFFICES ASSUME IInv PROVE RegistryIsExact
      OBVIOUS
    <2>1. UnusedIsReaped
      BY DEF IInv, Kept, UnusedIsReaped, At
    <2> QED BY <2>1 DEF IInv, RegistryIsExact
  <1> QED BY <1>1, Invariant, PTL

\* try_reap never removes an entry while a publisher or subscriber is counted in it.
THEOREM EntryOutlivesHandles == Spec => CountedKeepsEntry
  <1> DEFINE Step == \A a \in Endpoints :
                streams[h[a].url] = h[a].core /\ a \in Endpoints' /\ h'[a].id = h[a].id
                  => streams'[h[a].url] = h[a].core
  <1>1. IInv /\ [Next]_vars => Step
    <2> SUFFICES ASSUME IInv, [Next]_vars, NEW a \in Endpoints, streams[h[a].url] = h[a].core
                 PROVE  streams'[h[a].url] = h[a].core
      OBVIOUS
    <2>1. /\ streams \in [Urls -> Cores \cup {None}] /\ None \notin Cores
          /\ a \in Actors /\ h[a].url \in Urls /\ h[a].core \in Cores
      <3>1. a \in Actors /\ h[a].at # "none"
        BY DEF Endpoints, Open, Listening, Actors
      <3>2. h[a].url \in Urls /\ h[a].core \in Cores
        BY <3>1, HubAssumption DEF IInv, HandlesOK, HandleOK, TypeOK, Cores
      <3> QED BY <3>1, <3>2, HubAssumption DEF IInv, TypeOK, Cores
    <2>2. ASSUME NEW b \in Actors, NEW u \in Urls, GetOrCreate(b, u)
          PROVE  streams'[h[a].url] = streams[h[a].url]
      BY <2>1, <2>2 DEF GetOrCreate, registry
    <2>3. ASSUME NEW b \in Actors, ReapRemove(b)
          PROVE  streams'[h[a].url] = streams[h[a].url]
      <3>1. CASE ~Reapable(b) \/ h[b].url # h[a].url
        BY <2>1, <2>3, <3>1 DEF ReapRemove
      <3>2. CASE Reapable(b) /\ h[b].url = h[a].url
        <4>1. Deserted(h[a].core)
          BY <3>2 DEF Reapable
        <4>2. CASE a \in Pubs /\ h[a].at \in Open
          <5>1. Holders(h[a].core) # {} /\ publishers[h[a].core] = 0
            BY <4>1, <4>2 DEF Holders, Deserted
          <5>2. IsFiniteSet(Holders(h[a].core))
            BY HubAssumption, FS_Subset DEF Holders
          <5>3. Cardinality(Holders(h[a].core)) # 0
            BY <5>1, <5>2, FS_EmptySet
          <5> QED BY <2>1, <5>1, <5>3 DEF IInv, OpenPublisherAccepted
        <4>3. CASE a \in Subs /\ ~Missing(a)
          BY <4>1, <4>3 DEF Missing, Deserted
        <4> QED BY <4>2, <4>3 DEF Endpoints
      <3> QED BY <3>1, <3>2
    <2> QED BY <2>2, <2>3, RegistrySteps DEF registry
  <1>2. Spec => [][Step]_vars
    BY <1>1, Invariant, PTL DEF Spec
  <1> QED BY <1>2 DEF CountedKeepsEntry

-----------------------------------------------------------------------------
(* Holes *)

\* A frame that is handed out after a hole must be a keyframe, and closes it.
LEMMA SoundAppend ==
  ASSUME NEW s \in Seq(FrameRec), NEW n \in Nat, NEW d \in SUBSET (1 .. n),
         NEW drop \in BOOLEAN, SoundStream(s, d, n, drop),
         NEW f \in FrameRec, f.n = n + 1, f.key \/ ~drop
  PROVE  SoundStream(Append(s, f), d \cup {n + 1}, n + 1, FALSE)
  <1> DEFINE t == Append(s, f)
             L == Len(s)
             e == d \cup {n + 1}
  <1>1. /\ L \in Nat /\ Len(t) = L + 1 /\ \A k \in 1 .. L : t[k] = s[k] /\ s[k] \in FrameRec
        /\ t[L + 1] = f
    BY LenProperties, AppendProperties, ElementOfSeq
  <1>2. \A k \in 1 .. L : s[k].n <= n /\ s[k].n \in Nat
    BY <1>1 DEF SoundStream, FrameRec
  <1>3. \A k \in 1 .. L + 1 : k \in 1 .. L \/ k = L + 1
    BY <1>1
  <1> HIDE DEF t, L
  <1>4. \A k \in 1 .. L + 1 : t[k].n <= n + 1
    BY <1>1, <1>2, <1>3
  <1>5. \A k, m \in 1 .. L + 1 : k < m => t[k].n < t[m].n
    <2> SUFFICES ASSUME NEW k \in 1 .. L + 1, NEW m \in 1 .. L + 1, k < m
                 PROVE  t[k].n < t[m].n
      OBVIOUS
    <2>1. k \in 1 .. L
      BY <1>1
    <2>2. CASE m \in 1 .. L
      BY <1>1, <2>1, <2>2 DEF SoundStream, L
    <2>3. CASE m = L + 1
      BY <1>1, <1>2, <2>1, <2>3
    <2> QED BY <1>3, <2>2, <2>3
  <1>6. \A x \in e : x <= t[L + 1].n
    BY <1>1
  <1>7. ASSUME NEW k \in 1 .. L, NEW x \in e, t[k].n < x, x < t[k + 1].n
        PROVE  t[k + 1].key
    <2>1. CASE k + 1 \in 1 .. L
      <3>1. t[k] = s[k] /\ t[k + 1] = s[k + 1] /\ s[k + 1].n <= n /\ s[k + 1].n \in Nat
        BY <1>1, <1>2, <2>1
      <3>2. x \in d
        BY <1>7, <3>1
      <3>3. k \in 1 .. L - 1
        BY <1>1, <2>1
      <3> QED BY <1>7, <3>1, <3>2, <3>3 DEF SoundStream, L
    <2>2. CASE k = L
      <3>1. x \in d /\ s # <<>> /\ s[L].n < x
        <4>1. t[k + 1].n = n + 1 /\ t[k] = s[L]
          BY <1>1, <2>2
        <4>2. x \in d
          BY <1>7, <4>1
        <4>3. s # <<>>
          BY <1>1, <2>2, EmptySeq DEF L
        <4> QED BY <1>7, <4>1, <4>2, <4>3
      <3>2. drop
        <4>1. s[L].n \in Nat /\ x \in Nat
          BY <1>2, <2>2, <3>1
        <4>2. ~(x <= s[L].n)
          BY <3>1, <4>1
        <4> QED BY <3>1, <4>2 DEF SoundStream, L
      <3> QED BY <1>1, <2>2, <3>2
    <2> QED BY <1>1, <2>1, <2>2
  <1> QED BY <1>1, <1>4, <1>5, <1>6, <1>7 DEF SoundStream, t

\* What was handed out stays sound when the rest of the queue is thrown away.
LEMMA SoundPrefix ==
  ASSUME NEW s \in Seq(FrameRec), NEW q \in Seq(FrameRec), NEW n, NEW d, NEW drop,
         SoundStream(s \o q, d, n, drop)
  PROVE  SoundStream(s, d, n, TRUE)
  <1> DEFINE t == s \o q
  <1>1. /\ Len(s) \in Nat /\ Len(q) \in Nat /\ Len(t) = Len(s) + Len(q)
        /\ \A k \in 1 .. Len(s) : k \in 1 .. Len(t) /\ t[k] = s[k]
    BY LenProperties, ConcatProperties
  <1>2. \A k \in 1 .. Len(s) - 1 : k \in 1 .. Len(t) - 1 /\ k \in 1 .. Len(s) /\ k + 1 \in 1 .. Len(s)
    BY <1>1
  <1>3. SoundStream(t, d, n, drop)
    OBVIOUS
  <1> HIDE DEF t
  <1> QED BY <1>1, <1>2, <1>3 DEF SoundStream

\* A frame that is withheld leaves a hole at the end, which is remembered.
LEMMA SoundWithheld ==
  ASSUME NEW s \in Seq(FrameRec), NEW n \in Nat, NEW d \in SUBSET (1 .. n), NEW drop,
         SoundStream(s, d, n, drop)
  PROVE  SoundStream(s, d \cup {n + 1}, n + 1, TRUE)
  <1>1. /\ Len(s) \in Nat /\ \A k \in 1 .. Len(s) : s[k].n <= n /\ s[k].n \in Nat
    <2>1. Len(s) \in Nat /\ \A k \in 1 .. Len(s) : s[k] \in FrameRec
      BY LenProperties, ElementOfSeq
    <2> QED BY <2>1 DEF SoundStream, FrameRec
  <1>2. \A k \in 1 .. Len(s) - 1 : k + 1 \in 1 .. Len(s) /\ k \in 1 .. Len(s)
    BY <1>1
  <1>3. ASSUME NEW k \in 1 .. Len(s) - 1, NEW x \in d \cup {n + 1}, s[k].n < x, x < s[k + 1].n
        PROVE  s[k + 1].key
    <2>1. x \in d
      BY <1>1, <1>2, <1>3
    <2> QED BY <1>3, <2>1 DEF SoundStream
  <1> QED BY <1>1, <1>3 DEF SoundStream

\* A frame for others changes nothing.
LEMMA SoundLater ==
  ASSUME NEW s \in Seq(FrameRec), NEW n \in Nat, NEW d, NEW drop, SoundStream(s, d, n, drop)
  PROVE  SoundStream(s, d, n + 1, drop)
  <1>1. \A k \in 1 .. Len(s) : s[k].n <= n + 1
    <2>1. \A k \in 1 .. Len(s) : s[k] \in FrameRec
      BY ElementOfSeq
    <2>2. \A k \in 1 .. Len(s) : s[k].n \in Nat
      BY <2>1 DEF FrameRec
    <2> QED BY <2>2 DEF SoundStream
  <1> QED BY <1>1 DEF SoundStream

\* Under the policy that waits for keyframes a queue takes the frame, makes room
\* for a keyframe by forgetting everything, or withholds the frame and remembers it.
LEMMA OfferWaiting ==
  ASSUME use.policy = "DropUntilNextKeyframe", NEW q, NEW drop \in BOOLEAN, NEW f,
         f.key \in BOOLEAN
  PROVE  \/ /\ f.key \/ ~drop
            /\ Offer(q, drop, f) =
                 [queue |-> Append(q, f), overflowed |-> FALSE, dropping |-> FALSE]
         \/ /\ f.key
            /\ Offer(q, drop, f) = [queue |-> <<f>>, overflowed |-> FALSE, dropping |-> FALSE]
         \/ Offer(q, drop, f) = [queue |-> q, overflowed |-> FALSE, dropping |-> TRUE]
  <1>1. OfferFull(q, f) = [queue |-> IF f.key THEN <<f>> ELSE q,
                           overflowed |-> FALSE, dropping |-> ~f.key]
    BY DEF OfferFull
  <1>2. CASE SkipsDelta(drop, f)
    BY <1>2 DEF Offer
  <1>3. CASE ~SkipsDelta(drop, f) /\ ~Full(q)
    BY <1>3 DEF Offer, SkipsDelta
  <1>4. CASE ~SkipsDelta(drop, f) /\ Full(q)
    <2>1. Offer(q, drop, f) = OfferFull(q, f)
      BY <1>4 DEF Offer
    <2>2. CASE f.key
      BY <1>1, <2>1, <2>2
    <2>3. CASE ~f.key
      BY <1>1, <2>1, <2>3
    <2> QED BY <2>2, <2>3
  <1> QED BY <1>2, <1>3, <1>4

\* The frames pushed so far are frames.
LEMMA UpToFrames == ASSUME NEW n \in Nat PROVE UpTo(n) \subseteq FrameRec
  BY DEF UpTo, FrameRec

\* A sequence is its head followed by its tail.
LEMMA HeadThenTail ==
  ASSUME NEW S, NEW b \in Seq(S), b # <<>>
  PROVE  <<Head(b)>> \o Tail(b) = b
  <1> DEFINE x == Head(b)
  <1>1. x \in S /\ Tail(b) \in Seq(S) /\ <<x>> \in Seq(S)
    BY HeadTailProperties
  <1>2. Len(<<x>> \o Tail(b)) = Len(b) /\ <<x>> \o Tail(b) \in Seq(S)
    BY <1>1, ConcatProperties, HeadTailProperties, LenProperties
  <1>3. ASSUME NEW i \in 1..Len(b) PROVE (<<x>> \o Tail(b))[i] = b[i]
    BY <1>1, HeadTailProperties, LenProperties
  <1> QED BY <1>2, <1>3, SeqEqual

\* recv moves a frame from the queue to what was handed out: the stream is the same.
LEMMA RecvKeepsStream ==
  ASSUME InboxOK, HistoryOK, NEW s \in Subs, RecvFrame(s), NEW i \in Ids
  PROVE  taken'[i] \o queue'[i] = taken[i] \o queue[i]
  <1>1. /\ taken \in [Ids -> Seq(FrameRec)] /\ queue \in [Ids -> Seq(UpTo(nframes))]
        /\ UpTo(nframes) \subseteq FrameRec
    BY UpToFrames DEF HistoryOK, InboxOK
  <1>2. taken[i] \in Seq(FrameRec) /\ queue[i] \in Seq(FrameRec)
    BY <1>1, SeqMonotonic
  <1>3. CASE h[s].id = i
    <2> DEFINE t == taken[i]
               q == queue[i]
               x == <<Head(q)>>
               r == Tail(q)
    <2>1. q # <<>> /\ queue'[i] = r /\ taken'[i] = Append(t, Head(q))
      BY <1>1, <1>3 DEF RecvFrame
    <2>2. t \in Seq(FrameRec) /\ q \in Seq(FrameRec)
      BY <1>2
    <2>3. Head(q) \in FrameRec /\ r \in Seq(FrameRec)
      BY <2>1, <2>2, HeadTailProperties
    <2>4. x \in Seq(FrameRec)
      BY <2>3
    <2>5. x \o r = q
      BY <2>1, <2>2, HeadThenTail
    <2> HIDE DEF x, r, t, q
    <2>6. taken'[i] = t \o x
      BY <2>1, <2>2, <2>3, AppendIsConcat DEF x
    <2>7. (t \o x) \o r = t \o (x \o r)
      BY <2>2, <2>3, <2>4, ConcatAssociative
    <2> QED BY <2>1, <2>5, <2>6, <2>7 DEF t, q
  <1>4. CASE h[s].id # i
    BY <1>1, <1>4 DEF RecvFrame
  <1> QED BY <1>3, <1>4

\* Every step of the hub keeps the streams sound.
LEMMA HolesKept ==
  ASSUME InboxOK, HistoryOK, HolesOK, use \in Uses, [Next]_vars
  PROVE  HolesOK'
  <1>1. CASE UNCHANGED <<use, inbox, history>>
    BY <1>1 DEF inbox, history, HolesOK, Stream
  <1>2. ASSUME NEW s \in Subs, RecvFrame(s)
        PROVE  HolesOK'
    <2>1. UNCHANGED <<use, nframes, due, overflowed, dropping>>
      BY <1>2 DEF RecvFrame, registry
    <2>2. \A i \in Ids : Stream(i)' = Stream(i)
      BY <1>2, RecvKeepsStream DEF Stream
    <2> QED BY <2>1, <2>2 DEF HolesOK
  <1>3. ASSUME NEW p \in Pubs, NEW key \in BOOLEAN, NEW m \in Media, PushFrame(p, key, m)
        PROVE  HolesOK'
    <2>1. nframes' = nframes + 1 /\ nframes \in Nat /\ use' = use
      BY <1>3 DEF PushFrame, registry, HistoryOK
    <2> SUFFICES ASSUME use.policy = "DropUntilNextKeyframe", NEW i \in Ids
                 PROVE  /\ ~overflowed'[i]
                        /\ SoundStream(Stream(i)', due'[i], nframes + 1, dropping'[i])
      BY <2>1 DEF HolesOK
    <2> DEFINE c == h[p].core
               t == taken[i]
               q == queue[i]
               f == Pushed(key)
               d == due[i]
               n == nframes
               drop == dropping[i]
    <2>2. /\ t \in Seq(FrameRec) /\ q \in Seq(FrameRec) /\ d \in SUBSET (1 .. n)
          /\ drop \in BOOLEAN /\ f \in FrameRec /\ f.n = n + 1 /\ f.key \in BOOLEAN
      <3>1. UpTo(nframes) \subseteq FrameRec /\ queue[i] \in Seq(UpTo(nframes))
        BY <2>1, UpToFrames DEF InboxOK
      <3>2. q \in Seq(FrameRec)
        BY <3>1, SeqMonotonic
      <3>3. f \in FrameRec /\ f.n = n + 1 /\ f.key \in BOOLEAN
        BY <2>1 DEF Pushed, FrameRec
      <3> QED BY <3>2, <3>3 DEF HistoryOK, InboxOK
    <2>3. ~overflowed[i] /\ SoundStream(t \o q, d, n, drop)
      BY DEF HolesOK, Stream
    <2>4. /\ t \o q \in Seq(FrameRec)
      BY <2>2, ConcatProperties
    <2>5. Stream(i)' = t \o queue'[i]
      BY <1>3 DEF PushFrame, Stream
    <2>6. CASE i \notin Wanting(c, m)
      <3>1. i \notin Served(c, m)
        BY <2>6 DEF Served
      <3>2. queue'[i] = q /\ overflowed'[i] = overflowed[i] /\ dropping'[i] = drop /\ due'[i] = d
        BY <1>3, <2>6, <3>1, PushEffect
      <3>3. SoundStream(t \o q, d, n + 1, drop)
        BY <2>1, <2>3, <2>4, SoundLater
      <3> QED BY <2>3, <2>5, <3>2, <3>3
    <2>7. CASE i \in Wanting(c, m)
      <3>1. i \in Served(c, m)
        BY <2>3, <2>7 DEF Served
      <3>2. /\ queue'[i] = Offer(q, drop, f).queue
            /\ overflowed'[i] = Offer(q, drop, f).overflowed
            /\ dropping'[i] = Offer(q, drop, f).dropping
            /\ due'[i] = d \cup {n + 1}
        BY <1>3, <2>7, <3>1, PushEffect
      <3>3. CASE /\ f.key \/ ~drop
                 /\ Offer(q, drop, f) =
                      [queue |-> Append(q, f), overflowed |-> FALSE, dropping |-> FALSE]
        <4>1. /\ queue'[i] = Append(q, f) /\ overflowed'[i] = FALSE /\ dropping'[i] = FALSE
          BY <3>2, <3>3
        <4>2. t \o Append(q, f) = Append(t \o q, f)
          <5>1. Append(q, f) = q \o <<f>> /\ Append(t \o q, f) = (t \o q) \o <<f>>
            BY <2>2, <2>4, AppendIsConcat
          <5>2. <<f>> \in Seq(FrameRec)
            BY <2>2
          <5> HIDE DEF t, q, f
          <5>3. (t \o q) \o <<f>> = t \o (q \o <<f>>)
            BY <2>2, <5>2, ConcatAssociative
          <5> QED BY <5>1, <5>3
        <4>3. SoundStream(Append(t \o q, f), d \cup {n + 1}, n + 1, FALSE)
          <5> HIDE DEF f, d, n, drop, t, q
          <5> DEFINE z == t \o q
          <5>1. z \in Seq(FrameRec) /\ SoundStream(z, d, n, drop) /\ n \in Nat
            BY <2>1, <2>3, <2>4 DEF n
          <5> HIDE DEF z
          <5>2. SoundStream(Append(z, f), d \cup {n + 1}, n + 1, FALSE)
            BY <2>2, <3>3, <5>1, SoundAppend
          <5> QED BY <5>2 DEF z
        <4> QED BY <2>5, <3>2, <4>1, <4>2, <4>3
      <3>4. CASE /\ f.key
                 /\ Offer(q, drop, f) =
                      [queue |-> <<f>>, overflowed |-> FALSE, dropping |-> FALSE]
        <4>1. /\ queue'[i] = <<f>> /\ overflowed'[i] = FALSE /\ dropping'[i] = FALSE
          BY <3>2, <3>4
        <4>2. t \o <<f>> = Append(t, f)
          BY <2>2, AppendIsConcat
        <4>3. SoundStream(t, d, n, TRUE)
          BY <2>2, <2>3, SoundPrefix
        <4>4. SoundStream(Append(t, f), d \cup {n + 1}, n + 1, FALSE)
          <5>0. n \in Nat /\ TRUE \in BOOLEAN
            BY <2>1
          <5> HIDE DEF f, d, n, t, q
          <5> QED BY <2>2, <3>4, <4>3, <5>0, SoundAppend
        <4> QED BY <2>5, <3>2, <4>1, <4>2, <4>4
      <3>5. CASE Offer(q, drop, f) = [queue |-> q, overflowed |-> FALSE, dropping |-> TRUE]
        <4>1. /\ queue'[i] = q /\ overflowed'[i] = FALSE /\ dropping'[i] = TRUE
          BY <3>2, <3>5
        <4>2. SoundStream(t \o q, d \cup {n + 1}, n + 1, TRUE)
          BY <2>1, <2>2, <2>3, <2>4, SoundWithheld
        <4> QED BY <2>5, <3>2, <4>1, <4>2
      <3>6. \/ /\ f.key \/ ~drop
               /\ Offer(q, drop, f) =
                    [queue |-> Append(q, f), overflowed |-> FALSE, dropping |-> FALSE]
            \/ /\ f.key
               /\ Offer(q, drop, f) =
                    [queue |-> <<f>>, overflowed |-> FALSE, dropping |-> FALSE]
            \/ Offer(q, drop, f) = [queue |-> q, overflowed |-> FALSE, dropping |-> TRUE]
        <4> HIDE DEF f, drop, q
        <4> QED BY <2>2, OfferWaiting
      <3> QED BY <3>3, <3>4, <3>5, <3>6
    <2> QED BY <2>6, <2>7
  <1> QED BY <1>1, <1>2, <1>3, InboxSteps

\* Under the policy that waits for keyframes, a subscriber that missed a frame is
\* handed a keyframe next, however long it is left alone and whatever it missed.
THEOREM HolesStayClosed == Spec => []HolesEndInKeyframe
  <1>1. Init => HolesOK
    <2> SUFFICES ASSUME Init, NEW i \in Ids
                 PROVE  ~overflowed[i] /\ SoundStream(Stream(i), due[i], nframes, dropping[i])
      BY DEF HolesOK
    <2>1. Stream(i) = <<>> /\ Len(Stream(i)) = 0
      <3>1. taken[i] = <<>> /\ queue[i] = <<>> /\ <<>> \in Seq(FrameRec)
        BY EmptySeq DEF Init
      <3>2. <<>> \o <<>> = <<>>
        BY ConcatEmptySeq, EmptySeq
      <3> QED BY <3>1, <3>2, EmptySeq DEF Stream
    <2> QED BY <2>1 DEF Init, SoundStream
  <1>2. IInv /\ HolesOK /\ [Next]_vars => HolesOK'
    <2> SUFFICES ASSUME IInv, HolesOK, [Next]_vars PROVE HolesOK'
      OBVIOUS
    <2>1. InboxOK /\ HistoryOK /\ use \in Uses
      BY DEF IInv, TypeOK, InboxOK, UpTo
    <2> QED BY <2>1, HolesKept
  <1>3. HolesOK => HolesEndInKeyframe
    BY DEF HolesOK, HolesEndInKeyframe, SoundStream
  <1> QED BY <1>1, <1>2, <1>3, Invariant, PTL DEF Spec

-----------------------------------------------------------------------------
(* Clean ends *)

\* Under the policy that disconnects, a queue takes the frame or is emptied for good.
LEMMA OfferDisconnecting ==
  ASSUME use.policy = "DisconnectOnOverflow", NEW q, NEW drop \in BOOLEAN, ~drop, NEW f
  PROVE  \/ Offer(q, drop, f) =
              [queue |-> Append(q, f), overflowed |-> FALSE, dropping |-> FALSE]
         \/ Offer(q, drop, f) = [queue |-> <<>>, overflowed |-> TRUE, dropping |-> FALSE]
  <1>1. OfferFull(q, f) = [queue |-> <<>>, overflowed |-> TRUE, dropping |-> FALSE]
    BY DEF OfferFull
  <1>2. ~SkipsDelta(drop, f)
    BY DEF SkipsDelta
  <1> QED BY <1>1, <1>2 DEF Offer

\* The numbers of a queue that got one more frame.
LEMMA NumbersAppend ==
  ASSUME NEW q \in Seq(FrameRec), NEW f \in FrameRec
  PROVE  Numbers(Append(q, f)) = Numbers(q) \cup {f.n}
  <1>1. /\ Len(q) \in Nat /\ DOMAIN q = 1 .. Len(q)
        /\ DOMAIN Append(q, f) = 1 .. Len(q) + 1
        /\ \A k \in 1 .. Len(q) : Append(q, f)[k] = q[k]
        /\ Append(q, f)[Len(q) + 1] = f
    BY AppendProperties, LenProperties
  <1>2. 1 .. Len(q) + 1 = (1 .. Len(q)) \cup {Len(q) + 1}
    BY <1>1
  <1> QED BY <1>1, <1>2 DEF Numbers

\* The numbers of a queue are the one at its head and those behind it.
LEMMA NumbersHeadTail ==
  ASSUME NEW q \in Seq(FrameRec), q # <<>>
  PROVE  Numbers(q) = {Head(q).n} \cup Numbers(Tail(q))
  <1>1. /\ Len(q) \in Nat \ {0} /\ DOMAIN q = 1 .. Len(q) /\ Head(q) = q[1]
        /\ DOMAIN Tail(q) = 1 .. Len(q) - 1
        /\ \A k \in 1 .. Len(q) - 1 : Tail(q)[k] = q[k + 1]
    <2>1. Len(q) \in Nat \ {0} /\ Tail(q) \in Seq(FrameRec) /\ Len(Tail(q)) = Len(q) - 1
      BY HeadTailProperties, LenProperties, EmptySeq
    <2> QED BY <2>1, HeadTailProperties, LenProperties
  <1>2. ASSUME NEW x \in Numbers(q) PROVE x \in {Head(q).n} \cup Numbers(Tail(q))
    <2>1. PICK k \in 1 .. Len(q) : x = q[k].n
      BY <1>1, <1>2 DEF Numbers
    <2>2. CASE k = 1
      BY <1>1, <2>1, <2>2
    <2>3. CASE k # 1
      <3>1. k - 1 \in 1 .. Len(q) - 1 /\ (k - 1) + 1 = k
        BY <1>1, <2>1, <2>3
      <3>2. Tail(q)[k - 1] = q[k]
        BY <1>1, <3>1
      <3> QED BY <1>1, <2>1, <3>1, <3>2 DEF Numbers
    <2> QED BY <2>2, <2>3
  <1>3. Head(q).n \in Numbers(q)
    <2>1. 1 \in DOMAIN q
      BY <1>1
    <2> QED BY <1>1, <2>1 DEF Numbers
  <1>4. ASSUME NEW x \in Numbers(Tail(q)) PROVE x \in Numbers(q)
    <2>1. PICK k \in 1 .. Len(q) - 1 : x = Tail(q)[k].n
      BY <1>1, <1>4 DEF Numbers
    <2>2. k + 1 \in DOMAIN q /\ x = q[k + 1].n
      BY <1>1, <2>1
    <2> QED BY <2>2 DEF Numbers
  <1> QED BY <1>2, <1>3, <1>4

\* Until it overflows, what a subscriber was handed and what is queued for it are
\* all the frames that were due, whatever the step.
LEMMA CompleteKept ==
  ASSUME InboxOK, HistoryOK, CompleteOK, [Next]_vars
  PROVE  CompleteOK'
  <1>0. nframes \in Nat /\ UpTo(nframes) \subseteq FrameRec
    BY UpToFrames DEF HistoryOK
  <1>t. ASSUME NEW i \in Ids PROVE taken[i] \in Seq(FrameRec) /\ queue[i] \in Seq(FrameRec)
    <2>1. taken[i] \in Seq(FrameRec) /\ queue[i] \in Seq(UpTo(nframes))
      BY DEF HistoryOK, InboxOK
    <2> QED BY <1>0, <2>1, SeqMonotonic
  <1>1. CASE UNCHANGED <<use, inbox, history>>
    BY <1>1 DEF inbox, history, CompleteOK
  <1>2. ASSUME NEW s \in Subs, RecvFrame(s)
        PROVE  CompleteOK'
    <2>1. UNCHANGED <<use, nframes, due, overflowed, dropping>>
      BY <1>2 DEF RecvFrame, registry
    <2>2. ASSUME NEW i \in Ids
          PROVE  Numbers(taken'[i]) \cup Numbers(queue'[i]) = Numbers(taken[i]) \cup Numbers(queue[i])
      <3>1. CASE h[s].id = i
        <4> DEFINE t == taken[i]
                   q == queue[i]
        <4>1. q # <<>> /\ queue'[i] = Tail(q) /\ taken'[i] = Append(t, Head(q))
          BY <1>2, <3>1 DEF RecvFrame, InboxOK, HistoryOK
        <4>2. t \in Seq(FrameRec) /\ q \in Seq(FrameRec)
          BY <1>t
        <4> HIDE DEF t, q
        <4>3. Head(q) \in FrameRec
          BY <4>1, <4>2, HeadTailProperties
        <4>4. Numbers(Append(t, Head(q))) = Numbers(t) \cup {Head(q).n}
          BY <4>2, <4>3, NumbersAppend
        <4>5. Numbers(q) = {Head(q).n} \cup Numbers(Tail(q))
          BY <4>1, <4>2, NumbersHeadTail
        <4> QED BY <4>1, <4>4, <4>5 DEF t, q
      <3>2. CASE h[s].id # i
        BY <1>2, <3>2 DEF RecvFrame, InboxOK, HistoryOK
      <3> QED BY <3>1, <3>2
    <2> QED BY <2>1, <2>2 DEF CompleteOK
  <1>3. ASSUME NEW p \in Pubs, NEW key \in BOOLEAN, NEW m \in Media, PushFrame(p, key, m)
        PROVE  CompleteOK'
    <2>1. use' = use /\ taken' = taken
      BY <1>3 DEF PushFrame, registry
    <2> SUFFICES ASSUME use.policy = "DisconnectOnOverflow", NEW i \in Ids
                 PROVE  /\ ~dropping'[i]
                        /\ ~overflowed'[i] => Numbers(taken[i]) \cup Numbers(queue'[i]) = due'[i]
      BY <2>1 DEF CompleteOK
    <2> DEFINE c == h[p].core
               q == queue[i]
               f == Pushed(key)
               drop == dropping[i]
    <2>2. q \in Seq(FrameRec) /\ f \in FrameRec /\ f.n = nframes + 1
      BY <1>0, <1>t DEF Pushed, FrameRec
    <2>3. /\ ~drop /\ drop \in BOOLEAN
          /\ ~overflowed[i] => Numbers(taken[i]) \cup Numbers(q) = due[i]
      BY DEF CompleteOK, InboxOK
    <2>4. CASE i \notin Served(c, m)
      <3>1. queue'[i] = q /\ overflowed'[i] = overflowed[i] /\ dropping'[i] = dropping[i]
        BY <1>3, <2>4, PushEffect
      <3>2. ~overflowed[i] => due'[i] = due[i]
        BY <1>3, <2>4, PushEffect DEF Served
      <3> QED BY <2>3, <3>1, <3>2
    <2>5. CASE i \in Served(c, m)
      <3>1. /\ queue'[i] = Offer(q, drop, f).queue
            /\ overflowed'[i] = Offer(q, drop, f).overflowed
            /\ dropping'[i] = Offer(q, drop, f).dropping
        BY <1>3, <2>5, PushEffect
      <3>2. due'[i] = due[i] \cup {nframes + 1} /\ ~overflowed[i]
        BY <1>3, <2>5, PushEffect DEF Served
      <3> HIDE DEF f, q, drop
      <3>3. CASE Offer(q, drop, f) =
                   [queue |-> Append(q, f), overflowed |-> FALSE, dropping |-> FALSE]
        <4>1. queue'[i] = Append(q, f) /\ dropping'[i] = FALSE
          BY <3>1, <3>3
        <4>2. Numbers(Append(q, f)) = Numbers(q) \cup {nframes + 1}
          BY <2>2, NumbersAppend
        <4> QED BY <2>3, <3>2, <4>1, <4>2
      <3>4. CASE Offer(q, drop, f) = [queue |-> <<>>, overflowed |-> TRUE, dropping |-> FALSE]
        BY <3>1, <3>4
      <3> QED BY <2>3, <3>3, <3>4, OfferDisconnecting
    <2> QED BY <2>4, <2>5
  <1> QED BY <1>1, <1>2, <1>3, InboxSteps

\* A handle that listens was listening, is a clone of one that was, or subscribed.
LEMMA ListenersCome ==
  ASSUME h \in [Actors -> HandleRec], NEW x \in Subs, h'[x].at \in Listening, [Next]_vars
  PROVE  \/ \E y \in Subs : /\ h[y].at \in Listening
                            /\ h'[x].core = h[y].core /\ h'[x].id = h[y].id
         \/ Subscribe(x)
  <1> DEFINE Goal == \E y \in Subs : /\ h[y].at \in Listening
                                     /\ h'[x].core = h[y].core /\ h'[x].id = h[y].id
  <1> USE DEF At, Goto
  <1>s. x \in Actors /\ h[x] \in HandleRec /\ Subs \subseteq Actors /\ Pubs \cap Subs = {}
        /\ Reqs \cap Subs = {}
    BY HubAssumption DEF Actors
  <1>l. /\ "none" \notin Listening /\ "leaving" \notin Listening /\ "gone" \notin Listening
        /\ "found" \notin Listening /\ "reaping" \notin Listening
        /\ {"open", "receiving", "waiting", "ended"} = Listening
    BY DEF Listening
  <1>0. ASSUME h'[x] = h[x] PROVE Goal
    BY <1>0
  <1>1. ASSUME NEW a \in Actors, NEW u \in Urls, GetOrCreate(a, u) PROVE Goal
    BY <1>0, <1>1, <1>s, <1>l DEF GetOrCreate, HandleRec
  <1>2. ASSUME NEW a \in Actors, ReapLook(a) \/ ReapRemove(a) \/ Release(a) PROVE Goal
    BY <1>0, <1>2, <1>s, <1>l DEF ReapLook, ReapRemove, Release, Idle, HandleRec
  <1>3. ASSUME NEW p \in Pubs, Publish(p) \/ PublisherClose(p) \/ TakeKeyframeRequests(p) PROVE Goal
    BY <1>0, <1>3, <1>s DEF Publish, PublisherClose, TakeKeyframeRequests, HandleRec, Actors
  <1>w. ASSUME h'[x] = [h[x] EXCEPT !.at = "receiving"], h[x].at = "waiting" PROVE Goal
    BY <1>w, <1>s, <1>l DEF HandleRec
  <1>4. ASSUME NEW p \in Pubs, PublisherLeave(p) PROVE Goal
    <2>1. \/ h'[x] = [h[x] EXCEPT !.at = "receiving"] /\ h[x].at = "waiting"
          \/ h'[x] = h[x]
      BY <1>4, <1>s DEF PublisherLeave, Woken
    <2> QED BY <2>1, <1>0, <1>w
  <1>5. ASSUME NEW p \in Pubs, NEW key \in BOOLEAN, NEW m \in Media, PushFrame(p, key, m) PROVE Goal
    <2>1. \/ h'[x] = [h[x] EXCEPT !.at = "receiving"] /\ h[x].at = "waiting"
          \/ h'[x] = h[x]
      BY <1>5, <1>s DEF PushFrame, Woken
    <2> QED BY <2>1, <1>0, <1>w
  <1>6. ASSUME NEW r \in Reqs, RequestKeyframe(r) PROVE Goal
    BY <1>0, <1>6, <1>s DEF RequestKeyframe
  <1>7. ASSUME NEW t \in Subs, Subscribe(t), t # x PROVE Goal
    BY <1>0, <1>7, <1>s DEF Subscribe
  <1>8. ASSUME NEW t \in Subs, SubscribeRefused(t) \/ RecvMissing(t) \/ RecvOverflow(t) PROVE Goal
    BY <1>0, <1>8, <1>s, <1>l DEF SubscribeRefused, RecvMissing, RecvOverflow, HandleRec
  <1>9. ASSUME NEW t \in Subs, RecvFrame(t) \/ RecvEnd(t) \/ RecvWait(t) \/ RecvTimedOut(t)
        PROVE  Goal
    <2>1. CASE t = x
      <3>1. h[x].at \in Listening
        BY <1>9, <1>l, <2>1 DEF RecvFrame, RecvEnd, RecvWait, RecvTimedOut, Receiving
      <3>2. h'[x].core = h[x].core /\ h'[x].id = h[x].id
        BY <1>9, <1>s, <2>1 DEF RecvFrame, RecvEnd, RecvWait, RecvTimedOut, HandleRec
      <3> QED BY <3>1, <3>2
    <2>2. CASE t # x
      BY <1>0, <1>9, <1>s, <2>2 DEF RecvFrame, RecvEnd, RecvWait, RecvTimedOut
    <2> QED BY <2>1, <2>2
  <1>10. ASSUME NEW t \in Subs, SubscriberClose(t) PROVE Goal
    <2>1. \/ h'[x] = [h[x] EXCEPT !.at = "leaving"]
          \/ h'[x] = [h[x] EXCEPT !.at = "receiving"] /\ h[x].at = "waiting"
          \/ h'[x] = h[x]
      BY <1>10, <1>s DEF SubscriberClose, Woken
    <2>2. h'[x] # [h[x] EXCEPT !.at = "leaving"]
      BY <1>s, <1>l DEF HandleRec
    <2> QED BY <2>1, <2>2, <1>0, <1>w
  <1>11. ASSUME NEW t \in Subs, SubscriberDrop(t) PROVE Goal
    BY <1>0, <1>11, <1>s, <1>l DEF SubscriberDrop, Idle
  <1>12. ASSUME NEW t \in Subs, NEW r \in Subs, CloneSubscriber(t, r) PROVE Goal
    <2>1. h'[x] = [h[t] EXCEPT !.left = h[r].left - 1] \/ h'[x] = h[x]
      BY <1>12, <1>s DEF CloneSubscriber
    <2>2. h[t].at = "open" /\ h[t] \in HandleRec
      BY <1>12, <1>s DEF CloneSubscriber
    <2> QED BY <2>1, <2>2, <1>0, <1>l DEF HandleRec
  <1>13. CASE UNCHANGED vars
    BY <1>0, <1>13 DEF vars
  <1>14. \/ \E a \in Actors, u \in Urls : GetOrCreate(a, u)
         \/ \E a \in Actors : ReapLook(a) \/ ReapRemove(a) \/ Release(a)
         \/ \E p \in Pubs :
              \/ Publish(p) \/ PublisherClose(p) \/ PublisherLeave(p)
              \/ TakeKeyframeRequests(p)
              \/ \E key \in BOOLEAN, m \in Media : PushFrame(p, key, m)
         \/ \E r \in Reqs : RequestKeyframe(r)
         \/ \E t \in Subs :
              \/ Subscribe(t) \/ SubscribeRefused(t)
              \/ RecvMissing(t) \/ RecvOverflow(t) \/ RecvFrame(t) \/ RecvEnd(t)
              \/ RecvWait(t) \/ RecvTimedOut(t)
              \/ SubscriberClose(t) \/ SubscriberDrop(t)
              \/ \E r \in Subs : CloneSubscriber(t, r)
         \/ UNCHANGED vars
    BY DEF Next
  <1> HIDE DEF Goal
  <1> QED BY <1>1, <1>2, <1>3, <1>4, <1>5, <1>6, <1>7, <1>8, <1>9, <1>10, <1>11, <1>12,
             <1>13, <1>14 DEF Goal

\* What is remembered of an entry that was taken out.
GoneSort == {"no", "closed", "overflow"}

\* An entry is taken out by a handle that closes it or is told of its overflow: a
\* handle that still listens has its entry, or one of the two happened to it.
GoneOK ==
    /\ gone \in [Ids -> GoneSort]
    /\ \A i \in Ids : gone[i] = "overflow" => overflowed[i]
    /\ \A s \in Subs : h[s].at \in Listening =>
         h[s].id \in members[h[s].core] \/ gone[h[s].id] # "no"

\* How entries leave: what was remembered stays, what leaves is remembered.
LEMMA GoneSteps ==
  ASSUME TypeOK, HandlesOK, GoneOK, [Next]_vars
  PROVE  /\ gone' \in [Ids -> GoneSort]
         /\ \A i \in Ids : gone[i] # "no" => gone'[i] # "no"
         /\ \A i \in Ids : gone'[i] = "overflow" => overflowed[i]
         /\ \A c \in Cores : \A i \in members[c] :
              i \in members'[c] \/ gone'[i] # "no"
  <1>1. gone \in [Ids -> GoneSort] /\ members \in [Cores -> SUBSET Ids]
        /\ h \in [Actors -> HandleRec] /\ Subs \subseteq Actors
    BY DEF GoneOK, TypeOK, HandlesOK, Actors
  <1>2. ASSUME NEW s \in Subs, RecvOverflow(s) \/ SubscriberClose(s)
        PROVE  h[s].id \in Ids
    <2>1. h[s].at \in Listening
      BY <1>2 DEF RecvOverflow, SubscriberClose, Receiving, At, Listening
    <2>2. h[s].id \in 1 .. nid /\ nid \in 0 .. MaxIds /\ MaxIds \in Nat
      BY <1>1, <2>1, HubAssumption DEF HandlesOK, HandleOK, TypeOK
    <2> QED BY <2>2 DEF Ids
  <1>3. CASE \E s \in Subs : RecvOverflow(s)
    <2>1. PICK s \in Subs : RecvOverflow(s)
      BY <1>3
    <2>2. /\ gone' = [gone EXCEPT ![h[s].id] = "overflow"] /\ overflowed[h[s].id]
          /\ members' = [members EXCEPT ![h[s].core] = @ \ {h[s].id}]
      BY <2>1 DEF RecvOverflow
    <2>3. h[s].id \in Ids
      BY <1>2, <2>1
    <2> QED BY <1>1, <2>2, <2>3 DEF GoneOK, GoneSort
  <1>4. CASE \E s \in Subs : SubscriberClose(s)
    <2>1. PICK s \in Subs : SubscriberClose(s)
      BY <1>4
    <2>2. /\ gone' = IF h[s].id \notin members[h[s].core] THEN gone
                     ELSE [gone EXCEPT ![h[s].id] = "closed"]
          /\ members' = [members EXCEPT ![h[s].core] = @ \ {h[s].id}]
      BY <2>1 DEF SubscriberClose, Missing
    <2>3. h[s].id \in Ids
      BY <1>2, <2>1
    <2> QED BY <1>1, <2>2, <2>3 DEF GoneOK, GoneSort
  <1>5. CASE \E s \in Subs : Subscribe(s)
    <2>1. PICK s \in Subs : Subscribe(s)
      BY <1>5
    <2>2. gone' = gone /\ members' = [members EXCEPT ![h[s].core] = @ \cup {nid'}]
      BY <2>1 DEF Subscribe
    <2> QED BY <1>1, <2>2 DEF GoneOK
  <1>6. CASE UNCHANGED <<members, gone>>
    BY <1>1, <1>6 DEF GoneOK
  <1>7. ASSUME NEW a \in Actors, NEW u \in Urls, GetOrCreate(a, u)
        PROVE  UNCHANGED <<members, gone>>
    BY <1>7 DEF GetOrCreate, core
  <1>8. \/ UNCHANGED <<members, gone>>
        \/ \E s \in Subs : RecvOverflow(s) \/ SubscriberClose(s) \/ Subscribe(s)
    BY <1>7 DEF Next, vars, core, ReapLook, ReapRemove, Release, Publish, PublisherClose,
     PublisherLeave, TakeKeyframeRequests, PushFrame, RequestKeyframe, SubscribeRefused,
     CloneSubscriber, RecvMissing, RecvFrame, RecvEnd, RecvWait, RecvTimedOut, SubscriberDrop
  <1> QED BY <1>3, <1>4, <1>5, <1>6, <1>8

\* A queue that overflowed stays so: push_frame passes it by.
LEMMA OverflowStays ==
  ASSUME InboxOK, HistoryOK, [Next]_vars, NEW i \in Ids, overflowed[i]
  PROVE  overflowed'[i]
  <1>1. ASSUME NEW p \in Pubs, NEW key \in BOOLEAN, NEW m \in Media, PushFrame(p, key, m)
        PROVE  overflowed'[i]
    <2>1. i \notin Served(h[p].core, m)
      BY DEF Served
    <2> QED BY <1>1, <2>1, PushEffect
  <1>2. ASSUME NEW s \in Subs, RecvFrame(s) PROVE overflowed'[i]
    BY <1>2 DEF RecvFrame
  <1> QED BY <1>1, <1>2, InboxSteps DEF inbox

\* Every step remembers what became of the entries that handles listen on.
LEMMA GoneKept ==
  ASSUME TypeOK, HandlesOK, InboxOK, HistoryOK, GoneOK, [Next]_vars
  PROVE  GoneOK'
  <1>1. /\ gone' \in [Ids -> GoneSort]
        /\ \A i \in Ids : gone[i] # "no" => gone'[i] # "no"
        /\ \A i \in Ids : gone'[i] = "overflow" => overflowed[i]
        /\ \A c \in Cores : \A i \in members[c] :
              i \in members'[c] \/ gone'[i] # "no"
    BY GoneSteps
  <1>2. ASSUME NEW i \in Ids, gone'[i] = "overflow" PROVE overflowed'[i]
    BY <1>1, <1>2, OverflowStays
  <1>3. ASSUME NEW x \in Subs, h'[x].at \in Listening
        PROVE  h'[x].id \in members'[h'[x].core] \/ gone'[h'[x].id] # "no"
    <2>0. h \in [Actors -> HandleRec] /\ Subs \subseteq Actors
          /\ members \in [Cores -> SUBSET Ids]
      BY DEF HandlesOK, Actors, TypeOK
    <2>1. CASE Subscribe(x)
      <3>1. /\ members' = [members EXCEPT ![h[x].core] = @ \cup {nid'}]
            /\ h' = [h EXCEPT ![x] = [h[x] EXCEPT !.at = "open", !.id = nid']]
            /\ h[x].at = "found"
        BY <2>1 DEF Subscribe, At
      <3>2. h[x].core \in Cores
        BY <2>0, <3>1, HubAssumption DEF HandlesOK, HandleOK, TypeOK, Cores
      <3>3. h'[x].id = nid' /\ h'[x].core = h[x].core
        BY <2>0, <3>1 DEF HandleRec
      <3> QED BY <2>0, <3>1, <3>2, <3>3
    <2>2. CASE \E y \in Subs : /\ h[y].at \in Listening
                               /\ h'[x].core = h[y].core /\ h'[x].id = h[y].id
      <3>1. PICK y \in Subs : /\ h[y].at \in Listening
                              /\ h'[x].core = h[y].core /\ h'[x].id = h[y].id
        BY <2>2
      <3>2. h[y].core \in Cores /\ h[y].id \in Ids
        BY <2>0, <3>1, HubAssumption DEF HandlesOK, HandleOK, TypeOK, Cores, Ids, Listening
      <3> QED BY <1>1, <3>1, <3>2 DEF GoneOK
    <2> QED BY <1>3, <2>0, <2>1, <2>2, ListenersCome
  <1> QED BY <1>1, <1>2, <1>3 DEF GoneOK

\* Under the policy that disconnects, whenever recv_timeout answers EndOfStream: a
\* handle whose entry is there was handed, with its clones, every frame its filter
\* passed while it was a member, so that an overflow is never passed off as a clean
\* end, even if the last publisher closed after it.  A handle whose entry is gone is
\* told a clean end with frames missing only when a clone was told of the overflow
\* in its stead, or closed the subscription, and then, unless it had overflowed,
\* only what was still queued is missing.
THEOREM CleanEndsAreComplete == Spec => CleanEndIsComplete
  <1> DEFINE Step == use.policy = "DisconnectOnOverflow" => \A s \in Subs :
                LET i == h[s].id IN
                /\ RecvEnd(s) => Numbers(taken[i]) = due[i]
                /\ RecvMissing(s) =>
                     \/ gone[i] = "overflow" /\ overflowed[i]
                     \/ /\ gone[i] = "closed"
                        /\ overflowed[i] \/ Numbers(taken[i]) \cup Numbers(queue[i]) = due[i]
  <1>1. Init => CompleteOK /\ GoneOK
    <2> SUFFICES ASSUME Init PROVE CompleteOK /\ GoneOK
      OBVIOUS
    <2>1. ASSUME NEW i \in Ids
          PROVE  ~dropping[i] /\ Numbers(taken[i]) \cup Numbers(queue[i]) = due[i]
      <3>1. taken[i] = <<>> /\ queue[i] = <<>> /\ due[i] = {} /\ ~dropping[i]
        BY DEF Init
      <3>2. Numbers(<<>>) = {}
        BY DEF Numbers
      <3> QED BY <3>1, <3>2
    <2>2. \A s \in Subs : h[s].at = "none"
      BY DEF Init, Idle, Actors
    <2>3. gone = [i \in Ids |-> "no"]
      BY DEF Init
    <2> QED BY <2>1, <2>2, <2>3 DEF CompleteOK, GoneOK, GoneSort, Listening
  <1>2. IInv /\ CompleteOK /\ GoneOK /\ [Next]_vars => CompleteOK' /\ GoneOK'
    <2> SUFFICES ASSUME IInv, CompleteOK, GoneOK, [Next]_vars PROVE CompleteOK' /\ GoneOK'
      OBVIOUS
    <2>1. InboxOK /\ HistoryOK /\ TypeOK /\ HandlesOK
      BY DEF IInv, TypeOK, InboxOK, UpTo
    <2> QED BY <2>1, CompleteKept, GoneKept
  <1>3. IInv /\ CompleteOK /\ GoneOK => Step
    <2> SUFFICES ASSUME IInv, CompleteOK, GoneOK, use.policy = "DisconnectOnOverflow",
                        NEW s \in Subs, RecvEnd(s) \/ RecvMissing(s)
                 PROVE  LET i == h[s].id IN
                        /\ RecvEnd(s) => Numbers(taken[i]) = due[i]
                        /\ RecvMissing(s) =>
                             \/ gone[i] = "overflow" /\ overflowed[i]
                             \/ /\ gone[i] = "closed"
                                /\ \/ overflowed[i]
                                   \/ Numbers(taken[i]) \cup Numbers(queue[i]) = due[i]
      OBVIOUS
    <2>1. HandleOK(s, h[s], ncores, nid) /\ nid \in 0 .. MaxIds
      BY DEF IInv, HandlesOK, Actors, TypeOK
    <2>2. h[s].at \in Listening
      BY DEF RecvEnd, RecvMissing, Receiving, Listening
    <2>3. h[s].id \in Ids
      BY <2>1, <2>2, HubAssumption DEF HandleOK, Ids
    <2>4. RecvEnd(s) => Numbers(taken[h[s].id]) = due[h[s].id]
      <3>1. RecvEnd(s) => queue[h[s].id] = <<>> /\ ~overflowed[h[s].id]
        BY DEF RecvEnd, Drained
      <3>2. Numbers(<<>>) = {}
        BY DEF Numbers
      <3> QED BY <2>3, <3>1, <3>2 DEF CompleteOK
    <2>5. RecvMissing(s) => gone[h[s].id] \in {"overflow", "closed"}
      BY <2>2, <2>3 DEF RecvMissing, Missing, GoneOK, GoneSort
    <2> QED BY <2>3, <2>4, <2>5 DEF CompleteOK, GoneOK
  <1>4. Spec => [][Step]_vars
    BY <1>1, <1>2, <1>3, Invariant, PTL DEF Spec
  <1> QED BY <1>4 DEF CleanEndIsComplete

==============================================================================
