------------------------------ MODULE StreamHub ------------------------------
(***************************************************************************)
(* MemoryStreamHub (dg-stream/src/hub.rs): the process-wide registry from  *)
(* URL to stream core behind the mock:// scheme, its publisher and         *)
(* subscriber handles and the bounded queue of every subscriber.           *)
(*                                                                         *)
(* The registry and each core have a mutex of their own.  A call takes the *)
(* registry lock to find or create the core, releases it, and only then    *)
(* locks the core; a leaving handle first looks at its core and later, in  *)
(* try_reap, takes both locks.  Each critical section is one action here.  *)
(* notify_all is part of the action that leaves the critical section: a    *)
(* waiter holds the core lock from its last look until it sleeps.          *)
(***************************************************************************)
EXTENDS Integers, Sequences, FiniteSets

CONSTANTS
    Urls,         \* stream URLs
    Pubs,         \* HubPublisher handles (a closed one may be opened again)
    Subs,         \* HubSubscriber handles
    Reqs,         \* threads that call request_keyframe
    None,         \* no core, no subscriber id
    MaxStreams,   \* HubInner.max_streams
    MaxSubs,      \* HubInner.max_subscribers_per_stream
    MaxCores,     \* bound: cores ever created
    MaxIds,       \* bound: subscriber ids ever drawn
    Uses          \* the uses of the hub to explore

Actors == Pubs \cup Subs \cup Reqs
Cores == 1 .. MaxCores
Ids == 1 .. MaxIds

\* the media tag of a frame; any other tag, or none, is "other"
Media == {"video", "audio", "other"}

\* One use of the hub: the URLs opened, SubscriberOptions.queue_capacity,
\* backpressure and (per subscriber id) media filter, whether a subscriber handle
\* may be let go without close(), and the bounds: frames ever pushed, handles each
\* actor may open in turn
ASSUME HubAssumption ==
    /\ IsFiniteSet(Urls) /\ IsFiniteSet(Pubs) /\ None \notin Nat
    /\ Pubs \cap Subs = {} /\ Pubs \cap Reqs = {} /\ Subs \cap Reqs = {}
    /\ {MaxStreams, MaxSubs, MaxCores, MaxIds} \subseteq Nat \ {0}
    /\ Uses \subseteq
         [urls : SUBSET Urls, capacity : Nat \ {0},
          policy : {"DropDroppableFirst", "DropUntilNextKeyframe",
                    "DisconnectOnOverflow"},
          filter : [Ids -> SUBSET {"video", "audio"}],
          drops : BOOLEAN, frames : Nat, opens : [Actors -> Nat]]

VARIABLES
    use,          \* which of Uses this is; never changes
    streams,      \* HubInner.streams: the core registered for a URL
    ncores,       \* cores created so far
    nid,          \* HubInner.next_subscriber
    publishers,   \* StreamState.publishers
    pclosed,      \* StreamState.publisher_closed
    requests,     \* StreamState.keyframe_requests
    members,      \* keys of StreamState.subscribers
    queue,        \* SubscriberQueue.queue
    overflowed,   \* SubscriberQueue.overflowed
    dropping,     \* SubscriberQueue.dropping_until_keyframe
    h,            \* handle or thread: where its call stands, its URL, core, id
    nframes,      \* frames pushed so far, by anybody
    taken,        \* history: frames recv returned, per subscriber id
    due,          \* history: numbers of the frames its filter passed while a member
    gone          \* history: how an entry of StreamState.subscribers was taken out

registry == <<use, streams, ncores>>
core == <<publishers, pclosed, requests, members, gone>>
inbox == <<queue, overflowed, dropping>>
history == <<nframes, taken, due>>
vars == <<use, streams, ncores, nid, publishers, pclosed, requests, members, queue,
          overflowed, dropping, h, nframes, taken, due, gone>>

Idle(opens) ==
    [at |-> "none", url |-> None, core |-> None, id |-> None, left |-> opens]

Init ==
    /\ use \in Uses
    /\ streams = [u \in Urls |-> None] /\ ncores = 0 /\ nid = 0
    /\ publishers = [c \in Cores |-> 0]
    /\ pclosed = [c \in Cores |-> FALSE]
    /\ requests = [c \in Cores |-> 0]
    /\ members = [c \in Cores |-> {}]
    /\ queue = [i \in Ids |-> <<>>]
    /\ overflowed = [i \in Ids |-> FALSE]
    /\ dropping = [i \in Ids |-> FALSE]
    /\ h = [a \in Actors |-> Idle(use.opens[a])]
    /\ nframes = 0
    /\ taken = [i \in Ids |-> <<>>]
    /\ due = [i \in Ids |-> {}]
    /\ gone = [i \in Ids |-> "no"]

At(a, pc) == h[a].at = pc
Goto(a, pc) == h' = [h EXCEPT ![a].at = pc]

-----------------------------------------------------------------------------
(* The registry.                                                           *)

Registered == {u \in Urls : streams[u] # None}

\* get_or_create_stream under the registry lock; a full registry refuses
GetOrCreate(a, u) ==
    /\ At(a, "none") /\ h[a].left > 0 /\ u \in use.urls
    /\ \/ /\ streams[u] # None
          /\ UNCHANGED registry
          /\ h' = [h EXCEPT ![a].at = "found", ![a].url = u,
                            ![a].core = streams[u], ![a].left = @ - 1]
       \/ /\ streams[u] = None
          /\ Cardinality(Registered) < MaxStreams
          /\ ncores < MaxCores
          /\ ncores' = ncores + 1
          /\ streams' = [streams EXCEPT ![u] = ncores']
          /\ UNCHANGED use
          /\ h' = [h EXCEPT ![a].at = "found", ![a].url = u,
                            ![a].core = ncores', ![a].left = @ - 1]
    /\ UNCHANGED <<nid, core, inbox, history>>

Deserted(c) == publishers[c] = 0 /\ members[c] = {}

\* try_reap, first look: core lock only
ReapLook(a) ==
    /\ At(a, "leaving")
    /\ Goto(a, IF Deserted(h[a].core) THEN "reaping" ELSE "gone")
    /\ UNCHANGED <<registry, nid, core, inbox, history>>

\* try_reap, second look: registry lock, same core, core lock again
Reapable_NotRechecked(a) == streams[h[a].url] = h[a].core
Reapable(a) == streams[h[a].url] = h[a].core /\ Deserted(h[a].core)

ReapRemove(a) ==
    /\ At(a, "reaping")
    /\ streams' = IF Reapable(a) THEN [streams EXCEPT ![h[a].url] = None]
                                 ELSE streams
    /\ Goto(a, "gone")
    /\ UNCHANGED <<use, ncores, nid, core, inbox, history>>

\* the handle is dropped; a later call opens a new one in its place
Release(a) ==
    /\ At(a, "gone")
    /\ h' = [h EXCEPT ![a] = Idle(h[a].left)]
    /\ UNCHANGED <<registry, nid, core, inbox, history>>

-----------------------------------------------------------------------------
(* Publishers.                                                             *)

\* publish, after the registry lock was released
Publish(p) ==
    /\ At(p, "found")
    /\ publishers' = [publishers EXCEPT ![h[p].core] = @ + 1]
    /\ pclosed' = [pclosed EXCEPT ![h[p].core] = FALSE]
    /\ Goto(p, "open")
    /\ UNCHANGED <<registry, nid, requests, members, gone, inbox, history>>

\* frame_ready.notify_all
Woken_Nobody(c) == {}
Woken(c) == {a \in Subs : At(a, "waiting") /\ h[a].core = c}

\* the position push_frame evicts: the oldest delta frame, else the oldest
Droppable(q) ==
    LET deltas == {k \in DOMAIN q : ~q[k].key}
    IN IF deltas = {} THEN 1 ELSE CHOOSE k \in deltas : \A m \in deltas : k <= m

Without(q, k) == SubSeq(q, 1, k - 1) \o SubSeq(q, k + 1, Len(q))

Full(q) == Len(q) >= use.capacity

\* a subscriber that dropped a frame takes no delta until a keyframe comes
SkipsDelta_Forgotten(drop, f) == FALSE
SkipsDelta(drop, f) == drop /\ ~f.key

\* push_frame finds the queue full
OfferFull(q, f) ==
    CASE use.policy = "DropDroppableFirst" ->
           [queue |-> Append(Without(q, Droppable(q)), f),
            overflowed |-> FALSE, dropping |-> FALSE]
      [] use.policy = "DropUntilNextKeyframe" ->
           [queue |-> IF f.key THEN <<f>> ELSE q,
            overflowed |-> FALSE, dropping |-> ~f.key]
      [] use.policy = "DisconnectOnOverflow" ->
           [queue |-> <<>>, overflowed |-> TRUE, dropping |-> FALSE]

\* what push_frame does to the queue of one subscriber
Offer(q, drop, f) ==
    IF SkipsDelta(drop, f)
      THEN [queue |-> q, overflowed |-> FALSE, dropping |-> TRUE]
    ELSE IF Full(q) THEN OfferFull(q, f)
    ELSE [queue |-> Append(q, f), overflowed |-> FALSE, dropping |-> FALSE]

passes_filter(i, m) == m = "other" \/ m \in use.filter[i]

Wanting(c, m) == {i \in members[c] : passes_filter(i, m)}

Served(c, m) == {i \in Wanting(c, m) : ~overflowed[i]}

\* push_frame: all subscribers of the core, under one hold of its lock
PushFrame(p, key, m) ==
    LET c == h[p].core
        f == [n |-> nframes + 1, key |-> key]
        to == Served(c, m)
        new == [i \in to |-> Offer(queue[i], dropping[i], f)]
    IN /\ At(p, "open") /\ ~pclosed[c]
       /\ nframes < use.frames
       /\ nframes' = nframes + 1
       /\ queue' = [i \in Ids |-> IF i \in to THEN new[i].queue ELSE queue[i]]
       /\ overflowed' = [i \in Ids |-> IF i \in to THEN new[i].overflowed
                                                    ELSE overflowed[i]]
       /\ dropping' = [i \in Ids |-> IF i \in to THEN new[i].dropping
                                                  ELSE dropping[i]]
       /\ due' = [i \in Ids |-> due[i] \cup IF i \in Wanting(c, m) THEN {f.n} ELSE {}]
       /\ h' = [a \in Actors |-> IF a \in Woken(c)
                                 THEN [h[a] EXCEPT !.at = "receiving"] ELSE h[a]]
       /\ UNCHANGED <<registry, nid, core, taken>>

\* close, or the Drop that calls it: closed.swap(true), once per handle
PublisherClose(p) ==
    /\ At(p, "open")
    /\ Goto(p, "closing")
    /\ UNCHANGED <<registry, nid, core, inbox, history>>

\* the publisher that leaves last marks the stream closed
Ends_Any(c) == TRUE
Ends(c) == publishers[c] = 1

PublisherLeave(p) ==
    LET c == h[p].core IN
    /\ At(p, "closing")
    /\ publishers' = [publishers EXCEPT ![c] = @ - 1]
    /\ pclosed' = [pclosed EXCEPT ![c] = @ \/ Ends(c)]
    /\ h' = [a \in Actors |->
               IF a = p THEN [h[a] EXCEPT !.at = "leaving"]
               ELSE IF a \in Woken(c) THEN [h[a] EXCEPT !.at = "receiving"]
               ELSE h[a]]
    /\ UNCHANGED <<registry, nid, requests, members, gone, inbox, history>>

TakeKeyframeRequests(p) ==
    /\ At(p, "open") /\ requests[h[p].core] > 0
    /\ requests' = [requests EXCEPT ![h[p].core] = 0]
    /\ UNCHANGED <<registry, nid, publishers, pclosed, members, gone, inbox, h, history>>

\* request_keyframe, after the registry lock was released
RequestKeyframe(r) ==
    /\ At(r, "found")
    /\ requests' = [requests EXCEPT ![h[r].core] = @ + 1]
    /\ h' = [h EXCEPT ![r] = Idle(h[r].left)]
    /\ UNCHANGED <<registry, nid, publishers, pclosed, members, gone, inbox, history>>

-----------------------------------------------------------------------------
(* Subscribers.                                                            *)

HasPlace(c) == Cardinality(members[c]) < MaxSubs

\* subscribe, after the registry lock was released
Subscribe(s) ==
    LET c == h[s].core IN
    /\ At(s, "found") /\ HasPlace(c) /\ nid < MaxIds
    /\ nid' = nid + 1
    /\ members' = [members EXCEPT ![c] = @ \cup {nid'}]
    /\ h' = [h EXCEPT ![s] = [@ EXCEPT !.at = "open", !.id = nid']]
    /\ UNCHANGED <<registry, publishers, pclosed, requests, gone, inbox, history>>

\* the limit is not zero, so a stream at its limit is never the empty one that
\* the undo branch would reap
SubscribeRefused(s) ==
    /\ At(s, "found") /\ ~HasPlace(h[s].core)
    /\ Goto(s, "gone")
    /\ UNCHANGED <<registry, nid, core, inbox, history>>

\* #[derive(Clone)]: another handle on the same id, with its own closed flag
CloneSubscriber(s, t) ==
    /\ At(s, "open") /\ At(t, "none") /\ h[t].left > 0
    /\ h' = [h EXCEPT ![t] = [h[s] EXCEPT !.left = h[t].left - 1]]
    /\ UNCHANGED <<registry, nid, core, inbox, history>>

Receiving(s) == h[s].at \in {"open", "receiving", "ended"}

Missing(s) == h[s].id \notin members[h[s].core]

\* recv_timeout: the entry is gone (a clone closed it, or a clone was told of its
\* overflow): end of stream
RecvMissing(s) ==
    /\ Receiving(s) /\ Missing(s)
    /\ Goto(s, "leaving")
    /\ UNCHANGED <<registry, nid, core, inbox, history>>

\* recv_timeout: the queue overflowed: leave with an error
RecvOverflow(s) ==
    /\ Receiving(s) /\ ~Missing(s) /\ overflowed[h[s].id]
    /\ members' = [members EXCEPT ![h[s].core] = @ \ {h[s].id}]
    /\ gone' = [gone EXCEPT ![h[s].id] = "overflow"]
    /\ Goto(s, "leaving")
    /\ UNCHANGED <<registry, nid, publishers, pclosed, requests, inbox, history>>

\* recv_timeout: pop_front
RecvFrame(s) ==
    LET i == h[s].id IN
    /\ Receiving(s) /\ ~Missing(s) /\ ~overflowed[i] /\ queue[i] # <<>>
    /\ queue' = [queue EXCEPT ![i] = Tail(@)]
    /\ taken' = [taken EXCEPT ![i] = Append(@, Head(queue[i]))]
    /\ Goto(s, "open")
    /\ UNCHANGED <<registry, nid, core, overflowed, dropping, nframes, due>>

Drained_OverflowIgnored(s) == ~Missing(s) /\ queue[h[s].id] = <<>>
Drained(s) == ~Missing(s) /\ ~overflowed[h[s].id] /\ queue[h[s].id] = <<>>

\* recv_timeout: nothing queued and the last publisher left; the handle stays
\* open, and a later call finds the stream live if a publisher came back
RecvEnd(s) ==
    /\ Receiving(s) /\ Drained(s) /\ pclosed[h[s].core]
    /\ Goto(s, "ended")
    /\ UNCHANGED <<registry, nid, core, inbox, history>>

\* recv_timeout: sleep on frame_ready
RecvWait(s) ==
    /\ Receiving(s) /\ Drained(s) /\ ~pclosed[h[s].core]
    /\ Goto(s, "waiting")
    /\ UNCHANGED <<registry, nid, core, inbox, history>>

\* recv_timeout: TimedOut; recv and the pull element call again
RecvTimedOut(s) ==
    /\ At(s, "waiting")
    /\ Goto(s, "open")
    /\ UNCHANGED <<registry, nid, core, inbox, history>>

\* close of a handle that is not inside recv_timeout (both take &mut self)
SubscriberClose(s) ==
    LET c == h[s].core IN
    /\ At(s, "open") \/ At(s, "ended")
    /\ members' = [members EXCEPT ![c] = @ \ {h[s].id}]
    /\ gone' = IF Missing(s) THEN gone ELSE [gone EXCEPT ![h[s].id] = "closed"]
    /\ h' = [a \in Actors |->
               IF a = s THEN [h[a] EXCEPT !.at = "leaving"]
               ELSE IF a \in Woken(c) THEN [h[a] EXCEPT !.at = "receiving"]
               ELSE h[a]]
    /\ UNCHANGED <<registry, nid, publishers, pclosed, requests, inbox, history>>

\* HubSubscriber has no Drop: a handle that is let go leaves its queue behind
SubscriberDrop(s) ==
    /\ use.drops
    /\ At(s, "open") \/ At(s, "ended")
    /\ h' = [h EXCEPT ![s] = Idle(h[s].left)]
    /\ UNCHANGED <<registry, nid, core, inbox, history>>

-----------------------------------------------------------------------------
Recv(s) == RecvMissing(s) \/ RecvOverflow(s) \/ RecvFrame(s) \/ RecvEnd(s)
             \/ RecvWait(s)

Internal(a) == ReapLook(a) \/ ReapRemove(a) \/ Release(a)

Next ==
    \/ \E a \in Actors, u \in Urls : GetOrCreate(a, u)
    \/ \E a \in Actors : ReapLook(a) \/ ReapRemove(a) \/ Release(a)
    \/ \E p \in Pubs :
         \/ Publish(p) \/ PublisherClose(p) \/ PublisherLeave(p)
         \/ TakeKeyframeRequests(p)
         \/ \E key \in BOOLEAN, m \in Media : PushFrame(p, key, m)
    \/ \E r \in Reqs : RequestKeyframe(r)
    \/ \E s \in Subs :
         \/ Subscribe(s) \/ SubscribeRefused(s)
         \/ RecvMissing(s) \/ RecvOverflow(s) \/ RecvFrame(s) \/ RecvEnd(s)
         \/ RecvWait(s) \/ RecvTimedOut(s)
         \/ SubscriberClose(s) \/ SubscriberDrop(s)
         \/ \E t \in Subs : CloneSubscriber(s, t)

Spec == Init /\ [][Next]_vars

(* A subscriber keeps receiving and a call that began is carried through;  *)
(* the timeout of recv_timeout is not relied on.                           *)
FairSpec ==
    /\ Spec
    /\ \A s \in Subs : WF_vars(Recv(s))
    /\ \A p \in Pubs : WF_vars(PublisherLeave(p))

-----------------------------------------------------------------------------
Open == {"open", "closing"}
Holders(c) == {p \in Pubs : h[p].core = c /\ h[p].at \in Open}
Listening == {"open", "receiving", "waiting", "ended"}

(* Types, and the limits the hub promises to keep: max_streams, the        *)
(* subscribers of one stream and the capacity of every queue.              *)
TypeOK ==
    /\ use \in Uses
    /\ streams \in [Urls -> Cores \cup {None}]
    /\ Cardinality(Registered) <= MaxStreams
    /\ ncores \in 0 .. MaxCores /\ nid \in 0 .. MaxIds
    /\ publishers \in [Cores -> Nat]
    /\ pclosed \in [Cores -> BOOLEAN]
    /\ requests \in [Cores -> Nat]
    /\ members \in [Cores -> SUBSET Ids]
    /\ \A c \in Cores : Cardinality(members[c]) <= MaxSubs
    /\ queue \in [Ids -> Seq([n : 1 .. nframes, key : BOOLEAN])]
    /\ \A i \in Ids : Len(queue[i]) <= use.capacity
    /\ overflowed \in [Ids -> BOOLEAN]
    /\ dropping \in [Ids -> BOOLEAN]
    /\ h \in [Actors -> [at : {"none", "found", "leaving", "reaping", "gone", "closing"}
                               \cup Listening,
                         url : Urls \cup {None}, core : Cores \cup {None},
                         id : Ids \cup {None}, left : Nat]]

(* A publisher handle that is open is never told that its stream is closed *)
(* (push_frame's RejectedClosed), whoever else publishes on the URL and    *)
(* closes meanwhile, and the counter never forgets or doubles a handle.    *)
OpenPublisherAccepted ==
    \A c \in Cores :
        /\ publishers[c] = Cardinality(Holders(c))
        /\ Holders(c) # {} => ~pclosed[c]

Stream(i) == taken[i] \o queue[i]

(* Policy DropUntilNextKeyframe: wherever the hub withheld a frame from a  *)
(* subscriber, the next one it hands out is a keyframe, so that a decoder  *)
(* never meets a delta without its reference.                              *)
HolesEndInKeyframe ==
    use.policy = "DropUntilNextKeyframe" => \A i \in Ids : \A k \in 1 .. Len(Stream(i)) - 1 :
        (\E n \in due[i] : Stream(i)[k].n < n /\ n < Stream(i)[k + 1].n)
            => Stream(i)[k + 1].key

Numbers(q) == {q[k].n : k \in DOMAIN q}

(* Policy DisconnectOnOverflow, whenever recv_timeout answers EndOfStream. *)
(* A handle whose entry is there was handed, together with its clones,     *)
(* every frame its filter passed since it subscribed: an overflow is told  *)
(* as such, even if the publisher closed since.  A handle that finds its   *)
(* entry gone (hub.rs 459-463) may be told a clean end with frames         *)
(* missing, and only then: a clone was told of the overflow in its stead,  *)
(* or a clone closed the subscription and, unless that had overflowed,     *)
(* only the frames still queued are missing.                               *)
CleanEndIsComplete ==
    [][use.policy = "DisconnectOnOverflow" => \A s \in Subs :
         LET i == h[s].id IN
         /\ RecvEnd(s) => Numbers(taken[i]) = due[i]
         /\ RecvMissing(s) =>
              \/ gone[i] = "overflow" /\ overflowed[i]
              \/ /\ gone[i] = "closed"
                 /\ overflowed[i] \/ Numbers(taken[i]) \cup Numbers(queue[i]) = due[i]]_vars

Endpoints == {p \in Pubs : h[p].at \in Open}
               \cup {s \in Subs : h[s].at \in Listening /\ ~Missing(s)}

(* try_reap never takes the entry of a stream from under a handle: once a  *)
(* handle is counted in a registered core, the entry stays until it left.  *)
CountedKeepsEntry ==
    [][\A a \in Endpoints :
          streams[h[a].url] = h[a].core /\ a \in Endpoints' /\ h'[a].id = h[a].id
            => streams'[h[a].url] = h[a].core]_vars

(* The close of the last publisher reaches every subscriber of the core:   *)
(* it ends, unless it leaves or a publisher comes back first.              *)
CloseReachesSubscribers ==
    \A s \in Subs, c \in Cores :
        (h[s].at \in Listening /\ h[s].core = c /\ pclosed[c])
            ~> (h[s].at \notin Listening \ {"ended"} \/ ~pclosed[c])

(* Registry entries are reaped when the last publisher and subscriber      *)
(* leave, so that unique URLs cannot grow it without bound (hub.rs         *)
(* 149-150): where every subscriber handle is closed before it is let go,  *)
(* no entry outlives the handles, but for the ones that keep a keyframe    *)
(* request for a late publisher.                                           *)
UnusedIsReaped ==
    ~use.drops /\ (\A a \in Actors : At(a, "none"))
        => \A u \in Registered : requests[streams[u]] > 0

(* Registry, handles and counters agree: types and limits, publishers that *)
(* are never refused by mistake, entries that are let go.                  *)
RegistryIsExact == TypeOK /\ OpenPublisherAccepted /\ UnusedIsReaped
=============================================================================
