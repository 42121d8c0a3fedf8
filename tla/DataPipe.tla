------------------------------ MODULE DataPipe ------------------------------
(***************************************************************************)
(* DataPipe: a std::sync::mpsc channel next to an atomic depth counter.    *)
(*                                                                         *)
(* The counter is not updated with the channel: try_send adds one BEFORE   *)
(* it pushes and takes it back when the push is refused, recv_timeout and  *)
(* try_recv take one off AFTER they popped.  Senders are cloned freely;    *)
(* the receiver sits behind a mutex that is held for the whole receive.    *)
(* The engine reads depth() of both ends for its queue-depth metric.       *)
(***************************************************************************)
EXTENDS Integers, Sequences, FiniteSets

CONSTANTS
    Senders,      \* clones of the PipeSender, one per upstream instance
    Receivers,    \* workers that share the Arc<Mutex<PipeReceiver>>
    None,         \* nobody holds the receiver mutex with a packet in hand
    PipeCapacity,     \* capacity of a bounded pipe
    MaxSends      \* bound: packets each sender sends

ASSUME PipeAssumption ==
    /\ IsFiniteSet(Senders)
    /\ None \notin Receivers
    /\ PipeCapacity \in Nat \ {0}
    /\ MaxSends \in Nat

VARIABLES
    queue,        \* packets in the channel; <<s, k>> is the k-th packet of s
    depth,        \* PipeState.depth
    spc,          \* sender: "idle", "added" (counted), "refused" (to be undone)
    nsent,        \* packets a sender has put into the channel
    holder,       \* the receiver that popped a packet and still holds the lock
    connected     \* the receiving half is alive

pipeVars == <<queue, depth, spc, nsent, holder, connected>>

PipeInit ==
    /\ queue = <<>>
    /\ depth = 0
    /\ spc = [s \in Senders |-> "idle"]
    /\ nsent = [s \in Senders |-> 0]
    /\ holder = None
    /\ connected = TRUE

\* try_send: depth.fetch_add(1)
SendCount(s) ==
    /\ spc[s] = "idle" /\ nsent[s] < MaxSends
    /\ spc' = [spc EXCEPT ![s] = "added"]
    /\ depth' = depth + 1
    /\ UNCHANGED <<queue, nsent, holder, connected>>

CanPush == Len(queue) < PipeCapacity

\* try_send: the channel accepts the packet
SendPush(s) ==
    /\ spc[s] = "added" /\ connected /\ CanPush
    /\ queue' = Append(queue, <<s, nsent[s] + 1>>)
    /\ nsent' = [nsent EXCEPT ![s] = @ + 1]
    /\ spc' = [spc EXCEPT ![s] = "idle"]
    /\ UNCHANGED <<depth, holder, connected>>

\* try_send: the channel is full or disconnected; the caller may retry later
SendRefused(s) ==
    /\ spc[s] = "added" /\ ~(connected /\ CanPush)
    /\ spc' = [spc EXCEPT ![s] = "refused"]
    /\ UNCHANGED <<queue, depth, nsent, holder, connected>>

UndoCount_Missing(d) == d
UndoCount(d) == d - 1

\* try_send: inspect_err takes the count back
SendUndo(s) ==
    /\ spc[s] = "refused"
    /\ spc' = [spc EXCEPT ![s] = "idle"]
    /\ depth' = UndoCount(depth)
    /\ UNCHANGED <<queue, nsent, holder, connected>>

\* recv_timeout / try_recv under the receiver mutex: the pop
RecvPop(r) ==
    /\ holder = None /\ connected /\ queue # <<>>
    /\ holder' = r
    /\ queue' = Tail(queue)
    /\ UNCHANGED <<depth, spc, nsent, connected>>

\* recv_timeout / try_recv: inspect takes one off, then the lock is released
RecvCount(r) ==
    /\ holder = r
    /\ holder' = None
    /\ depth' = depth - 1
    /\ UNCHANGED <<queue, spc, nsent, connected>>

\* The last reference to the receiver goes away: the channel disconnects and
\* discards what it still holds.
DropReceiver ==
    /\ connected /\ holder = None
    /\ connected' = FALSE
    /\ queue' = <<>>
    /\ UNCHANGED <<depth, spc, nsent, holder>>

PipeNext ==
    \/ \E s \in Senders : SendCount(s) \/ SendPush(s) \/ SendRefused(s) \/ SendUndo(s)
    \/ \E r \in Receivers : RecvPop(r) \/ RecvCount(r)
    \/ DropReceiver

PipeSpec == PipeInit /\ [][PipeNext]_pipeVars

-----------------------------------------------------------------------------
(* Properties *)

PipePackets == Senders \X (1..MaxSends)

\* Types of the channel, its endpoints and the calls under way; a sender inside a
\* send always has that send left.
PipeTypeOK ==
    /\ queue \in Seq(PipePackets)
    /\ depth \in Int
    /\ spc \in [Senders -> {"idle", "added", "refused"}]
    /\ nsent \in [Senders -> 0..MaxSends]
    /\ \A s \in Senders : spc[s] # "idle" => nsent[s] < MaxSends
    /\ holder \in Receivers \union {None}
    /\ connected \in BOOLEAN

\* Senders between their fetch_add and the end of try_send.
Counted == {s \in Senders : spc[s] # "idle"}

\* While the receiver lives, the counter is the queue length plus one for every
\* try_send and every receive under way: additions and subtractions pair up, so
\* the unsigned counter never wraps below zero and is exact when nobody is
\* inside the pipe.
DepthAccounted ==
    connected => depth = Len(queue) + Cardinality(Counted)
                         + (IF holder = None THEN 0 ELSE 1)
=============================================================================
