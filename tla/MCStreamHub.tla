----------------------------- MODULE MCStreamHub -----------------------------
(* Instances of StreamHub for TLC.                                         *)
EXTENDS StreamHub, TLC

CONSTANTS p1, p2, s1, s2, r1, u1, u2

MCUrls == {u1, u2}
MCPubs == {p1, p2}
MCSubs == {s1, s2}
MCReqs == {r1}

Passing(media) == [i \in Ids |-> media]
Opens(n, those) == [a \in Actors |-> IF a \in those THEN n ELSE 0]

\* one long stream to a subscriber that drops until the next keyframe
LongStream ==
    [urls |-> {u1}, capacity |-> 2, policy |-> "DropUntilNextKeyframe",
     filter |-> Passing({"video"}),
     drops |-> FALSE, frames |-> 5, opens |-> Opens(1, {p1, s1})]

\* two publishers open and close the URL of one subscriber, again and again
ManyPublishers ==
    [urls |-> {u1}, capacity |-> 1, policy |-> "DropDroppableFirst",
     filter |-> Passing({"audio"}),
     drops |-> FALSE, frames |-> 2, opens |-> [Opens(2, {p1, p2}) EXCEPT ![s1] = 1]]

\* two URLs with room for one stream, and two subscribers that may be clones
Overflowing ==
    [urls |-> {u1, u2}, capacity |-> 1, policy |-> "DisconnectOnOverflow",
     filter |-> [i \in Ids |-> IF i = 1 THEN {"video"} ELSE {"video", "audio"}],
     drops |-> FALSE, frames |-> 2, opens |-> Opens(1, {p1, s1, s2})]

\* keyframe requests create streams; subscriber handles are let go unclosed
Strangers ==
    [urls |-> {u1}, capacity |-> 2, policy |-> "DropDroppableFirst",
     filter |-> Passing({}),
     drops |-> TRUE, frames |-> 2, opens |-> [Opens(1, {s1, r1}) EXCEPT ![p1] = 2]]

MCUses == {LongStream, ManyPublishers, Overflowing, Strangers}
=============================================================================
