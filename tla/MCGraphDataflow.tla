-------------------------- MODULE MCGraphDataflow --------------------------
(***************************************************************************)
(* Small graphs on which TLC checks GraphDataflow.  A graph is written as  *)
(* its kinds and its connections; "a_b" is the connection from a to b.     *)
(***************************************************************************)
EXTENDS GraphDataflow

\* Packets, queue capacity, malformed frames, failing elements, stop requests.
Settings(n, cap, bad, fail, mayStop) ==
    [count |-> n, capacity |-> cap, bad |-> bad, canFail |-> fail, canStop |-> mayStop]

Of(kind, twice, inputs, outputs, settings) ==
    [kind |-> kind, threads |-> [n \in DOMAIN kind |-> IF n \in twice THEN 2 ELSE 1],
     inputs |-> inputs, outputs |-> outputs,
     count |-> settings.count, capacity |-> settings.capacity, bad |-> settings.bad,
     canFail |-> settings.canFail, canStop |-> settings.canStop]

\* source -> mid -> sink
Line(mid, twice, settings) ==
    Of([src |-> "source", mid |-> mid, snk |-> "sink"], twice,
       [src |-> <<>>, mid |-> <<"src_mid">>, snk |-> <<"mid_snk">>],
       [src |-> <<<<"src_mid">>>>, mid |-> <<<<"mid_snk">>>>, snk |-> <<>>], settings)

\* source -> postprocess -> sink, with a second branch into a dropping filter
Tee(settings) ==
    Of([src |-> "source", post |-> "postprocess", snk |-> "sink", filter |-> "filter_drop"],
       {"post"},
       [src |-> <<>>, post |-> <<"src_post">>, snk |-> <<"post_snk">>,
        filter |-> <<"src_filter">>],
       [src |-> <<<<"src_post", "src_filter">>>>, post |-> <<<<"post_snk">>>>,
        snk |-> <<>>, filter |-> <<>>], settings)

\* one source port with two senders: a sink and a distributor with two branches
Fan(settings) ==
    Of([src |-> "source", tap |-> "sink", dist |-> "broadcast", a |-> "sink", b |-> "sink"], {},
       [src |-> <<>>, tap |-> <<"src_tap">>, dist |-> <<"src_dist">>,
        a |-> <<"dist_a">>, b |-> <<"dist_b">>],
       [src |-> <<<<"src_tap", "src_dist">>>>, tap |-> <<>>,
        dist |-> <<<<"dist_a">>, <<"dist_b">>>>, a |-> <<>>, b |-> <<>>], settings)

\* source -> sink, with a second branch into a relay that nothing is connected to
Loose(settings) ==
    Of([src |-> "source", snk |-> "sink", spare |-> "relay"], {"spare"},
       [src |-> <<>>, snk |-> <<"src_snk">>, spare |-> <<"src_spare">>],
       [src |-> <<<<"src_snk", "src_spare">>>>, snk |-> <<>>, spare |-> <<>>], settings)

\* a source that nothing is connected to
Alone(settings) ==
    Of([src |-> "source"], {}, [src |-> <<>>], [src |-> <<>>], settings)

\* source -> round-robin distributor -> two relays -> converger -> sink
Diamond(settings) ==
    Of([src |-> "source", dist |-> "round_robin", a |-> "relay", b |-> "relay",
        conv |-> "converger", snk |-> "sink"], {},
       [src |-> <<>>, dist |-> <<"src_dist">>, a |-> <<"dist_a">>, b |-> <<"dist_b">>,
        conv |-> <<"a_conv", "b_conv">>, snk |-> <<"conv_snk">>],
       [src |-> <<<<"src_dist">>>>, dist |-> <<<<"dist_a">>, <<"dist_b">>>>,
        a |-> <<<<"a_conv">>>>, b |-> <<<<"b_conv">>>>, conv |-> <<<<"conv_snk">>>>,
        snk |-> <<>>], settings)

PassGraphs == {
    Line("relay", {"mid"}, Settings(3, 1, {}, FALSE, FALSE)),
    Line("preprocess", {}, Settings(3, 1, {2}, FALSE, TRUE)),
    Tee(Settings(2, 2, {2}, FALSE, FALSE)),
    Tee(Settings(3, 1, {2}, FALSE, FALSE)),      \* more drops than packet_starts holds
    Fan(Settings(2, 1, {}, TRUE, TRUE)),
    Loose(Settings(2, 1, {}, FALSE, TRUE)),
    Alone(Settings(1, 1, {}, FALSE, TRUE)),
    Diamond(Settings(1, 1, {}, FALSE, TRUE)) }
DiamondGraphs == { Diamond(Settings(2, 2, {}, FALSE, FALSE)) }
=============================================================================
