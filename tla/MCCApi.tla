-------------------------------- MODULE MCCApi --------------------------------
(* Two threads over three uses: a graph put together and run once, with      *)
(* external memory; a graph that streams, is reloaded and destroyed; and the *)
(* installation of a process policy.                                         *)
EXTENDS CApi

Relay == [nodes |-> <<"in", "out">>, conns |-> {<<"in", "out">>}]
Sink == [nodes |-> <<"out">>, conns |-> {}]
Apart == [nodes |-> <<"in", "out">>, conns |-> {}]
MCLoadable == {Relay, Apart, Sink}
MCNames == {"in", "out"}

OneShot == [ops |-> {"load", "edit", "build", "push", "run", "reload", "poll", "destroy"},
            exts |-> Ext, policies |-> {}]
Streaming == [ops |-> {"load", "init", "reload", "poll", "read", "shutdown", "destroy"},
              exts |-> {}, policies |-> {}]
Bootstrap == [ops |-> {"load", "build", "init", "reload", "destroy"}, exts |-> {}, policies |-> {1, 2}]
MCUses == {OneShot, Streaming, Bootstrap}
=============================================================================
