----------------------------- MODULE MCMediaPump -----------------------------
(* MediaPump for TLC.                                                      *)
EXTENDS MediaPump

Quiet == [depth |-> 1, drainToAccept |-> FALSE, flushMayAgain |-> FALSE,
          mayFail |-> FALSE, mayStop |-> FALSE, upstreamEnds |-> TRUE]

MCSettings ==
    \* every submit meets a full session first, and the flush is refused
    {Quiet, [Quiet EXCEPT !.flushMayAgain = TRUE],
    \* anything may fail, and only a stop request is sure to end the element
     [Quiet EXCEPT !.depth = 2, !.flushMayAgain = TRUE, !.mayFail = TRUE,
                   !.mayStop = TRUE, !.upstreamEnds = FALSE],
    \* a session that takes more only after its outputs were polled
     [Quiet EXCEPT !.depth = 2, !.drainToAccept = TRUE, !.mayStop = TRUE]}
=============================================================================
