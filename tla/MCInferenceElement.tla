------------------------- MODULE MCInferenceElement -------------------------
(* InferenceElement for TLC: a pool of two runtimes, with a device that    *)
(* queues requests or with one that computes inside submit.                *)
EXTENDS InferenceElement, TLC

CONSTANTS r1, r2

MCRuntimes == {r1, r2}

MCBackends ==
    [async : {TRUE}, maxInFlight : {2}, cancelMayFail : {TRUE}]
      \cup [async : {FALSE}, maxInFlight : {2}, cancelMayFail : {FALSE}]
=============================================================================
