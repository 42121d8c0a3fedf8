---------------------------- MODULE MCScheduler -----------------------------
(***************************************************************************)
(* A GPU core and two NPU cores.  Pool P has three instances on both NPU   *)
(* cores, so that two of them share a core, pool Q a single instance on    *)
(* the second NPU core, and pool R one on the GPU.  Two workers share P,   *)
(* or one of them works for Q or for R.                                    *)
(***************************************************************************)
EXTENDS Scheduler, TLC

CONSTANTS P, Q, R, c1, c2, k1, k2

Kinds == <<"gpu", "npu", "npu">>
CoresOf == P :> <<2, 3>> @@ Q :> <<3>> @@ R :> <<1>>
Counts == P :> 3 @@ Q :> 1 @@ R :> 1
Staff == {c1 :> P @@ c2 :> p : p \in {P, Q, R}}
=============================================================================
