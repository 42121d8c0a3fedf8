------------------------------ MODULE FrameLine ------------------------------
(***************************************************************************)
(* What a media element promises its graph, whatever its codec does: the   *)
(* k-th frame it gives is made of the k-th it took, nothing is taken once  *)
(* the input has closed, the end is told only when as many frames were     *)
(* given as taken, and after the end or a break nothing moves.             *)
(***************************************************************************)
EXTENDS Naturals, Sequences

VARIABLES taken,    \* how many frames were taken
          given,    \* the numbers of the frames given, in order
          phase     \* "open", "closed", "ended" or "broken"

lineVars == <<taken, given, phase>>

Init == taken = 0 /\ given = <<>> /\ phase = "open"

Moving == phase \in {"open", "closed"}

Take == phase = "open" /\ taken' = taken + 1 /\ UNCHANGED <<given, phase>>

Give ==
    /\ Moving /\ Len(given) < taken
    /\ given' = Append(given, Len(given) + 1)
    /\ UNCHANGED <<taken, phase>>

Close == phase = "open" /\ phase' = "closed" /\ UNCHANGED <<taken, given>>

End ==
    /\ phase = "closed" /\ Len(given) = taken
    /\ phase' = "ended"
    /\ UNCHANGED <<taken, given>>

Break == Moving /\ phase' = "broken" /\ UNCHANGED <<taken, given>>

Next == Take \/ Give \/ Close \/ End \/ Break

Spec == Init /\ [][Next]_lineVars
==============================================================================
