----------------------------- MODULE RuleValues -----------------------------
(***************************************************************************)
(* What the pure rules have in common: a refusal is the value Err, an      *)
(* absent value is None, and machine integers have a largest value.        *)
(***************************************************************************)
EXTENDS Integers, Sequences, FiniteSets, SequencesExt, FiniteSetsExt

CONSTANTS None, Err,
          UMax,     \* usize::MAX
          U32Max    \* u32::MAX

ASSUME RuleValuesAssumption == None # Err /\ UMax \in Nat /\ U32Max \in Nat

Or(v, default) == IF v = None THEN default ELSE v

CheckedAdd(a, b) == IF a = Err \/ b = Err THEN Err ELSE IF a + b > UMax THEN Err ELSE a + b
CheckedMul(a, b) == IF a = Err \/ b = Err THEN Err ELSE IF a * b > UMax THEN Err ELSE a * b
SaturatingAdd(a, b) == Min({a + b, UMax})
SaturatingMul(a, b) == Min({a * b, UMax})
AllOrErr(s) == IF Err \in ToSet(s) THEN Err ELSE s
DivCeil(a, b) == (a + b - 1) \div b
=============================================================================
