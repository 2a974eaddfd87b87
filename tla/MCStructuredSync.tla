--------------------------- MODULE MCStructuredSync ---------------------------
(* StructuredSync for TLC: vaults are numbers, keys are model values. *)
EXTENDS StructuredSync, TLC

AllFirst == [v \in Vaults |-> 1]
SecondNewer == [v \in Vaults |-> IF v = 2 THEN 2 ELSE 1]
SameKeys == Permutations(Keys)
=============================================================================
