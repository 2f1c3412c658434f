------------------------------ MODULE MCGroups ------------------------------
(* Instances of Groups for TLC. *)
EXTENDS Groups, TLC

CONSTANTS owner0, a, b

\* A new group, and one whose three members are all full administrators.
FoundersNewOrFull == {{owner0}, {owner0, a, b}}

\* Calls are told apart only by what they ask, and the two later members by
\* nothing.
Symmetry == Permutations(Call) \cup Permutations({a, b})

=============================================================================
