------------------------------ MODULE MCDelivery ------------------------------
(***************************************************************************)
(* AnswerDelivery on small instances.  The slots are not told apart, so    *)
(* they are permuted where no liveness is checked.                         *)
(***************************************************************************)
EXTENDS AnswerDelivery, TLC

CONSTANTS q1, q2, p1, p2, e1, e2

SlotSymmetry == Permutations(Pushes) \union Permutations(Editors)
==============================================================================
