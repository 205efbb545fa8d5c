------------------------------ MODULE MCIntake ------------------------------
(***************************************************************************)
(* QuestionIntake on small instances: two posts of one form, the second    *)
(* with the urgency the run gives it.                                      *)
(***************************************************************************)
EXTENDS QuestionIntake, TLC

CONSTANTS r1, r2, p1, form, second, changes

TwoPosts == {1, 2}
OneForm == [w \in TwoPosts |-> form]
UrgencyOfPosts == [w \in TwoPosts |-> IF w = 2 THEN second ELSE "normal"]
\* the first post is changed, the second only sent
RevsOfPosts == [w \in TwoPosts |-> IF w = 1 THEN changes ELSE 1]
RequestSymmetry == Permutations(Requests)
==============================================================================
