---------------------------- MODULE MCDiscussions ----------------------------
(***************************************************************************)
(* Discussions on a small instance.                                        *)
(***************************************************************************)
EXTENDS Discussions, TLC

CONSTANTS Levi, Dan, c1, c2

SlotSymmetry == Permutations(Slots)
==============================================================================
