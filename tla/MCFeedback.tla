------------------------------ MODULE MCFeedback ------------------------------
(***************************************************************************)
(* AskerFeedback on a small instance.                                      *)
(***************************************************************************)
EXTENDS AskerFeedback, TLC

CONSTANTS Chaim, home, street, c1, c2

Symmetry == Permutations(Slots) \union Permutations(Addresses)
==============================================================================
