----------------------------- MODULE MCLifecycle -----------------------------
(***************************************************************************)
(* QuestionLifecycle on small instances.  Ora is the administrator.  Where *)
(* no liveness is checked, the slots that hold requests and the rabbis who *)
(* are not administrators are interchangeable.                             *)
(***************************************************************************)
EXTENDS QuestionLifecycle, TLC

CONSTANTS Levi, Dan, Ora, q1, q2, s1, s2

DeskSymmetry == Permutations(Slots) \union Permutations(Rabbis \ Admins)
==============================================================================
