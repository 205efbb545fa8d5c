------------------------------ MODULE MCSessions ------------------------------
(***************************************************************************)
(* Sessions on small instances: the tabs of one browser, or one tab in     *)
(* each of two browsers.                                                   *)
(***************************************************************************)
EXTENDS Sessions, TLC

CONSTANTS b1, b2, t1, t2, c1, c2, c3

OneBrowser == [t \in Tabs |-> b1]
OwnBrowser == [t \in Tabs |-> IF t = t1 THEN b1 ELSE b2]
\* the tabs of one browser are alike
Symmetry == Permutations(Slots) \union Permutations(Tabs)
==============================================================================
