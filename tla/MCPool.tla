-------------------------------- MODULE MCPool --------------------------------
(***************************************************************************)
(* ConnectionPool on small instances.  Handlers and connections are not    *)
(* told apart, so both are permuted.                                       *)
(***************************************************************************)
EXTENDS ConnectionPool, TLC

CONSTANTS h1, h2, h3, c1, c2

PoolSymmetry == Permutations(Handlers) \union Permutations(Conns)
==============================================================================
