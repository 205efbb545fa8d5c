----------------------------- MODULE AtomicStore -----------------------------
(***************************************************************************)
(* What withTransaction promises its callers: the others see all of a      *)
(* transaction or nothing, from one step on and for ever, and nobody is    *)
(* told of success whose transaction the others do not see.  Whoever was   *)
(* told nothing, or of an error, may find that it took effect.             *)
(***************************************************************************)
CONSTANT Clients

VARIABLES
    effect,  \* what the others see of the transaction of each client
    assured  \* the clients that were told of success

store == <<effect, assured>>

Init ==
    /\ effect = [c \in Clients |-> "none"]
    /\ assured = {}

\* the answer, if it reaches the client at all, comes with the effect (the second
\* conjunct follows from the third; it spares TLC most of the comparisons)
Takes(c) ==
    /\ effect[c] = "none"
    /\ effect'[c] = "all"
    /\ effect' = [effect EXCEPT ![c] = "all"]
    /\ assured' \in {assured, assured \union {c}}

Next == \E c \in Clients : Takes(c)

Spec == Init /\ [][Next]_store
==============================================================================
