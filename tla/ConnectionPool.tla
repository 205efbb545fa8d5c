---------------------------- MODULE ConnectionPool ----------------------------
(***************************************************************************)
(* What db/pool.js promises its callers.  A request handler either sends   *)
(* single statements with query(), each on whatever connection is free, or *)
(* keeps one connection for a whole transaction with withTransaction() or  *)
(* getClient().  One handler of wpWebhook.js does neither: it sends BEGIN, *)
(* the statements and COMMIT through query().                              *)
(*                                                                         *)
(* A write is the handler and the number of the statement; what it writes  *)
(* is left out, and so are row locks: the handlers write different rows.   *)
(* Of PostgreSQL and the driver only the rules the handlers meet are kept: *)
(* statements join the open transaction of their connection, an error      *)
(* aborts it until it is ended, and a lost connection loses it.            *)
(***************************************************************************)
EXTENDS Integers, Sequences

CONSTANTS
    Handlers,  \* requests, each of which runs once
    Free,      \* not a handler
    Conns,     \* the connections of the pool, DB_POOL_MAX of them
    Offered    \* the programs that handlers run in this instance

Kinds == {"query", "transaction", "webhook", "deleteRabbi"}

ASSUME PoolAssumption ==
    /\ Free \notin Handlers
    /\ Offered \subseteq Kinds

VARIABLES
    run,       \* the request of each handler
    holder,    \* the handler that has checked out each connection
    tx,        \* what each connection is to the database
    pending,   \* the writes of the transaction open on each connection
    committed  \* the writes others see and a crash leaves

vars == <<run, holder, tx, pending, committed>>

(***************************************************************************)
(* The statements of each program.  "try" is a write whose error the       *)
(* handler ignores; "insert" is INSERT ... ON CONFLICT DO NOTHING.         *)
(***************************************************************************)
Program ==
    [query       |-> <<"write">>,
     transaction |-> <<"begin", "write", "write", "commit">>,
     deleteRabbi |-> <<"begin", "write", "try", "write", "commit">>,
     webhook     |-> <<"write", "begin", "insert", "write", "commit">>]

Last(kind) == Len(Program[kind])
IsWrite(op) == op \in {"write", "try", "insert"}
WritesOf == [kind \in Kinds |-> {i \in 1 .. Last(kind) : IsWrite(Program[kind][i])}]
OwnWrites(h) == {<<h, i>> : i \in WritesOf[run[h].kind]}

\* withTransaction and getClient keep the connection, query does not
Transactions == {"transaction", "deleteRabbi"}
KeepsNothing(kind) == FALSE  \* mutant: the statements go through query
Keeps(kind) == kind \in Transactions

Ended == {"done", "failed"}
Active == {"running", "undoing"}
NewRun == [kind |-> "query", stage |-> "new", at |-> 1]
Run == [kind : Kinds, stage : {"new"} \union Active \union Ended, at : 1 .. 5]

TypeOK ==
    /\ run \in [Handlers -> Run]
    /\ holder \in [Conns -> Handlers \union {Free}]
    /\ tx \in [Conns -> {"closed", "auto", "open", "aborted"}]
    /\ pending \in [Conns -> SUBSET (Handlers \X (1 .. 5))]
    /\ committed \in SUBSET (Handlers \X (1 .. 5))

Init ==
    /\ run = [h \in Handlers |-> NewRun]
    /\ holder = [c \in Conns |-> Free]
    /\ tx = [c \in Conns |-> "closed"]
    /\ pending = [c \in Conns |-> {}]
    /\ committed = {}

(***************************************************************************)
(* The database: what one statement does on connection c.                  *)
(***************************************************************************)

\* BEGIN within a transaction is only a warning
Begin(c) ==
    /\ tx[c] # "aborted"
    /\ tx' = [tx EXCEPT ![c] = "open"]
    /\ UNCHANGED <<pending, committed>>

Write(c, w) ==
    \/ /\ tx[c] = "auto"
       /\ committed' = committed \union {w}
       /\ UNCHANGED <<tx, pending>>
    \/ /\ tx[c] = "open"
       /\ pending' = [pending EXCEPT ![c] = @ \union {w}]
       /\ UNCHANGED <<tx, committed>>

\* COMMIT of an aborted transaction rolls back and reports no error; COMMIT and
\* ROLLBACK outside a transaction are only warnings
Commit(c) ==
    /\ committed' = committed \union pending[c]
    /\ tx' = [tx EXCEPT ![c] = "auto"]
    /\ pending' = [pending EXCEPT ![c] = {}]

Rollback(c) ==
    /\ tx' = [tx EXCEPT ![c] = "auto"]
    /\ pending' = [pending EXCEPT ![c] = {}]
    /\ UNCHANGED committed

Refuse(c) ==
    /\ tx' = [tx EXCEPT ![c] = IF @ = "auto" THEN "auto" ELSE "aborted"]
    /\ pending' = [pending EXCEPT ![c] = {}]
    /\ UNCHANGED committed

Close(c) ==
    /\ tx' = [tx EXCEPT ![c] = "closed"]
    /\ pending' = [pending EXCEPT ![c] = {}]

(***************************************************************************)
(* The handlers: how a request goes on.                                    *)
(***************************************************************************)
Op(r) == IF r.stage = "undoing" THEN "rollback" ELSE Program[r.kind][r.at]

\* mutant: withTransaction without COMMIT
ProceedsUncommitted(r) ==
    IF r.stage = "undoing" THEN [r EXCEPT !.stage = "failed"]
    ELSE IF r.at + 1 >= Last(r.kind) THEN [r EXCEPT !.stage = "done"]
    ELSE [r EXCEPT !.at = @ + 1]

Proceeds(r) ==
    IF r.stage = "undoing"
    THEN [r EXCEPT !.stage = IF r.kind = "webhook" THEN "done" ELSE "failed"]
    ELSE IF r.at = Last(r.kind) THEN [r EXCEPT !.stage = "done"]
    ELSE [r EXCEPT !.at = @ + 1]

\* mutant: withTransaction gives the connection back without ROLLBACK
AfterErrorNoRollback(r) ==
    IF Op(r) = "try" THEN Proceeds(r) ELSE [r EXCEPT !.stage = "failed"]

\* "Non-fatal": the webhook answers 200 whatever becomes of its transaction
AfterError(r) ==
    IF Op(r) = "try" THEN Proceeds(r)
    ELSE IF r.stage = "undoing" THEN Proceeds(r)
    ELSE IF r.kind = "query" \/ (r.kind = "webhook" /\ r.at = 1)
         THEN [r EXCEPT !.stage = "failed"]
    ELSE IF r.kind = "webhook" /\ Op(r) = "begin"
         THEN [r EXCEPT !.stage = "done"]
    ELSE [r EXCEPT !.stage = "undoing"]

\* without its connection a kept transaction ends: ROLLBACK is refused too
AfterLoss(r) ==
    IF Keeps(r.kind) THEN [r EXCEPT !.stage = "failed"] ELSE AfterError(r)

Holds(h, c) == holder[c] = h
Wants(h) == run[h].stage \in Active /\ \A c \in Conns : ~ Holds(h, c)


\* somebody waits for a connection: the next one given back is theirs
Contended == \A c \in Conns : holder[c] # Free
Waited(h) == Contended /\ \E o \in Handlers \ {h} : Wants(o)

\* The request goes on as r.  query() gives the connection back after each
\* statement; the handler sends the next one before anything else runs, so it
\* gets the connection it just gave back unless somebody waited for it
GoesOn(h, c, r) ==
    /\ run' = [run EXCEPT ![h] = r]
    /\ holder' = IF r.stage \notin Ended /\ (Keeps(r.kind) \/ ~ Waited(h))
                 THEN holder ELSE [holder EXCEPT ![c] = Free]

\* mutant: statements counted from zero
StartAtZero(h, kind) ==
    /\ run[h].stage = "new"
    /\ run' = [run EXCEPT ![h] = [kind |-> kind, stage |-> "running", at |-> 0]]
    /\ UNCHANGED <<holder, tx, pending, committed>>

Start(h, kind) ==
    /\ run[h].stage = "new"
    /\ run' = [run EXCEPT ![h] = [kind |-> kind, stage |-> "running", at |-> 1]]
    /\ UNCHANGED <<holder, tx, pending, committed>>

\* an idle connection if there is one, or else a new one.  Nothing ends a
\* transaction that the last user of the connection left open
Acquire(h, c) ==
    /\ Wants(h)
    /\ holder[c] = Free
    /\ tx[c] = "closed" =>
         \A d \in Conns : holder[d] = Free => tx[d] = "closed"
    /\ holder' = [holder EXCEPT ![c] = h]
    /\ tx' = [tx EXCEPT ![c] = IF @ = "closed" THEN "auto" ELSE @]
    /\ UNCHANGED <<run, pending, committed>>

\* connectionTimeoutMillis: no connection came free
AcquireTimesOut(h) ==
    /\ Wants(h)
    /\ Contended
    /\ run' = [run EXCEPT ![h] = AfterLoss(@)]
    /\ UNCHANGED <<holder, tx, pending, committed>>

Performs(h, c) ==
    LET op == Op(run[h]) IN
    \/ op = "begin" /\ Begin(c)
    \/ IsWrite(op) /\ Write(c, <<h, run[h].at>>)
    \/ op = "commit" /\ Commit(c)
    \/ op = "rollback" /\ Rollback(c)

StatementSucceeds(h, c) ==
    /\ Holds(h, c)
    /\ Performs(h, c)
    /\ GoesOn(h, c, Proceeds(run[h]))

\* a constraint, a missing table, or a transaction that is already aborted.  A
\* connection on which query() failed is not used again
StatementFails(h, c) ==
    /\ Holds(h, c)
    /\ \/ IsWrite(Op(run[h]))
       \/ Op(run[h]) = "begin" /\ tx[c] = "aborted"
    /\ \/ /\ Keeps(run[h].kind)
          /\ Refuse(c)
          /\ GoesOn(h, c, AfterError(run[h]))
       \/ /\ ~ Keeps(run[h].kind)
          /\ Close(c)
          /\ holder' = [holder EXCEPT ![c] = Free]
          /\ run' = [run EXCEPT ![h] = AfterError(@)]
          /\ UNCHANGED committed

\* the question has an answer already: nothing is inserted and the webhook
\* sends ROLLBACK
InsertSkipped(h, c) ==
    /\ Holds(h, c)
    /\ Op(run[h]) = "insert"
    /\ tx[c] # "aborted"
    /\ GoesOn(h, c, [run[h] EXCEPT !.stage = "undoing"])
    /\ UNCHANGED <<tx, pending, committed>>

\* the connection breaks while the handler has it: nobody knows whether the
\* statement under way took effect, but the transaction is over
ConnectionLost(h, c) ==
    /\ Holds(h, c)
    /\ Close(c)
    /\ \/ UNCHANGED committed
       \/ Op(run[h]) = "commit" /\ committed' = committed \union pending[c]
       \/ /\ IsWrite(Op(run[h])) /\ tx[c] = "auto"
          /\ committed' = committed \union {<<h, run[h].at>>}
    /\ holder' = [holder EXCEPT ![c] = Free]
    /\ run' = [run EXCEPT ![h] = AfterLoss(@)]

\* idleTimeoutMillis, or the pool removes a broken idle connection
IdleConnectionClosed(c) ==
    /\ holder[c] = Free
    /\ tx[c] # "closed"
    /\ Close(c)
    /\ UNCHANGED <<run, holder, committed>>

ServerRestarts ==
    /\ run' = [h \in Handlers |-> IF run[h].stage \in Active
                                  THEN [run[h] EXCEPT !.stage = "failed"]
                                  ELSE run[h]]
    /\ holder' = [c \in Conns |-> Free]
    /\ tx' = [c \in Conns |-> "closed"]
    /\ pending' = [c \in Conns |-> {}]
    /\ UNCHANGED committed

Next ==
    \/ \E h \in Handlers :
         \/ \E kind \in Offered : Start(h, kind)
         \/ AcquireTimesOut(h)
         \/ \E c \in Conns :
              \/ Acquire(h, c)
              \/ StatementSucceeds(h, c)
              \/ StatementFails(h, c)
              \/ InsertSkipped(h, c)
              \/ ConnectionLost(h, c)
    \/ \E c \in Conns : IdleConnectionClosed(c)
    \/ ServerRestarts

Spec == Init /\ [][Next]_vars

(***************************************************************************)
(* Properties                                                              *)
(***************************************************************************)

\* A transaction that keeps its connection is all or nothing for everybody
\* else, whatever fails and whatever the bare BEGIN of the webhook left open on
\* the connection it was given (pool.js, withTransaction: "Automatically calls
\* BEGIN / COMMIT / ROLLBACK").  For the removal of a rabbi this includes the
\* statements whose errors it ignores: one of them failed, nothing is removed.
TransactionAtomic ==
    \A h \in Handlers :
        run[h].kind \in Transactions =>
            \/ OwnWrites(h) \subseteq committed
            \/ OwnWrites(h) \intersect committed = {}

NoWebhook == \A h \in Handlers : run[h].kind # "webhook"

\* A write whose handler was told that it succeeded is never lost: always for
\* withTransaction, and for a single query() as long as no webhook runs, whose
\* open transaction a later statement of anybody may join and lose.
AcknowledgedIsKept ==
    \A h \in Handlers :
        /\ run[h].stage = "done"
        /\ run[h].kind \in Transactions \/ (run[h].kind = "query" /\ NoWebhook)
        => OwnWrites(h) \subseteq committed

\* The connections that wait in the pool carry no transaction, so that the
\* next statement on them is durable when it returns; only the webhook breaks it.
IdleIsClean ==
    NoWebhook =>
        \A c \in Conns : holder[c] = Free => tx[c] \in {"closed", "auto"}

\* AtomicStore, with the effect of each transaction read off what is committed
\* and the assurance off the requests that ended well.
Effect ==
    [h \in Handlers |->
        IF run[h].kind \notin Transactions \/ OwnWrites(h) \intersect committed = {}
        THEN "none"
        ELSE IF OwnWrites(h) \subseteq committed THEN "all" ELSE "part"]
Assured == {h \in Handlers : run[h].kind \in Transactions /\ run[h].stage = "done"}

Store == INSTANCE AtomicStore WITH Clients <- Handlers, effect <- Effect, assured <- Assured

\* Seen through withTransaction and getClient the pool is an AtomicStore: every
\* transaction takes effect in one step, alone, and success is reported in that
\* step or not at all, whatever fails and whatever the webhook leaves behind.
ImplementsAtomicStore == Store!Spec

\* wpWebhook.js: "Update question status only if the INSERT actually happened":
\* no question is marked as answered on behalf of the webhook without the row
\* in answers.
StatusOnlyWithAnswer ==
    \A h \in Handlers :
        run[h].kind = "webhook" /\ <<h, 4>> \in committed => <<h, 3>> \in committed
==============================================================================
