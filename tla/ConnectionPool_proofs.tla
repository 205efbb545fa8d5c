------------------------ MODULE ConnectionPool_proofs ------------------------
(***************************************************************************)
(* ConnectionPool: transactions are all or nothing and acknowledged writes *)
(* are kept, for any number of handlers and connections and any mix of     *)
(* programs.                                                               *)
(*                                                                         *)
(* The invariant says where the writes of a transaction can be: pending on *)
(* the one connection its handler holds, which has a transaction open from *)
(* the first BEGIN to the end, or all of them committed.  What any other   *)
(* handler does, even a stray COMMIT or ROLLBACK of the webhook, touches   *)
(* another connection (lemma Frame).                                       *)
(***************************************************************************)
EXTENDS ConnectionPool, TLAPS

\* a transaction only holds writes while it is open, on a connection that one
\* request holds at a time and only while it is active
PoolInv ==
    /\ \A c \in Conns : pending[c] # {} => tx[c] = "open"
    /\ \A c, d \in Conns : holder[c] = holder[d] /\ holder[c] # Free => c = d
    /\ \A c \in Conns : holder[c] # Free => run[holder[c]].stage \in Active
    /\ \A h \in Handlers : run[h].stage = "new" => run[h] = NewRun
    /\ \A h \in Handlers : run[h].at <= Last(run[h].kind)

Unseen(h) == \A i \in 1 .. 5 : <<h, i>> \notin committed
NotPending(h) == \A c \in Conns, i \in 1 .. 5 : <<h, i>> \notin pending[c]
PendingOnOwn(h) ==
    \A c \in Conns, i \in 1 .. 5 : <<h, i>> \in pending[c] => holder[c] = h

\* the connection of a transaction past its BEGIN
Carries(h, c) ==
    /\ holder[c] = h
    /\ \/ /\ tx[c] = "open"
          /\ \A i \in WritesOf[run[h].kind] :
               i < run[h].at => <<h, i>> \in pending[c]
       \/ tx[c] = "aborted" /\ run[h].kind = "deleteRabbi" /\ run[h].at = 4

AllOrNothing(h) ==
    OwnWrites(h) \subseteq committed \/ OwnWrites(h) \intersect committed = {}

NewInv(h) == run[h].stage = "new" => Unseen(h) /\ NotPending(h)

TransactionInv(h) ==
    run[h].kind \in Transactions =>
        /\ run[h].stage \in Active => Unseen(h) /\ PendingOnOwn(h)
        /\ run[h].stage = "running" /\ run[h].at = 1 => NotPending(h)
        /\ run[h].stage = "running" /\ run[h].at > 1 =>
             \E c \in Conns : Carries(h, c)
        /\ run[h].stage = "done" => OwnWrites(h) \subseteq committed
        /\ run[h].stage \in Ended => AllOrNothing(h) /\ NotPending(h)

\* without the webhook only running transactions leave anything open
CleanInv ==
    NoWebhook =>
        /\ \A c \in Conns : tx[c] \in {"open", "aborted"} =>
             holder[c] # Free /\ run[holder[c]].kind \in Transactions
        /\ \A h \in Handlers :
             run[h].kind = "query" /\ run[h].stage = "done" => <<h, 1>> \in committed
        /\ \A h \in Handlers :
             run[h].kind = "query" => run[h].stage # "undoing"

IInv ==
    /\ TypeOK
    /\ PoolInv
    /\ \A h \in Handlers : NewInv(h) /\ TransactionInv(h)
    /\ CleanInv

------------------------------------------------------------------------------
\* The programs statement by statement.
LEMMA Programs ==
    /\ Last("query") = 1 /\ Last("transaction") = 4
    /\ Last("deleteRabbi") = 5 /\ Last("webhook") = 5
    /\ WritesOf["query"] = {1} /\ WritesOf["transaction"] = {2, 3}
    /\ WritesOf["deleteRabbi"] = {2, 3, 4}
    /\ \A kind \in Transactions :
         /\ Program[kind][1] = "begin"
         /\ Program[kind][2] = "write"
         /\ Program[kind][Last(kind)] = "commit"
         /\ 1 < Last(kind)
    /\ Program["query"][1] = "write"
    /\ Program["transaction"][3] = "write"
    /\ Program["deleteRabbi"][3] = "try"
    /\ Program["deleteRabbi"][4] = "write"
  <1>1. \A kind \in Kinds :
          WritesOf[kind] = {i \in 1 .. Last(kind) : IsWrite(Program[kind][i])}
    BY DEF WritesOf
  <1>2. /\ WritesOf["query"] = {i \in 1 .. 1 : IsWrite(Program["query"][i])}
        /\ WritesOf["transaction"] = {i \in 1 .. 4 : IsWrite(Program["transaction"][i])}
        /\ WritesOf["deleteRabbi"] = {i \in 1 .. 5 : IsWrite(Program["deleteRabbi"][i])}
    BY <1>1 DEF Kinds, Last, Program
  <1> QED
    BY <1>2 DEF Last, Program, IsWrite, Transactions

\* What a handler does on its connection leaves the writes of another one as
\* they are: they are committed already or pending on a connection of its own.
LEMMA Frame ==
    ASSUME IInv, NEW h \in Handlers, NEW c \in Conns, NEW g \in Handlers,
           g # h, holder[c] # g, holder'[c] # g,
           run'[g] = run[g],
           \A d \in Conns \ {c} :
              holder'[d] = holder[d] /\ tx'[d] = tx[d] /\ pending'[d] = pending[d],
           \A w \in pending'[c] : w \in pending[c] \/ w[1] = h,
           committed \subseteq committed',
           \A w \in committed' :
              w \in committed \/ w \in pending[c] \/ w[1] = h
    PROVE  NewInv(g)' /\ TransactionInv(g)'
  <1>1. run[g] \in Run /\ NewInv(g) /\ TransactionInv(g)
    BY DEF IInv, TypeOK
  <1>2. (NotPending(g) => NotPending(g)') /\ (PendingOnOwn(g) => PendingOnOwn(g)')
    BY DEF NotPending, PendingOnOwn
  <1>3. Unseen(g) /\ PendingOnOwn(g) => Unseen(g)'
    BY DEF Unseen, PendingOnOwn
  <1>4. Unseen(g) /\ NotPending(g) => Unseen(g)'
    BY DEF Unseen, NotPending
  <1>5. WritesOf[run[g].kind] \subseteq 1 .. 5
    BY <1>1, Programs DEF Run, Kinds, WritesOf, Last, Program
  <1>6. AllOrNothing(g) /\ NotPending(g) => AllOrNothing(g)'
    BY <1>5 DEF AllOrNothing, NotPending, OwnWrites
  <1>7. ASSUME NEW d \in Conns, Carries(g, d)
        PROVE  Carries(g, d)'
    BY <1>7 DEF Carries
  <1>8. OwnWrites(g) \subseteq committed => OwnWrites(g)' \subseteq committed'
    BY DEF OwnWrites
  <1>9. NewInv(g)'
    BY <1>1, <1>2, <1>4 DEF NewInv
  <1>10. TransactionInv(g)'
    BY <1>1, <1>2, <1>3, <1>6, <1>7, <1>8 DEF TransactionInv
  <1> QED
    BY <1>9, <1>10

\* However a request goes on, it is the same program, started, at one of its
\* statements.
LEMMA GoingOn ==
    ASSUME NEW r \in Run, r.stage \in Active, r.at <= Last(r.kind),
           NEW n \in {Proceeds(r), AfterError(r), AfterLoss(r)}
    PROVE  /\ n \in Run
           /\ n.kind = r.kind
           /\ n.at <= Last(n.kind)
           /\ n.stage # "new"
  <1>1. Last(r.kind) \in 1 .. 5
    BY Programs DEF Run, Kinds
  <1>2. /\ Proceeds(r) \in Run
        /\ Proceeds(r).kind = r.kind
        /\ Proceeds(r).at <= Last(r.kind)
        /\ Proceeds(r).stage # "new"
    BY <1>1 DEF Proceeds, Run, Active, Ended
  <1>3. /\ AfterError(r) \in Run
        /\ AfterError(r).kind = r.kind
        /\ AfterError(r).at <= Last(r.kind)
        /\ AfterError(r).stage # "new"
    BY <1>2 DEF AfterError, Run, Active, Ended
  <1> QED
    BY <1>2, <1>3 DEF AfterLoss, Run, Active, Ended

\* Every step keeps the types.
LEMMA TypeStep == IInv /\ [Next]_vars => TypeOK'
  <1> SUFFICES ASSUME IInv, [Next]_vars PROVE TypeOK'
    OBVIOUS
  <1> USE DEF TypeOK, IInv, PoolInv
  <1>1. ASSUME NEW h \in Handlers, NEW kind \in Offered, Start(h, kind)
        PROVE  TypeOK'
    BY <1>1, PoolAssumption DEF Start, Run, Active
  <1>2. ASSUME NEW h \in Handlers, AcquireTimesOut(h) PROVE TypeOK'
    BY <1>2, GoingOn DEF AcquireTimesOut, Wants
  <1>3. ASSUME NEW h \in Handlers, NEW c \in Conns, Acquire(h, c) PROVE TypeOK'
    BY <1>3 DEF Acquire
  <1>4. ASSUME NEW h \in Handlers, NEW c \in Conns, holder[c] = h
        PROVE  run[h] \in Run /\ run[h].stage \in Active /\ run[h].at <= Last(run[h].kind)
    BY <1>4, PoolAssumption
  <1>5. ASSUME NEW h \in Handlers, NEW c \in Conns, StatementSucceeds(h, c)
        PROVE  TypeOK'
    <2>1. Proceeds(run[h]) \in Run
      BY <1>4, <1>5, GoingOn DEF StatementSucceeds, Holds
    <2>2. run' \in [Handlers -> Run] /\ holder' \in [Conns -> Handlers \union {Free}]
      BY <1>5, <2>1 DEF StatementSucceeds, GoesOn
    <2>3. <<h, run[h].at>> \in Handlers \X (1 .. 5)
      BY DEF Run
    <2>4. pending' \in [Conns -> SUBSET (Handlers \X (1 .. 5))]
          /\ tx' \in [Conns -> {"closed", "auto", "open", "aborted"}]
      BY <1>5, <2>3 DEF StatementSucceeds, Performs, Begin, Write, Commit, Rollback
    <2>5. committed' \in SUBSET (Handlers \X (1 .. 5))
      BY <1>5, <2>3 DEF StatementSucceeds, Performs, Begin, Write, Commit, Rollback
    <2> QED
      BY <2>2, <2>4, <2>5
  <1>6. ASSUME NEW h \in Handlers, NEW c \in Conns, StatementFails(h, c)
        PROVE  TypeOK'
    <2>1. AfterError(run[h]) \in Run
      BY <1>4, <1>6, GoingOn DEF StatementFails, Holds
    <2>2. run' \in [Handlers -> Run] /\ holder' \in [Conns -> Handlers \union {Free}]
      BY <1>6, <2>1 DEF StatementFails, GoesOn
    <2> QED
      BY <1>6, <2>2 DEF StatementFails, Refuse, Close
  <1>7. ASSUME NEW h \in Handlers, NEW c \in Conns, InsertSkipped(h, c)
        PROVE  TypeOK'
    BY <1>7 DEF InsertSkipped, GoesOn, Run, Active
  <1>8. ASSUME NEW h \in Handlers, NEW c \in Conns, ConnectionLost(h, c)
        PROVE  TypeOK'
    <2>1. AfterLoss(run[h]) \in Run
      BY <1>4, <1>8, GoingOn DEF ConnectionLost, Holds
    <2>2. <<h, run[h].at>> \in Handlers \X (1 .. 5)
      BY DEF Run
    <2> QED
      BY <1>8, <2>1, <2>2 DEF ConnectionLost, Close
  <1>9. ASSUME NEW c \in Conns, IdleConnectionClosed(c) PROVE TypeOK'
    BY <1>9 DEF IdleConnectionClosed, Close
  <1>10. ASSUME ServerRestarts PROVE TypeOK'
    BY <1>10 DEF ServerRestarts, Run, Active, Ended
  <1>11. ASSUME UNCHANGED vars PROVE TypeOK'
    BY <1>11 DEF vars
  <1> QED
    BY <1>1, <1>2, <1>3, <1>5, <1>6, <1>7, <1>8, <1>9, <1>10, <1>11 DEF Next

------------------------------------------------------------------------------
\* The rest of the invariant, action by action.
StepInv == PoolInv /\ (\A h \in Handlers : NewInv(h) /\ TransactionInv(h)) /\ CleanInv

\* A step that leaves a request, the pool and the database alone.
LEMMA Untouched ==
    ASSUME NEW g \in Handlers, NewInv(g), TransactionInv(g), run'[g] = run[g],
           UNCHANGED <<holder, tx, pending, committed>>
    PROVE  NewInv(g)' /\ TransactionInv(g)'
  <1>1. /\ Unseen(g)' <=> Unseen(g)
        /\ NotPending(g)' <=> NotPending(g)
        /\ PendingOnOwn(g)' <=> PendingOnOwn(g)
    BY DEF Unseen, NotPending, PendingOnOwn
  <1>2. AllOrNothing(g)' <=> AllOrNothing(g)
    BY DEF AllOrNothing, OwnWrites
  <1>3. \A c \in Conns : Carries(g, c)' <=> Carries(g, c)
    BY DEF Carries
  <1>4. OwnWrites(g)' = OwnWrites(g)
    BY DEF OwnWrites
  <1>5. NewInv(g)'
    BY <1>1 DEF NewInv
  <1>6. TransactionInv(g)'
    BY <1>1, <1>2, <1>3, <1>4 DEF TransactionInv
  <1> QED
    BY <1>5, <1>6

\* A handler that starts has no connection and has written nothing.
LEMMA StartStep ==
    ASSUME IInv, TypeOK', NEW h \in Handlers, NEW kind \in Offered, Start(h, kind)
    PROVE  StepInv'
  <1> DEFINE r == [kind |-> kind, stage |-> "running", at |-> 1]
  <1> USE DEF IInv, TypeOK
  <1>1. /\ run' = [run EXCEPT ![h] = r] /\ run[h] = NewRun /\ kind \in Kinds
        /\ UNCHANGED <<holder, tx, pending, committed>>
    BY PoolAssumption DEF Start, PoolInv
  <1>2. \A c \in Conns : holder[c] # h
    BY <1>1, PoolAssumption DEF PoolInv, NewRun, Active
  <1>3. PoolInv'
    BY <1>1, <1>2, Programs DEF PoolInv, Active, Kinds, NewRun, Transactions
  <1>4. Unseen(h) /\ NotPending(h)
    BY <1>1 DEF NewInv, NewRun
  <1>5. NewInv(h)' /\ TransactionInv(h)'
    <2>1. Unseen(h)' /\ NotPending(h)'
      BY <1>1, <1>4 DEF Unseen, NotPending
    <2>2. PendingOnOwn(h)'
      BY <2>1 DEF NotPending, PendingOnOwn
    <2>3. run'[h].kind = kind /\ run'[h].stage = "running" /\ run'[h].at = 1
      BY <1>1
    <2>4. NewInv(h)'
      BY <2>3 DEF NewInv
    <2>5. TransactionInv(h)'
      BY <2>1, <2>2, <2>3 DEF TransactionInv, Active, Ended
    <2> QED
      BY <2>4, <2>5
  <1>6. ASSUME NEW g \in Handlers, g # h PROVE NewInv(g)' /\ TransactionInv(g)'
    BY <1>1, <1>6, Untouched
  <1>7. CleanInv'
    <2> SUFFICES ASSUME NoWebhook' PROVE CleanInv'
      BY DEF CleanInv
    <2>1. NoWebhook
      BY <1>1 DEF NoWebhook, NewRun
    <2> QED
      BY <1>1, <1>2, <2>1 DEF CleanInv, NewRun
  <1> QED
    BY <1>3, <1>5, <1>6, <1>7 DEF StepInv

\* A connection is given out with whatever is open on it.
LEMMA AcquireStep ==
    ASSUME IInv, TypeOK', NEW h \in Handlers, NEW c \in Conns, Acquire(h, c)
    PROVE  StepInv'
  <1> USE DEF IInv, TypeOK
  <1>1. /\ holder' = [holder EXCEPT ![c] = h] /\ holder[c] = Free
        /\ run[h].stage \in Active /\ \A d \in Conns : holder[d] # h
        /\ UNCHANGED <<run, pending, committed>>
    BY DEF Acquire, Wants, Holds
  <1>2. \A d \in Conns : tx'[d] = tx[d] \/ (d = c /\ tx[d] = "closed" /\ tx'[d] = "auto")
    BY DEF Acquire
  <1>3. PoolInv'
    BY <1>1, <1>2, PoolAssumption DEF PoolInv, Active
  <1>4. ASSUME NEW g \in Handlers PROVE NewInv(g)' /\ TransactionInv(g)'
    <2>1. (Unseen(g) <=> Unseen(g)') /\ (NotPending(g) <=> NotPending(g)')
          /\ (AllOrNothing(g) <=> AllOrNothing(g)')
      BY <1>1 DEF Unseen, NotPending, AllOrNothing, OwnWrites
    <2>2. PendingOnOwn(g) => PendingOnOwn(g)'
      BY <1>1, PoolAssumption DEF PendingOnOwn
    <2>3. ASSUME NEW d \in Conns, Carries(g, d) PROVE Carries(g, d)'
      BY <1>1, <1>2, <2>3, PoolAssumption DEF Carries
    <2> QED
      BY <1>1, <2>1, <2>2, <2>3 DEF NewInv, TransactionInv, OwnWrites
  <1>5. CleanInv'
    BY <1>1, <1>2, PoolAssumption DEF CleanInv, NoWebhook
  <1> QED
    BY <1>3, <1>4, <1>5 DEF StepInv

\* A request that ends without a connection has written nothing yet.
LEMMA AcquireTimesOutStep ==
    ASSUME IInv, TypeOK', NEW h \in Handlers, AcquireTimesOut(h)
    PROVE  StepInv'
  <1> USE DEF IInv, TypeOK
  <1> DEFINE n == AfterLoss(run[h])
  <1>1. /\ run' = [run EXCEPT ![h] = n] /\ run[h].stage \in Active
        /\ \A c \in Conns : holder[c] # h
        /\ UNCHANGED <<holder, tx, pending, committed>>
    BY DEF AcquireTimesOut, Wants, Holds
  <1>2. /\ n \in Run /\ n.kind = run[h].kind /\ n.at <= Last(n.kind)
        /\ n.stage # "new"
    BY <1>1, GoingOn DEF PoolInv
  <1> HIDE DEF n
  <1>3. PoolInv'
    BY <1>1, <1>2 DEF PoolInv
  <1>4. run[h].kind \in Transactions => n.stage = "failed"
    BY DEF AfterLoss, Keeps, n, Run
  <1>5. NewInv(h)' /\ TransactionInv(h)'
    <2>1. NewInv(h)'
      BY <1>1, <1>2 DEF NewInv
    <2>2. TransactionInv(h)'
      <3> SUFFICES ASSUME run[h].kind \in Transactions PROVE TransactionInv(h)'
        BY <1>1, <1>2 DEF TransactionInv
      <3>1. Unseen(h) /\ PendingOnOwn(h)
        BY <1>1 DEF TransactionInv
      <3>2. NotPending(h)'
        BY <1>1, <3>1 DEF PendingOnOwn, NotPending
      <3>3. AllOrNothing(h)'
        BY <1>1, <1>2, <3>1, Programs DEF AllOrNothing, OwnWrites, Unseen, Transactions
      <3> QED
        BY <1>1, <1>2, <1>4, <3>2, <3>3 DEF TransactionInv, Active
    <2> QED
      BY <2>1, <2>2
  <1>6. ASSUME NEW g \in Handlers, g # h PROVE NewInv(g)' /\ TransactionInv(g)'
    BY <1>1, <1>6, Untouched
  <1>7. CleanInv'
    <2> SUFFICES ASSUME NoWebhook' PROVE CleanInv'
      BY DEF CleanInv
    <2>1. NoWebhook
      BY <1>1, <1>2 DEF NoWebhook
    <2>2. run[h].kind = "query" => n.stage = "failed"
      BY <1>1, <2>1, Programs DEF AfterLoss, AfterError, Keeps, Transactions, n,
           Op, Run, CleanInv, PoolInv, Active
    <2> QED
      BY <1>1, <1>2, <2>1, <2>2 DEF CleanInv
  <1> QED
    BY <1>3, <1>5, <1>6, <1>7 DEF StepInv

\* What a transaction sends next.
LEMMA NextStatement ==
    ASSUME NEW r \in Run, r.kind \in Transactions, r.at <= Last(r.kind)
    PROVE  /\ r.stage = "undoing" => Op(r) = "rollback"
           /\ r.stage = "running" /\ r.at = 1 => Op(r) = "begin" /\ r.at # Last(r.kind)
           /\ r.stage = "running" /\ 1 < r.at /\ r.at # Last(r.kind) => IsWrite(Op(r))
           /\ r.stage = "running" /\ r.at = Last(r.kind) => Op(r) = "commit"
           /\ r.at \in 1 .. 5
           /\ Keeps(r.kind)
           /\ WritesOf[r.kind] = 2 .. (Last(r.kind) - 1)
  <1>1. CASE r.kind = "transaction"
    <2>1. r.at \in 1 .. 4 /\ Last(r.kind) = 4
      BY <1>1, Programs DEF Run
    <2>2. /\ Program[r.kind][1] = "begin" /\ Program[r.kind][2] = "write"
          /\ Program[r.kind][3] = "write" /\ Program[r.kind][4] = "commit"
      BY <1>1 DEF Program
    <2>3. WritesOf[r.kind] = 2 .. 3
      BY <1>1, Programs
    <2> QED
      BY <2>1, <2>2, <2>3 DEF Op, IsWrite, Keeps
  <1>2. CASE r.kind = "deleteRabbi"
    <2>1. r.at \in 1 .. 5 /\ Last(r.kind) = 5
      BY <1>2, Programs DEF Run
    <2>2. /\ Program[r.kind][1] = "begin" /\ Program[r.kind][2] = "write"
          /\ Program[r.kind][3] = "try" /\ Program[r.kind][4] = "write"
          /\ Program[r.kind][5] = "commit"
      BY <1>2 DEF Program
    <2>3. WritesOf[r.kind] = 2 .. 4
      BY <1>2, Programs
    <2> QED
      BY <2>1, <2>2, <2>3 DEF Op, IsWrite, Keeps
  <1> QED
    BY <1>1, <1>2 DEF Transactions

\* A step of request h on its connection c, after which h goes on as n: what it
\* does to itself aside, the pool and the other requests keep their invariant.
LEMMA OneStep ==
    ASSUME IInv, TypeOK', NEW h \in Handlers, NEW c \in Conns, holder[c] = h,
           NEW n \in Run, n.kind = run[h].kind, n.at <= Last(n.kind),
           n.stage # "new", run' = [run EXCEPT ![h] = n],
           holder' \in {holder, [holder EXCEPT ![c] = Free]},
           n.stage \in Ended => holder' = [holder EXCEPT ![c] = Free],
           \A d \in Conns \ {c} : tx'[d] = tx[d] /\ pending'[d] = pending[d],
           pending'[c] # {} => tx'[c] = "open",
           \A w \in pending'[c] : w \in pending[c] \/ w[1] = h,
           committed \subseteq committed',
           \A w \in committed' :
              w \in committed \/ w \in pending[c] \/ w[1] = h
    PROVE  /\ PoolInv'
           /\ \A g \in Handlers \ {h} : NewInv(g)' /\ TransactionInv(g)'
           /\ NewInv(h)'
  <1>1. /\ TypeOK /\ PoolInv /\ h # Free /\ run'[h] = n
        /\ \A g \in Handlers \ {h} : run'[g] = run[g]
        /\ \A d \in Conns : holder[d] = h => d = c
    BY PoolAssumption DEF IInv, TypeOK, PoolInv
  <1>2. \A d \in Conns \ {c} : holder'[d] = holder[d]
    BY <1>1 DEF TypeOK
  <1>3. holder'[c] \in {h, Free}
    BY <1>1 DEF TypeOK
  <1>4. PoolInv'
    <2>1. \A d \in Conns : pending'[d] # {} => tx'[d] = "open"
      BY <1>1 DEF PoolInv
    <2>2. \A d, e \in Conns : holder'[d] = holder'[e] /\ holder'[d] # Free => d = e
      BY <1>1, <1>2, <1>3 DEF PoolInv
    <2>3. \A d \in Conns : holder'[d] # Free => run'[holder'[d]].stage \in Active
      <3> TAKE d \in Conns
      <3>1. CASE d = c
        BY <3>1, <1>1, <1>3 DEF TypeOK, Run, Active, Ended
      <3>2. CASE d # c
        BY <3>2, <1>1, <1>2 DEF PoolInv, TypeOK
      <3> QED
        BY <3>1, <3>2
    <2>4. \A g \in Handlers : run'[g].stage = "new" => run'[g] = NewRun
      BY <1>1 DEF PoolInv
    <2>5. \A g \in Handlers : run'[g].at <= Last(run'[g].kind)
      BY <1>1 DEF PoolInv
    <2> QED
      BY <2>1, <2>2, <2>3, <2>4, <2>5 DEF PoolInv
  <1>5. ASSUME NEW g \in Handlers \ {h} PROVE NewInv(g)' /\ TransactionInv(g)'
    <2>1. holder[c] # g /\ holder'[c] # g
      BY <1>1, <1>3, PoolAssumption
    <2> QED
      BY <1>1, <1>2, <2>1, Frame
  <1>6. NewInv(h)'
    BY <1>1 DEF NewInv
  <1> QED
    BY <1>4, <1>5, <1>6

\* A statement writes, or ends, the transaction of its connection.
LEMMA StatementSucceedsStep ==
    ASSUME IInv, TypeOK', NEW h \in Handlers, NEW c \in Conns,
           StatementSucceeds(h, c)
    PROVE  StepInv'
  <1> DEFINE r == run[h]
             n == Proceeds(r)
  <1>0. /\ TypeOK /\ PoolInv /\ CleanInv
        /\ \A g \in Handlers : NewInv(g) /\ TransactionInv(g)
    BY DEF IInv
  <1>1. /\ holder[c] = h /\ h # Free /\ r \in Run /\ r.stage \in Active
        /\ r.at <= Last(r.kind)
        /\ \A d \in Conns : holder[d] = h => d = c
    BY <1>0, PoolAssumption DEF StatementSucceeds, Holds, TypeOK, PoolInv
  <1>2. n \in Run /\ n.kind = r.kind /\ n.at <= Last(n.kind) /\ n.stage # "new"
    BY <1>1, GoingOn
  <1>3. /\ run' = [run EXCEPT ![h] = n] /\ run'[h] = n
        /\ \A g \in Handlers \ {h} : run'[g] = run[g]
        /\ holder' \in {holder, [holder EXCEPT ![c] = Free]}
        /\ n.stage \notin Ended /\ Keeps(r.kind) => holder' = holder
        /\ n.stage \in Ended => holder' = [holder EXCEPT ![c] = Free]
    BY <1>0, <1>2 DEF StatementSucceeds, GoesOn, TypeOK
  <1>4. Performs(h, c)
    BY DEF StatementSucceeds
  <1>5. /\ \A d \in Conns \ {c} :
             holder'[d] = holder[d] /\ tx'[d] = tx[d] /\ pending'[d] = pending[d]
        /\ \A w \in pending'[c] : w \in pending[c] \/ w[1] = h
        /\ committed \subseteq committed'
        /\ \A w \in committed' : w \in committed \/ w \in pending[c] \/ w[1] = h
        /\ pending'[c] # {} => tx'[c] = "open"
    <2>1. \A d \in Conns \ {c} : holder'[d] = holder[d]
      BY <1>0, <1>3 DEF TypeOK
    <2> QED
      BY <1>0, <1>4, <2>1 DEF Performs, Begin, Write, Commit, Rollback, TypeOK, PoolInv
  <1>6. holder'[c] \in {h, Free}
    BY <1>0, <1>1, <1>3 DEF TypeOK
  <1> HIDE DEF n
  <1>7. /\ PoolInv' /\ NewInv(h)'
        /\ \A g \in Handlers \ {h} : NewInv(g)' /\ TransactionInv(g)'
    <2>1. n.stage \in Ended => holder' = [holder EXCEPT ![c] = Free]
      BY <1>3
    <2>2. \A d \in Conns \ {c} : tx'[d] = tx[d] /\ pending'[d] = pending[d]
      BY <1>5
    <2>3. n \in Run /\ n.kind = run[h].kind /\ n.at <= Last(n.kind) /\ n.stage # "new"
      BY <1>2
    <2> HIDE DEF r
    <2> QED
      BY <1>1, <1>3, <1>5, <2>1, <2>2, <2>3, OneStep
  <1>10. ASSUME r.kind \in Transactions
         PROVE  /\ TransactionInv(h)'
                /\ tx'[c] \in {"open", "aborted"} => holder'[c] = h
    <2>1. Unseen(h) /\ PendingOnOwn(h)
      BY <1>0, <1>1, <1>10 DEF TransactionInv
    <2>2. OwnWrites(h)' = OwnWrites(h) /\ OwnWrites(h) = {<<h, i>> : i \in 2 .. (Last(r.kind) - 1)}
      BY <1>1, <1>2, <1>3, <1>10, NextStatement DEF OwnWrites
    <2>3. Last(r.kind) \in 4 .. 5
      BY <1>10, Programs DEF Transactions
    <2>4. CASE r.stage = "undoing"
      <3>1. Rollback(c) /\ n.stage = "failed"
        BY <1>1, <1>4, <1>10, <2>4, NextStatement DEF Performs, IsWrite, n, Proceeds, Run, Transactions
      <3>2. pending'[c] = {} /\ tx'[c] = "auto" /\ committed' = committed
        BY <1>0, <3>1 DEF Rollback, TypeOK
      <3>3. NotPending(h)' /\ Unseen(h)'
        BY <1>1, <1>5, <2>1, <3>2 DEF NotPending, PendingOnOwn, Unseen
      <3>4. AllOrNothing(h)'
        BY <2>2, <2>3, <3>3 DEF AllOrNothing, Unseen
      <3> QED
        BY <1>3, <3>1, <3>2, <3>3, <3>4 DEF TransactionInv, Active
    <2>5. CASE r.stage = "running" /\ r.at = 1
      <3>1. Begin(c) /\ n.stage = "running" /\ n.at = 2
        BY <1>1, <1>4, <1>10, <2>5, NextStatement DEF Performs, IsWrite, n, Proceeds, Run
      <3>2. /\ pending' = pending /\ tx'[c] = "open" /\ committed' = committed
            /\ holder' = holder
        BY <1>0, <1>1, <1>3, <1>10, <3>1, NextStatement DEF Begin, TypeOK, Ended
      <3>3. Carries(h, c)'
        <4>1. \A i \in WritesOf[n.kind] : ~(i < 2)
          BY <1>1, <1>2, <1>10, <2>3, NextStatement
        <4> QED
          BY <1>1, <1>3, <3>1, <3>2, <4>1 DEF Carries
      <3>4. Unseen(h)' /\ PendingOnOwn(h)'
        BY <2>1, <3>2 DEF Unseen, PendingOnOwn
      <3> QED
        BY <1>1, <1>3, <3>1, <3>2, <3>3, <3>4 DEF TransactionInv, Active, Ended
    <2>6. CASE r.stage = "running" /\ 1 < r.at /\ r.at # Last(r.kind)
      <3>1. IsWrite(Op(r)) /\ n.stage = "running" /\ n.at = r.at + 1
        BY <1>1, <1>10, <2>6, NextStatement DEF n, Proceeds, Run
      <3>2. Write(c, <<h, r.at>>)
        BY <1>4, <3>1 DEF Performs, IsWrite
      <3>3. Carries(h, c)
        BY <1>0, <1>1, <1>10, <2>6 DEF TransactionInv, Carries
      <3>4. /\ tx[c] = "open" /\ tx' = tx /\ committed' = committed
            /\ pending' = [pending EXCEPT ![c] = @ \union {<<h, r.at>>}]
            /\ holder' = holder
        BY <1>1, <1>3, <1>10, <3>1, <3>2, <3>3, NextStatement DEF Write, Carries, Ended
      <3>5. \A i \in WritesOf[r.kind] : i < r.at + 1 => <<h, i>> \in pending'[c]
        <4>1. \A i \in WritesOf[r.kind] : i < r.at + 1 => i < r.at \/ i = r.at
          BY <1>1, <1>10, <2>3, NextStatement
        <4>2. \A i \in WritesOf[r.kind] : i < r.at => <<h, i>> \in pending[c]
          BY <3>3, <3>4 DEF Carries
        <4>3. pending'[c] = pending[c] \union {<<h, r.at>>}
          BY <1>0, <3>4 DEF TypeOK
        <4> QED
          BY <4>1, <4>2, <4>3
      <3>6. Carries(h, c)'
        BY <1>1, <1>2, <1>3, <3>1, <3>4, <3>5 DEF Carries
      <3>7. Unseen(h)' /\ PendingOnOwn(h)'
        BY <1>0, <1>1, <2>1, <3>4 DEF Unseen, PendingOnOwn, TypeOK
      <3> QED
        BY <1>1, <1>3, <2>6, <3>1, <3>4, <3>6, <3>7, NextStatement, <1>10
        DEF TransactionInv, Active, Ended
    <2>7. CASE r.stage = "running" /\ r.at = Last(r.kind)
      <3>1. Commit(c) /\ n.stage = "done"
        BY <1>1, <1>4, <1>10, <2>7, NextStatement DEF Performs, IsWrite, n, Proceeds, Run
      <3>2. Carries(h, c)
        BY <1>0, <1>1, <1>10, <2>3, <2>7 DEF TransactionInv, Carries
      <3>3. OwnWrites(h) \subseteq pending[c]
        <4>1. tx[c] = "open"
          BY <2>7, <3>2, Programs DEF Carries
        <4>2. \A i \in 2 .. (Last(r.kind) - 1) : i < r.at
          BY <2>3, <2>7
        <4>3. \A i \in 2 .. (Last(r.kind) - 1) : <<h, i>> \in pending[c]
          BY <1>1, <1>10, <3>2, <4>1, <4>2, NextStatement DEF Carries
        <4> QED
          BY <2>2, <4>3
      <3>4. pending'[c] = {} /\ tx'[c] = "auto" /\ committed' = committed \union pending[c]
        BY <1>0, <3>1 DEF Commit, TypeOK
      <3>5. NotPending(h)'
        BY <1>1, <1>5, <2>1, <3>4 DEF NotPending, PendingOnOwn
      <3>6. OwnWrites(h)' \subseteq committed'
        BY <2>2, <3>3, <3>4
      <3> QED
        BY <1>3, <3>1, <3>4, <3>5, <3>6 DEF TransactionInv, AllOrNothing, Active
    <2> QED
      BY <1>1, <2>4, <2>5, <2>6, <2>7, NextStatement, <1>10 DEF Active
  <1>11. TransactionInv(h)'
    BY <1>2, <1>3, <1>10 DEF TransactionInv
  <1>12. CleanInv'
    <2> SUFFICES ASSUME NoWebhook' PROVE CleanInv'
      BY DEF CleanInv
    <2>1. NoWebhook
      BY <1>2, <1>3 DEF NoWebhook
    <2>2. ASSUME r.kind \notin Transactions
          PROVE  /\ r.kind = "query" /\ tx'[c] = "auto" /\ n.stage = "done"
                 /\ <<h, 1>> \in committed'
      <3>1. r.kind = "query"
        BY <1>1, <2>1, <2>2 DEF NoWebhook, Run, Kinds, Transactions
      <3>2. r.stage = "running" /\ r.at = 1 /\ Op(r) = "write"
        BY <1>0, <1>1, <2>1, <3>1, Programs DEF CleanInv, Active, Run, Op
      <3>3. n.stage = "done"
        BY <1>1, <3>1, <3>2, Programs DEF n, Proceeds, Run
      <3>4. tx[c] \notin {"open", "aborted"}
        BY <1>0, <1>1, <2>1, <2>2 DEF CleanInv
      <3>5. Write(c, <<h, 1>>)
        BY <1>4, <3>2 DEF Performs, IsWrite
      <3> QED
        BY <3>1, <3>3, <3>4, <3>5 DEF Write
    <2>3. ASSUME NEW d \in Conns, tx'[d] \in {"open", "aborted"}
          PROVE  holder'[d] # Free /\ run'[holder'[d]].kind \in Transactions
      <3>1. CASE d = c
        BY <1>1, <1>2, <1>3, <1>10, <2>2, <2>3, <3>1
      <3>2. CASE d # c
        BY <1>0, <1>1, <1>3, <1>5, <2>1, <2>3, <3>2 DEF CleanInv, TypeOK
      <3> QED
        BY <3>1, <3>2
    <2>4. \A g \in Handlers :
            run'[g].kind = "query" /\ run'[g].stage = "done" => <<g, 1>> \in committed'
      BY <1>0, <1>2, <1>3, <1>5, <2>1, <2>2 DEF CleanInv, Transactions
    <2>5. \A g \in Handlers : run'[g].kind = "query" => run'[g].stage # "undoing"
      BY <1>0, <1>2, <1>3, <2>1, <2>2 DEF CleanInv, Transactions
    <2> QED
      BY <2>3, <2>4, <2>5 DEF CleanInv
  <1> QED
    BY <1>7, <1>11, <1>12 DEF StepInv

\* An error aborts the transaction of its connection, or takes the connection away.
LEMMA StatementFailsStep ==
    ASSUME IInv, TypeOK', NEW h \in Handlers, NEW c \in Conns,
           StatementFails(h, c)
    PROVE  StepInv'
  <1> DEFINE r == run[h]
             n == AfterError(r)
  <1>0. /\ TypeOK /\ PoolInv /\ CleanInv
        /\ \A g \in Handlers : NewInv(g) /\ TransactionInv(g)
    BY DEF IInv
  <1>1. /\ holder[c] = h /\ h # Free /\ r \in Run /\ r.stage \in Active
        /\ r.at <= Last(r.kind)
        /\ \A d \in Conns : holder[d] = h => d = c
    BY <1>0, PoolAssumption DEF StatementFails, Holds, TypeOK, PoolInv
  <1>2. n \in Run /\ n.kind = r.kind /\ n.at <= Last(n.kind) /\ n.stage # "new"
    BY <1>1, GoingOn
  <1>3. /\ run' = [run EXCEPT ![h] = n] /\ run'[h] = n
        /\ \A g \in Handlers \ {h} : run'[g] = run[g]
        /\ holder' \in {holder, [holder EXCEPT ![c] = Free]}
        /\ n.stage \notin Ended /\ Keeps(r.kind) => holder' = holder
        /\ n.stage \in Ended => holder' = [holder EXCEPT ![c] = Free]
    BY <1>0, <1>2 DEF StatementFails, GoesOn, TypeOK
  <1>4. /\ \A d \in Conns \ {c} : tx'[d] = tx[d] /\ pending'[d] = pending[d]
        /\ pending'[c] = {} /\ committed' = committed
        /\ IF Keeps(r.kind) THEN tx'[c] = (IF tx[c] = "auto" THEN "auto" ELSE "aborted")
                            ELSE tx'[c] = "closed"
    BY <1>0 DEF StatementFails, Refuse, Close, TypeOK
  <1>5. IsWrite(Op(r)) \/ (Op(r) = "begin" /\ tx[c] = "aborted")
    BY DEF StatementFails
  <1> HIDE DEF n
  <1>6. /\ PoolInv' /\ NewInv(h)'
        /\ \A g \in Handlers \ {h} : NewInv(g)' /\ TransactionInv(g)'
    <2>1. n \in Run /\ n.kind = run[h].kind /\ n.at <= Last(n.kind) /\ n.stage # "new"
      BY <1>2
    <2>2. committed \subseteq committed' /\ \A w \in committed' : w \in committed
      BY <1>4
    <2>3. \A w \in pending'[c] : FALSE
      BY <1>4
    <2> HIDE DEF r
    <2> QED
      BY <1>1, <1>3, <1>4, <2>1, <2>2, <2>3, OneStep
  <1>7. ASSUME r.kind \in Transactions
        PROVE  n.stage \in Active /\ TransactionInv(h)'
    <2>1. Unseen(h)' /\ NotPending(h)' /\ PendingOnOwn(h)'
      <3>1. Unseen(h) /\ PendingOnOwn(h)
        BY <1>0, <1>1, <1>7 DEF TransactionInv
      <3>2. NotPending(h)'
        BY <1>1, <1>4, <3>1 DEF NotPending, PendingOnOwn
      <3> QED
        BY <1>4, <3>1, <3>2 DEF Unseen, NotPending, PendingOnOwn
    <2>2. r.stage = "running" /\ r.at # Last(r.kind)
      BY <1>1, <1>5, <1>7, NextStatement DEF IsWrite, Active
    <2>3. CASE Op(r) # "try"
      <3>1. n.stage = "undoing"
        BY <1>1, <1>7, <2>2, <2>3 DEF n, AfterError, Transactions, Run
      <3> QED
        BY <1>3, <2>1, <3>1 DEF TransactionInv, Active, Ended
    <2>4. CASE Op(r) = "try"
      <3>1. r.kind = "deleteRabbi" /\ r.at = 3
        BY <1>1, <1>7, <2>2, <2>4 DEF Op, Program, Transactions, Run, Last
      <3>2. n.stage = "running" /\ n.at = 4
        BY <1>1, <2>2, <2>4, <3>1 DEF n, AfterError, Proceeds, Run
      <3>3. Carries(h, c)
        BY <1>0, <1>1, <1>7, <2>2, <3>1 DEF TransactionInv, Carries
      <3>4. tx'[c] = "aborted" /\ holder' = holder
        BY <1>1, <1>3, <1>4, <1>7, <3>2, <3>3, NextStatement DEF Carries, Ended
      <3>5. Carries(h, c)'
        BY <1>1, <1>2, <1>3, <3>1, <3>2, <3>4 DEF Carries
      <3> QED
        BY <1>3, <2>1, <3>2, <3>5 DEF TransactionInv, Active, Ended
    <2> QED
      BY <2>3, <2>4, <2>2, <1>7, <1>1, <1>2
      DEF n, AfterError, Proceeds, Run, Active, Transactions
  <1>8. TransactionInv(h)'
    BY <1>2, <1>3, <1>7 DEF TransactionInv
  <1>9. CleanInv'
    <2> SUFFICES ASSUME NoWebhook' PROVE CleanInv'
      BY DEF CleanInv
    <2>1. NoWebhook
      BY <1>2, <1>3 DEF NoWebhook
    <2>2. ASSUME r.kind \notin Transactions
          PROVE  tx'[c] = "closed" /\ n.stage = "failed"
      <3>1. r.kind = "query"
        BY <1>1, <2>1, <2>2 DEF NoWebhook, Run, Kinds, Transactions
      <3>2. r.stage = "running" /\ r.at = 1 /\ Op(r) = "write"
        BY <1>0, <1>1, <2>1, <3>1, Programs DEF CleanInv, Active, Run, Op
      <3> QED
        BY <1>1, <1>4, <2>2, <3>1, <3>2 DEF n, AfterError, Run, Keeps
    <2>3. ASSUME NEW d \in Conns, tx'[d] \in {"open", "aborted"}
          PROVE  holder'[d] # Free /\ run'[holder'[d]].kind \in Transactions
      <3>1. CASE d = c
        <4>1. r.kind \in Transactions
          BY <2>2, <2>3, <3>1
        <4>2. holder' = holder
          BY <1>1, <1>3, <1>7, <4>1 DEF Ended, Active, Keeps
        <4> QED
          BY <1>1, <1>2, <1>3, <3>1, <4>1, <4>2
      <3>2. CASE d # c
        <4>1. holder'[d] = holder[d] /\ tx'[d] = tx[d]
          BY <1>0, <1>3, <1>4, <3>2 DEF TypeOK
        <4> QED
          BY <1>0, <1>1, <1>3, <2>1, <2>3, <3>2, <4>1 DEF CleanInv, TypeOK
      <3> QED
        BY <3>1, <3>2
    <2>4. \A g \in Handlers :
            run'[g].kind = "query" /\ run'[g].stage = "done" => <<g, 1>> \in committed'
      BY <1>0, <1>2, <1>3, <1>4, <2>1, <2>2 DEF CleanInv, Transactions
    <2>5. \A g \in Handlers : run'[g].kind = "query" => run'[g].stage # "undoing"
      BY <1>0, <1>2, <1>3, <2>1, <2>2 DEF CleanInv, Transactions
    <2> QED
      BY <2>3, <2>4, <2>5 DEF CleanInv
  <1> QED
    BY <1>6, <1>8, <1>9 DEF StepInv

\* Only the webhook inserts.
LEMMA InsertSkippedStep ==
    ASSUME IInv, TypeOK', NEW h \in Handlers, NEW c \in Conns,
           InsertSkipped(h, c)
    PROVE  StepInv'
  <1> DEFINE n == [run[h] EXCEPT !.stage = "undoing"]
  <1>0. TypeOK /\ PoolInv
    BY DEF IInv
  <1>1. /\ holder[c] = h /\ run[h] \in Run /\ run[h].stage \in Active
        /\ run[h].at <= Last(run[h].kind) /\ Op(run[h]) = "insert"
    BY <1>0, PoolAssumption DEF InsertSkipped, Holds, TypeOK, PoolInv
  <1>2. run[h].kind = "webhook"
    <2>1. run[h].stage = "running" /\ Program[run[h].kind][run[h].at] = "insert"
      BY <1>1 DEF Op, Active
    <2>2. CASE run[h].kind = "query"
      BY <1>1, <2>1, <2>2, Programs DEF Run
    <2>3. CASE run[h].kind = "transaction"
      <3>1. run[h].at \in 1 .. 4
        BY <1>1, <2>3, Programs DEF Run
      <3> QED
        BY <2>1, <2>3, <3>1 DEF Program
    <2>4. CASE run[h].kind = "deleteRabbi"
      <3>1. run[h].at \in 1 .. 5
        BY <1>1 DEF Run
      <3> QED
        BY <2>1, <2>4, <3>1 DEF Program
    <2> QED
      BY <1>1, <2>2, <2>3, <2>4 DEF Run, Kinds
  <1>3. /\ n \in Run /\ n.kind = run[h].kind /\ n.at <= Last(n.kind)
        /\ n.stage = "undoing"
    BY <1>1 DEF Run, Active
  <1>4. /\ run' = [run EXCEPT ![h] = n] /\ run'[h] = n
        /\ holder' \in {holder, [holder EXCEPT ![c] = Free]}
        /\ UNCHANGED <<tx, pending, committed>>
    BY <1>0 DEF InsertSkipped, GoesOn, TypeOK
  <1> HIDE DEF n
  <1>5. /\ PoolInv' /\ NewInv(h)'
        /\ \A g \in Handlers \ {h} : NewInv(g)' /\ TransactionInv(g)'
    <2>1. n.stage \notin Ended
      BY <1>3 DEF Ended
    <2>2. pending'[c] # {} => tx'[c] = "open"
      BY <1>0, <1>4 DEF PoolInv
    <2> QED
      BY <1>1, <1>3, <1>4, <2>1, <2>2, OneStep
  <1>6. TransactionInv(h)'
    BY <1>2, <1>3, <1>4 DEF TransactionInv, Transactions
  <1>7. CleanInv'
    BY <1>2, <1>3, <1>4 DEF CleanInv, NoWebhook
  <1> QED
    BY <1>5, <1>6, <1>7 DEF StepInv

\* A lost connection takes its transaction with it, committed or not.
LEMMA ConnectionLostStep ==
    ASSUME IInv, TypeOK', NEW h \in Handlers, NEW c \in Conns,
           ConnectionLost(h, c)
    PROVE  StepInv'
  <1> DEFINE r == run[h]
             n == AfterLoss(r)
  <1>0. /\ TypeOK /\ PoolInv /\ CleanInv
        /\ \A g \in Handlers : NewInv(g) /\ TransactionInv(g)
    BY DEF IInv
  <1>1. /\ holder[c] = h /\ h # Free /\ r \in Run /\ r.stage \in Active
        /\ r.at <= Last(r.kind)
        /\ \A d \in Conns : holder[d] = h => d = c
    BY <1>0, PoolAssumption DEF ConnectionLost, Holds, TypeOK, PoolInv
  <1>2. n \in Run /\ n.kind = r.kind /\ n.at <= Last(n.kind) /\ n.stage # "new"
    BY <1>1, GoingOn
  <1>3. /\ run' = [run EXCEPT ![h] = n] /\ run'[h] = n
        /\ \A g \in Handlers \ {h} : run'[g] = run[g]
        /\ holder' = [holder EXCEPT ![c] = Free]
    BY <1>0, <1>2 DEF ConnectionLost, TypeOK
  <1>4. /\ \A d \in Conns \ {c} : tx'[d] = tx[d] /\ pending'[d] = pending[d]
        /\ pending'[c] = {} /\ tx'[c] = "closed"
    BY <1>0 DEF ConnectionLost, Close, TypeOK
  <1>5. \/ committed' = committed
        \/ Op(r) = "commit" /\ committed' = committed \union pending[c]
        \/ /\ IsWrite(Op(r)) /\ tx[c] = "auto"
           /\ committed' = committed \union {<<h, r.at>>}
    BY DEF ConnectionLost
  <1> HIDE DEF n
  <1>6. /\ PoolInv' /\ NewInv(h)'
        /\ \A g \in Handlers \ {h} : NewInv(g)' /\ TransactionInv(g)'
    <2>1. n \in Run /\ n.kind = run[h].kind /\ n.at <= Last(n.kind) /\ n.stage # "new"
      BY <1>2
    <2>2. /\ committed \subseteq committed'
          /\ \A w \in committed' : w \in committed \/ w \in pending[c] \/ w[1] = h
      BY <1>5
    <2>3. \A w \in pending'[c] : FALSE
      BY <1>4
    <2> HIDE DEF r
    <2> QED
      BY <1>1, <1>3, <1>4, <2>1, <2>2, <2>3, OneStep
  <1>7. ASSUME r.kind \in Transactions PROVE TransactionInv(h)'
    <2>1. n.stage = "failed"
      BY <1>1, <1>7, NextStatement DEF n, AfterLoss, Run
    <2>2. Unseen(h) /\ PendingOnOwn(h)
      BY <1>0, <1>1, <1>7 DEF TransactionInv
    <2>3. NotPending(h)'
      BY <1>1, <1>4, <2>2 DEF NotPending, PendingOnOwn
    <2>4. /\ OwnWrites(h)' = OwnWrites(h)
          /\ OwnWrites(h) = {<<h, i>> : i \in 2 .. (Last(r.kind) - 1)}
          /\ Last(r.kind) \in 4 .. 5
      BY <1>1, <1>2, <1>3, <1>7, NextStatement, Programs DEF OwnWrites, Transactions
    <2>5. AllOrNothing(h)'
      <3>1. CASE committed' = committed
        BY <2>2, <2>4, <3>1 DEF AllOrNothing, Unseen
      <3>2. CASE Op(r) = "commit" /\ committed' = committed \union pending[c]
        <4>1. r.stage = "running" /\ r.at = Last(r.kind)
          BY <1>1, <1>7, <3>2, NextStatement DEF IsWrite, Active
        <4>2. Carries(h, c)
          BY <1>0, <1>1, <1>7, <2>4, <4>1 DEF TransactionInv, Carries
        <4>3. tx[c] = "open"
          BY <4>1, <4>2, Programs DEF Carries
        <4>4. \A i \in 2 .. (Last(r.kind) - 1) : <<h, i>> \in pending[c]
          BY <1>1, <1>7, <2>4, <4>1, <4>2, <4>3, NextStatement DEF Carries
        <4> QED
          BY <2>4, <3>2, <4>4 DEF AllOrNothing
      <3>3. CASE IsWrite(Op(r)) /\ tx[c] = "auto"
        <4>1. r.stage = "running" /\ r.at > 1
          BY <1>1, <1>7, <3>3, NextStatement DEF IsWrite, Active
        <4>2. Carries(h, c)
          BY <1>0, <1>1, <1>7, <4>1 DEF TransactionInv, Carries
        <4> QED
          BY <3>3, <4>2 DEF Carries
      <3> QED
        BY <1>5, <3>1, <3>2, <3>3
    <2> QED
      BY <1>3, <2>1, <2>3, <2>5 DEF TransactionInv, Active
  <1>8. TransactionInv(h)'
    BY <1>2, <1>3, <1>7 DEF TransactionInv
  <1>9. CleanInv'
    <2> SUFFICES ASSUME NoWebhook' PROVE CleanInv'
      BY DEF CleanInv
    <2>1. NoWebhook
      BY <1>2, <1>3 DEF NoWebhook
    <2>2. r.kind = "query" => n.stage = "failed"
      <3> SUFFICES ASSUME r.kind = "query" PROVE n.stage = "failed"
        OBVIOUS
      <3>1. r.stage = "running" /\ r.at = 1 /\ Op(r) = "write"
        BY <1>0, <1>1, <2>1, Programs DEF CleanInv, Active, Run, Op
      <3> QED
        BY <1>1, <3>1 DEF n, AfterLoss, AfterError, Run, Keeps, Transactions
    <2>3. ASSUME NEW d \in Conns, tx'[d] \in {"open", "aborted"}
          PROVE  holder'[d] # Free /\ run'[holder'[d]].kind \in Transactions
      <3>1. d # c
        BY <1>4, <2>3
      <3>2. holder'[d] = holder[d] /\ tx'[d] = tx[d]
        BY <1>0, <1>3, <1>4, <3>1 DEF TypeOK
      <3> QED
        BY <1>0, <1>1, <1>3, <2>1, <2>3, <3>1, <3>2 DEF CleanInv, TypeOK
    <2>4. committed \subseteq committed'
      BY <1>5
    <2>5. \A g \in Handlers :
            run'[g].kind = "query" /\ run'[g].stage = "done" => <<g, 1>> \in committed'
      BY <1>0, <1>2, <1>3, <2>1, <2>2, <2>4 DEF CleanInv
    <2>6. \A g \in Handlers : run'[g].kind = "query" => run'[g].stage # "undoing"
      BY <1>0, <1>2, <1>3, <2>1, <2>2 DEF CleanInv
    <2> QED
      BY <2>3, <2>5, <2>6 DEF CleanInv
  <1> QED
    BY <1>6, <1>8, <1>9 DEF StepInv

\* No transaction of an active request waits on an idle connection.
LEMMA IdleConnectionClosedStep ==
    ASSUME IInv, TypeOK', NEW c \in Conns, IdleConnectionClosed(c)
    PROVE  StepInv'
  <1>0. TypeOK /\ PoolInv /\ CleanInv
    BY DEF IInv
  <1>1. /\ holder[c] = Free /\ UNCHANGED <<run, holder, committed>>
        /\ \A d \in Conns \ {c} : tx'[d] = tx[d] /\ pending'[d] = pending[d]
        /\ pending'[c] = {} /\ tx'[c] = "closed"
    BY <1>0 DEF IdleConnectionClosed, Close, TypeOK
  <1>2. PoolInv'
    BY <1>0, <1>1 DEF PoolInv
  <1>3. ASSUME NEW g \in Handlers PROVE NewInv(g)' /\ TransactionInv(g)'
    <2>1. NewInv(g) /\ TransactionInv(g)
      BY DEF IInv
    <2>2. /\ NotPending(g) => NotPending(g)'
          /\ PendingOnOwn(g) => PendingOnOwn(g)'
      BY <1>1 DEF NotPending, PendingOnOwn
    <2>3. /\ Unseen(g)' <=> Unseen(g)
          /\ AllOrNothing(g)' <=> AllOrNothing(g)
          /\ OwnWrites(g)' = OwnWrites(g)
      BY <1>1 DEF Unseen, AllOrNothing, OwnWrites
    <2>4. ASSUME NEW d \in Conns, Carries(g, d) PROVE Carries(g, d)'
      BY <1>1, <2>4, PoolAssumption DEF Carries
    <2>5. NewInv(g)'
      BY <1>1, <2>1, <2>2, <2>3 DEF NewInv
    <2>6. TransactionInv(g)'
      BY <1>1, <2>1, <2>2, <2>3, <2>4 DEF TransactionInv
    <2> QED
      BY <2>5, <2>6
  <1>4. CleanInv'
    BY <1>0, <1>1 DEF CleanInv, NoWebhook
  <1> QED
    BY <1>2, <1>3, <1>4 DEF StepInv

\* A restart takes every transaction that was not committed.
LEMMA ServerRestartsStep ==
    ASSUME IInv, TypeOK', ServerRestarts
    PROVE  StepInv'
  <1>0. TypeOK /\ PoolInv /\ CleanInv
    BY DEF IInv
  <1>1. /\ \A c \in Conns : holder'[c] = Free /\ tx'[c] = "closed" /\ pending'[c] = {}
        /\ committed' = committed
    BY DEF ServerRestarts
  <1>2. ASSUME NEW g \in Handlers
        PROVE  /\ run[g] \in Run
               /\ run[g].stage \in Active =>
                    /\ run'[g].stage = "failed"
                    /\ run'[g].kind = run[g].kind /\ run'[g].at = run[g].at
               /\ run[g].stage \notin Active => run'[g] = run[g]
    BY <1>0 DEF ServerRestarts, TypeOK, Run
  <1>3. PoolInv'
    <2>1. \A g \in Handlers : run'[g].stage = "new" => run'[g] = NewRun
      BY <1>0, <1>2 DEF PoolInv, Active
    <2>2. \A g \in Handlers : run'[g].at <= Last(run'[g].kind)
      BY <1>0, <1>2 DEF PoolInv
    <2>3. \A c \in Conns : pending'[c] = {} /\ holder'[c] = Free
      BY <1>1
    <2> QED
      BY <2>1, <2>2, <2>3 DEF PoolInv
  <1>4. ASSUME NEW g \in Handlers PROVE NewInv(g)' /\ TransactionInv(g)'
    <2>1. NewInv(g) /\ TransactionInv(g)
      BY DEF IInv
    <2>2. NotPending(g)' /\ (Unseen(g)' <=> Unseen(g)) /\ OwnWrites(g)' = OwnWrites(g)
      BY <1>1, <1>2 DEF NotPending, Unseen, OwnWrites
    <2>3. NewInv(g)'
      BY <1>2, <2>1, <2>2 DEF NewInv
    <2>4. TransactionInv(g)'
      <3> SUFFICES ASSUME run[g].kind \in Transactions PROVE TransactionInv(g)'
        BY <1>2 DEF TransactionInv
      <3>1. OwnWrites(g) = {<<g, i>> : i \in 2 .. (Last(run[g].kind) - 1)}
            /\ Last(run[g].kind) \in 4 .. 5
        BY <1>0, <1>2, NextStatement, Programs DEF OwnWrites, Transactions, PoolInv
      <3>2. CASE run[g].stage \in Active
        <4>1. Unseen(g)
          BY <2>1, <3>2 DEF TransactionInv
        <4>2. AllOrNothing(g)'
          BY <1>1, <2>2, <3>1, <4>1 DEF AllOrNothing, Unseen
        <4> QED
          BY <1>2, <2>2, <3>2, <4>2 DEF TransactionInv, Active
      <3>3. CASE run[g].stage \notin Active
        <4>1. AllOrNothing(g) => AllOrNothing(g)'
          BY <1>1, <2>2 DEF AllOrNothing
        <4> QED
          BY <1>1, <1>2, <2>1, <2>2, <3>3, <4>1 DEF TransactionInv, Active
      <3> QED
        BY <3>2, <3>3
    <2> QED
      BY <2>3, <2>4
  <1>5. CleanInv'
    BY <1>0, <1>1, <1>2 DEF CleanInv, NoWebhook
  <1> QED
    BY <1>3, <1>4, <1>5 DEF StepInv

------------------------------------------------------------------------------
\* The invariant holds in every reachable state.
THEOREM Invariance == Spec => []IInv
  <1>1. Init => IInv
    <2> SUFFICES ASSUME Init PROVE IInv
      OBVIOUS
    <2>1. TypeOK
      BY DEF Init, TypeOK, NewRun, Run, Kinds
    <2>2. PoolInv
      BY Programs DEF Init, PoolInv, NewRun
    <2>3. \A h \in Handlers : NewInv(h) /\ TransactionInv(h)
      BY DEF Init, NewInv, TransactionInv, NewRun, Unseen, NotPending, Transactions
    <2>4. CleanInv
      BY DEF Init, CleanInv, NewRun
    <2> QED
      BY <2>1, <2>2, <2>3, <2>4 DEF IInv
  <1>2. IInv /\ [Next]_vars => IInv'
    <2> SUFFICES ASSUME IInv, [Next]_vars PROVE IInv'
      OBVIOUS
    <2>1. TypeOK'
      BY TypeStep
    <2>2. CASE UNCHANGED vars
      <3>1. \A g \in Handlers : NewInv(g)' /\ TransactionInv(g)'
        BY <2>2, Untouched DEF IInv, vars
      <3>2. PoolInv' /\ CleanInv'
        BY <2>2 DEF IInv, vars, PoolInv, CleanInv, NoWebhook
      <3> QED
        BY <2>1, <3>1, <3>2 DEF IInv
    <2>3. CASE Next
      <3>1. StepInv'
        BY <2>1, <2>3, StartStep, AcquireStep, AcquireTimesOutStep,
           StatementSucceedsStep, StatementFailsStep, InsertSkippedStep,
           ConnectionLostStep, IdleConnectionClosedStep, ServerRestartsStep
        DEF Next
      <3> QED
        BY <2>1, <3>1 DEF IInv, StepInv
    <2> QED
      BY <2>2, <2>3
  <1> QED
    BY <1>1, <1>2, PTL DEF Spec

\* Every reachable state is typed.
THEOREM TypeCorrect == Spec => []TypeOK
  <1>1. IInv => TypeOK
    BY DEF IInv
  <1> QED
    BY <1>1, Invariance, PTL

\* withTransaction is all or nothing for any number of requests and
\* connections, whatever programs run beside it, the bare BEGIN included.
THEOREM TransactionsAreAtomic == Spec => []TransactionAtomic
  <1>1. IInv => TransactionAtomic
    <2> SUFFICES ASSUME IInv, NEW h \in Handlers, run[h].kind \in Transactions
                 PROVE  AllOrNothing(h)
      BY DEF TransactionAtomic, AllOrNothing
    <2>1. run[h] \in Run /\ NewInv(h) /\ TransactionInv(h) /\ run[h].at <= Last(run[h].kind)
      BY DEF IInv, TypeOK, PoolInv
    <2>2. OwnWrites(h) = {<<h, i>> : i \in 2 .. (Last(run[h].kind) - 1)}
          /\ Last(run[h].kind) \in 4 .. 5
      BY <2>1, NextStatement, Programs DEF OwnWrites, Transactions
    <2>3. CASE run[h].stage \in Active \union {"new"}
      <3>1. Unseen(h)
        BY <2>1, <2>3 DEF NewInv, TransactionInv
      <3> QED
        BY <2>2, <3>1 DEF Unseen, AllOrNothing
    <2>4. CASE run[h].stage \in Ended
      BY <2>1, <2>4 DEF TransactionInv
    <2> QED
      BY <2>1, <2>3, <2>4 DEF Run
  <1> QED
    BY <1>1, Invariance, PTL

\* What was acknowledged is kept: for transactions always, for single
\* statements as long as no webhook runs.
THEOREM AcknowledgementsAreKept == Spec => []AcknowledgedIsKept
  <1>1. IInv => AcknowledgedIsKept
    <2> SUFFICES ASSUME IInv, NEW h \in Handlers, run[h].stage = "done",
                        run[h].kind \in Transactions \/ (run[h].kind = "query" /\ NoWebhook)
                 PROVE  OwnWrites(h) \subseteq committed
      BY DEF AcknowledgedIsKept
    <2>1. CASE run[h].kind \in Transactions
      BY <2>1 DEF IInv, TransactionInv
    <2>2. CASE run[h].kind = "query" /\ NoWebhook
      BY <2>2, Programs DEF IInv, CleanInv, OwnWrites
    <2> QED
      BY <2>1, <2>2
  <1> QED
    BY <1>1, Invariance, PTL

\* Without the webhook no idle connection carries a transaction.
THEOREM IdleConnectionsAreClean == Spec => []IdleIsClean
  <1>1. IInv => IdleIsClean
    BY DEF IInv, TypeOK, CleanInv, IdleIsClean
  <1> QED
    BY <1>1, Invariance, PTL

------------------------------------------------------------------------------
(***************************************************************************)
(* Refinement: what a step does to the effects.  A request that has not    *)
(* ended has none (Unseen), one that has ended has no write left anywhere  *)
(* (NotPending), so an effect changes only in the step that ends its own   *)
(* request; and a step ends one request, or it commits nothing.            *)
(***************************************************************************)

\* What the others see of each transaction.
EffectFacts ==
    \A h \in Handlers :
        /\ run[h].kind \notin Transactions => Effect[h] = "none"
        /\ run[h].stage \in Active \union {"new"} => Effect[h] = "none"
        /\ Effect[h] \in {"none", "all"}
        /\ h \in Assured => Effect[h] = "all" /\ run[h].stage = "done"

\* The invariant gives these facts, before a step and after it.
LEMMA EffectOf == IInv => EffectFacts
  <1> SUFFICES ASSUME IInv, NEW h \in Handlers
               PROVE  /\ run[h].kind \notin Transactions => Effect[h] = "none"
                      /\ run[h].stage \in Active \union {"new"} => Effect[h] = "none"
                      /\ Effect[h] \in {"none", "all"}
                      /\ h \in Assured => Effect[h] = "all" /\ run[h].stage = "done"
    BY DEF EffectFacts
  <1>1. run[h] \in Run /\ NewInv(h) /\ TransactionInv(h) /\ run[h].at <= Last(run[h].kind)
    BY DEF IInv, TypeOK, PoolInv
  <1>2. ASSUME run[h].kind \in Transactions
        PROVE  /\ OwnWrites(h) = {<<h, i>> : i \in 2 .. (Last(run[h].kind) - 1)}
               /\ Last(run[h].kind) \in 4 .. 5
               /\ OwnWrites(h) # {}
    <2>1. /\ OwnWrites(h) = {<<h, i>> : i \in 2 .. (Last(run[h].kind) - 1)}
          /\ Last(run[h].kind) \in 4 .. 5
      BY <1>1, <1>2, NextStatement, Programs DEF OwnWrites, Transactions
    <2>2. <<h, 2>> \in OwnWrites(h)
      BY <2>1
    <2> QED
      BY <2>1, <2>2
  <1>3. ASSUME run[h].stage \in Active \union {"new"}, run[h].kind \in Transactions
        PROVE  OwnWrites(h) \intersect committed = {}
    <2>1. Unseen(h)
      BY <1>1, <1>3 DEF NewInv, TransactionInv
    <2> QED
      BY <1>2, <1>3, <2>1 DEF Unseen
  <1>4. ASSUME run[h].kind \in Transactions PROVE AllOrNothing(h)
    <2>1. CASE run[h].stage \in Ended
      BY <1>1, <1>4, <2>1 DEF TransactionInv
    <2>2. CASE run[h].stage \in Active \union {"new"}
      BY <1>3, <1>4, <2>2 DEF AllOrNothing
    <2> QED
      BY <1>1, <2>1, <2>2 DEF Run
  <1>5. ASSUME h \in Assured
        PROVE  OwnWrites(h) \subseteq committed /\ OwnWrites(h) # {} /\ run[h].stage = "done"
               /\ run[h].kind \in Transactions
    BY <1>1, <1>2, <1>5 DEF Assured, TransactionInv
  <1> QED
    BY <1>3, <1>4, <1>5 DEF Effect, AllOrNothing

\* The same after a step.
LEMMA EffectNext == IInv' => EffectFacts'
BY EffectOf, PTL

\* A request keeps its program once it has one, and its end once it has ended.
LEMMA RunsGoOn ==
    ASSUME IInv, Next, NEW g \in Handlers
    PROVE  /\ run[g].stage \in Ended => run'[g] = run[g]
           /\ run[g].stage = "new" => run'[g].stage \in {"new", "running"}
           /\ run[g].stage # "new" => run'[g].kind = run[g].kind
  <1>0. /\ TypeOK /\ PoolInv /\ run[g] \in Run
        /\ \A h \in Handlers : run[h] \in Run /\ run[h].at <= Last(run[h].kind)
        /\ \A h \in Handlers, c \in Conns : holder[c] = h => run[h].stage \in Active
    BY PoolAssumption DEF IInv, TypeOK, PoolInv
  <1>1. ASSUME NEW h \in Handlers, run[h].stage \in Active, NEW n,
               n \in {Proceeds(run[h]), AfterError(run[h]), AfterLoss(run[h]),
                      [run[h] EXCEPT !.stage = "undoing"]},
               run' = [run EXCEPT ![h] = n]
        PROVE  /\ run[g].stage \in Ended => run'[g] = run[g]
               /\ run[g].stage = "new" => run'[g] = run[g]
               /\ run'[g].kind = run[g].kind
    <2>1. n.kind = run[h].kind
      <3>1. CASE n = [run[h] EXCEPT !.stage = "undoing"]
        BY <1>0, <3>1 DEF Run
      <3> QED
        BY <1>0, <1>1, <3>1, GoingOn
    <2> QED
      BY <1>0, <1>1, <2>1 DEF TypeOK, Active, Ended
  <1>2. ASSUME NEW h \in Handlers, NEW kind \in Offered, Start(h, kind)
        PROVE  /\ run[g].stage # "new" => run'[g] = run[g]
               /\ run'[g].stage \in {run[g].stage, "running"}
    BY <1>0, <1>2 DEF Start, TypeOK
  <1>3. ASSUME NEW h \in Handlers, AcquireTimesOut(h) PROVE run[h].stage \in Active
    BY <1>3 DEF AcquireTimesOut, Wants
  <1>4. ASSUME NEW h \in Handlers, NEW c \in Conns,
               \/ StatementSucceeds(h, c) \/ StatementFails(h, c)
               \/ InsertSkipped(h, c) \/ ConnectionLost(h, c)
        PROVE  /\ run[h].stage \in Active
               /\ \E n \in {Proceeds(run[h]), AfterError(run[h]), AfterLoss(run[h]),
                            [run[h] EXCEPT !.stage = "undoing"]} :
                     run' = [run EXCEPT ![h] = n]
    BY <1>0, <1>4 DEF StatementSucceeds, StatementFails, InsertSkipped,
         ConnectionLost, GoesOn, Holds
  <1>5. CASE ServerRestarts
    BY <1>0, <1>5 DEF ServerRestarts, TypeOK, Run, Active, Ended
  <1>6. ASSUME UNCHANGED run
        PROVE  /\ run[g].stage \in Ended => run'[g] = run[g]
               /\ run[g].stage = "new" => run'[g].stage \in {"new", "running"}
               /\ run[g].stage # "new" => run'[g].kind = run[g].kind
    BY <1>6
  <1>7. ASSUME NEW h \in Handlers,
               \/ \E kind \in Offered : Start(h, kind)
               \/ AcquireTimesOut(h)
               \/ \E c \in Conns : \/ StatementSucceeds(h, c) \/ StatementFails(h, c)
                                   \/ InsertSkipped(h, c) \/ ConnectionLost(h, c)
        PROVE  /\ run[g].stage \in Ended => run'[g] = run[g]
               /\ run[g].stage = "new" => run'[g].stage \in {"new", "running"}
               /\ run[g].stage # "new" => run'[g].kind = run[g].kind
    <2>1. CASE \E kind \in Offered : Start(h, kind)
      BY <1>2, <2>1 DEF Ended
    <2>2. CASE AcquireTimesOut(h)
      BY <1>1, <1>3, <2>2 DEF AcquireTimesOut
    <2>3. CASE \E c \in Conns : \/ StatementSucceeds(h, c) \/ StatementFails(h, c)
                               \/ InsertSkipped(h, c) \/ ConnectionLost(h, c)
      BY <1>1, <1>4, <2>3
    <2> QED
      BY <1>7, <2>1, <2>2, <2>3
  <1>8. CASE \E c \in Conns : IdleConnectionClosed(c) \/ \E h \in Handlers : Acquire(h, c)
    BY <1>6, <1>8 DEF IdleConnectionClosed, Acquire
  <1> QED
    BY <1>5, <1>7, <1>8 DEF Next

\* What a step commits it commits for one request: its statement, or what its
\* connection has pending; and the other requests stand still.
Commits(h, c) ==
    /\ holder[c] = h
    /\ \A w \in committed' : w \in committed \/ w \in pending[c] \/ w[1] = h
    /\ \A g \in Handlers \ {h} : run'[g] = run[g]

\* Nothing committed is lost, and one request commits at a time.
LEMMA OneCommits ==
    ASSUME IInv, Next
    PROVE  /\ committed \subseteq committed'
           /\ committed' = committed \/ \E h \in Handlers, c \in Conns : Commits(h, c)
  <1>0. run \in [Handlers -> Run]
    BY DEF IInv, TypeOK
  <1>1. ASSUME NEW h \in Handlers, NEW c \in Conns, StatementSucceeds(h, c)
        PROVE  committed \subseteq committed' /\ Commits(h, c)
    BY <1>0, <1>1 DEF StatementSucceeds, GoesOn, Holds, Performs, Begin, Write,
         Commit, Rollback, Commits
  <1>2. ASSUME NEW h \in Handlers, NEW c \in Conns, ConnectionLost(h, c)
        PROVE  committed \subseteq committed' /\ Commits(h, c)
    BY <1>0, <1>2 DEF ConnectionLost, Holds, Commits
  <1>3. ASSUME NEW h \in Handlers, NEW c \in Conns,
               Acquire(h, c) \/ StatementFails(h, c) \/ InsertSkipped(h, c)
        PROVE  committed' = committed
    BY <1>3 DEF Acquire, StatementFails, InsertSkipped, Refuse
  <1>4. ASSUME NEW h \in Handlers,
               AcquireTimesOut(h) \/ \E kind \in Offered : Start(h, kind)
        PROVE  committed' = committed
    BY <1>4 DEF AcquireTimesOut, Start
  <1>5. CASE ServerRestarts \/ \E c \in Conns : IdleConnectionClosed(c)
    BY <1>5 DEF ServerRestarts, IdleConnectionClosed
  <1> QED
    BY <1>1, <1>2, <1>3, <1>4, <1>5 DEF Next

\* A request that commits nothing in this step keeps its effect.
LEMMA OthersKeepEffect ==
    ASSUME IInv, IInv', Next, NEW g \in Handlers,
           \A i \in 1 .. 5 : <<g, i>> \in committed' => <<g, i>> \in committed
    PROVE  Effect'[g] = Effect[g]
  <1>1. run[g] \in Run /\ run'[g] \in Run /\ committed \subseteq committed'
    BY OneCommits DEF IInv, TypeOK
  <1>2. CASE run[g].stage = "new"
    <2>1. run'[g].stage \in Active \union {"new"}
      BY <1>2, RunsGoOn DEF Active
    <2>2. Effect[g] = "none" /\ Effect'[g] = "none"
      BY <1>2, <2>1, EffectOf, EffectNext DEF EffectFacts
    <2> QED
      BY <2>2
  <1>3. CASE run[g].stage # "new"
    <2>1. run'[g].kind = run[g].kind
      BY <1>3, RunsGoOn
    <2>2. WritesOf[run[g].kind] \subseteq 1 .. 5
      BY <1>1, Programs DEF Run, Kinds, WritesOf, Last, Program
    <2>3. \A w \in OwnWrites(g) : w \in committed' <=> w \in committed
      BY <1>1, <2>2 DEF OwnWrites
    <2>4. OwnWrites(g)' = OwnWrites(g)
      BY <2>1 DEF OwnWrites
    <2> QED
      BY <2>1, <2>3, <2>4 DEF Effect
  <1> QED
    BY <1>2, <1>3

\* What is seen of the other requests is what was seen before.
LEMMA CommitsAlone ==
    ASSUME IInv, IInv', Next, NEW h \in Handlers, NEW c \in Conns, Commits(h, c),
           NEW g \in Handlers \ {h}
    PROVE  Effect'[g] = Effect[g] /\ (g \in Assured' <=> g \in Assured)
  <1>1. /\ run'[g] = run[g] /\ run[g] \in Run /\ holder[c] # g
        /\ NewInv(g) /\ TransactionInv(g)
    BY DEF Commits, IInv, TypeOK
  <1>2. CASE run[g].kind \notin Transactions
    <2>1. Effect[g] = "none" /\ Effect'[g] = "none"
      BY <1>1, <1>2, EffectOf DEF Effect, EffectFacts
    <2> QED
      BY <1>1, <2>1 DEF Assured
  <1>3. CASE run[g].kind \in Transactions
    <2>1. \A i \in 1 .. 5 : <<g, i>> \notin pending[c]
      BY <1>1, <1>3 DEF NewInv, TransactionInv, NotPending, PendingOnOwn, Run
    <2>2. \A i \in 1 .. 5 : <<g, i>> \in committed' => <<g, i>> \in committed
      BY <2>1 DEF Commits
    <2> QED
      BY <1>1, <2>2, OthersKeepEffect DEF Assured
  <1> QED
    BY <1>2, <1>3

\* Every step is a step of the abstract store, or none that it can see.
LEMMA StoreStep == IInv /\ IInv' /\ Next => [Store!Next]_(Store!store)
  <1> SUFFICES ASSUME IInv, IInv', Next PROVE [Store!Next]_(Store!store)
    OBVIOUS
  <1>1. \A g \in Handlers : g \in Assured => run'[g] = run[g] /\ g \in Assured'
    BY EffectOf, RunsGoOn DEF EffectFacts, Assured, Ended
  <1>2. ASSUME NEW g \in Handlers, g \in Assured', g \notin Assured
        PROVE  Effect'[g] = "all" /\ Effect[g] = "none"
    <2>1. Effect'[g] = "all" /\ run'[g].stage = "done"
      BY <1>2, EffectNext DEF EffectFacts
    <2>2. run[g].stage \notin Ended \union {"new"}
      BY <1>2, <2>1, RunsGoOn DEF Assured, Ended
    <2>3. run[g].stage \in Active
      BY <2>2 DEF IInv, TypeOK, Run
    <2> QED
      BY <2>1, <2>3, EffectOf DEF EffectFacts
  <1>3. CASE committed' = committed
    <2>1. \A g \in Handlers : Effect'[g] = Effect[g]
      BY <1>3, OthersKeepEffect
    <2>2. Effect' = Effect
      BY <2>1 DEF Effect
    <2>3. Assured' = Assured
      BY <1>1, <1>2, <2>1 DEF Assured
    <2> QED
      BY <2>2, <2>3 DEF Store!store
  <1>4. ASSUME NEW h \in Handlers, NEW c \in Conns, Commits(h, c)
        PROVE  [Store!Next]_(Store!store)
    <2>1. \A g \in Handlers \ {h} :
            Effect'[g] = Effect[g] /\ (g \in Assured' <=> g \in Assured)
      BY <1>4, CommitsAlone
    <2>2. h \notin Assured /\ Effect[h] = "none"
      <3>1. run[h].stage \in Active
        BY <1>4, PoolAssumption DEF Commits, IInv, PoolInv
      <3> QED
        BY <3>1, EffectOf DEF EffectFacts, Active
    <2>3. Effect'[h] \in {"none", "all"}
      BY EffectNext DEF EffectFacts
    <2>4. CASE Effect'[h] = "none"
      <3>1. h \notin Assured'
        BY <1>2, <2>2, <2>4
      <3>2. Effect' = Effect
        BY <2>1, <2>2, <2>4 DEF Effect
      <3>3. Assured' = Assured
        BY <2>1, <2>2, <3>1 DEF Assured
      <3> QED
        BY <3>2, <3>3 DEF Store!store
    <2>5. CASE Effect'[h] = "all"
      <3>1. Effect' = [Effect EXCEPT ![h] = "all"]
        BY <2>1, <2>5 DEF Effect
      <3>2. Assured' \in {Assured, Assured \union {h}}
        BY <2>1, <2>2 DEF Assured
      <3>3. Store!Takes(h)
        BY <2>2, <2>5, <3>1, <3>2 DEF Store!Takes
      <3> QED
        BY <3>3 DEF Store!Next
    <2> QED
      BY <2>3, <2>4, <2>5
  <1> QED
    BY <1>3, <1>4, OneCommits

\* However many requests share however few connections, and whatever the
\* webhook leaves open on them, withTransaction and getClient implement
\* AtomicStore: each transaction takes effect in one step and alone, for ever,
\* and is confirmed in that step or not at all.
THEOREM TransactionsTakeEffectOnce == Spec => ImplementsAtomicStore
  <1>1. Init => Store!Init
    BY DEF Init, NewRun, Transactions, Effect, Assured, Store!Init
  <1>2. IInv /\ IInv' /\ [Next]_vars => [Store!Next]_(Store!store)
    <2>1. CASE UNCHANGED vars
      BY <2>1 DEF vars, Store!store, Effect, Assured, OwnWrites
    <2> QED
      BY <2>1, StoreStep
  <1> QED
    BY <1>1, <1>2, Invariance, PTL DEF Spec, ImplementsAtomicStore, Store!Spec
==============================================================================
