---------------------------- MODULE QuestionStore ----------------------------
(***************************************************************************)
(* The rows of the tables questions and answers that the life of a         *)
(* question turns on, and the SQL statements several handlers share.       *)
(*                                                                         *)
(* Every statement the backend issues outside withTransaction commits on   *)
(* its own, so a statement is one atomic step and a handler that issues    *)
(* two of them can be interleaved with every other handler.                *)
(***************************************************************************)
EXTENDS Integers, FiniteSets

CONSTANTS
    Rabbis,         \* rows of rabbis whose is_active is true
    Admins,         \* those whose role is 'admin'
    Questions,      \* rows of questions
    NoRabbi,        \* SQL NULL in a column that holds a rabbi's id
    TimeoutHours    \* sla_config.hours_to_timeout

ASSUME StoreAssumption ==
    /\ Admins \subseteq Rabbis
    /\ NoRabbi \notin Rabbis
    /\ TimeoutHours \in Nat \ {0}

VARIABLES
    questions,  \* the table questions, one row per question
    answers,    \* answers[q] is the author of q's row in answers, NoRabbi if none
    held,       \* history: hours since the owner of q last changed
    told        \* history: its present owner was sent a timeout warning

store == <<questions, answers, held, told>>

Statuses == {"pending", "in_process", "answered", "hidden"}

(***************************************************************************)
(* lock_timestamp is kept as the age of the lock: level k stands for an    *)
(* age of more than k and at most k + 1 hours, so "older than k hours" is  *)
(* lock >= k.  Ages past the timeout are not told apart.                   *)
(***************************************************************************)
NoLock == -1
Hours  == 0 .. TimeoutHours

QuestionRow ==
    [status : Statuses,
     owner  : Rabbis \union {NoRabbi},
     lock   : Hours \union {NoLock},
     warned : BOOLEAN]

StoreTypeOK ==
    /\ questions \in [Questions -> QuestionRow]
    /\ answers \in [Questions -> Rabbis \union {NoRabbi}]
    /\ held \in [Questions -> Hours]
    /\ told \in [Questions -> BOOLEAN]

NewQuestion ==
    [status |-> "pending", owner |-> NoRabbi, lock |-> NoLock, warned |-> FALSE]

StoreInit ==
    /\ questions = [q \in Questions |-> NewQuestion]
    /\ answers = [q \in Questions |-> NoRabbi]
    /\ held = [q \in Questions |-> 0]
    /\ told = [q \in Questions |-> FALSE]

------------------------------------------------------------------------------
(* The assignments of the UPDATE statements, on one row.                   *)

\* Mutants: a claim that forgets lock_timestamp, and a hand-over that keeps the
\* previous owner's.
ClaimedUnlocked(row, r) == [row EXCEPT !.status = "in_process", !.owner = r]
HandedToKeepingLock(row, r) == [row EXCEPT !.owner = r]

\* a claim of any kind: the row gets an owner and a new lock, and keeps
\* whatever warning_sent it had
Claimed(row, r) ==
    [row EXCEPT !.status = "in_process", !.owner = r, !.lock = 0]

\* release by the dashboard and by the timeout job
Released(row) ==
    [row EXCEPT !.status = "pending", !.owner = NoRabbi, !.lock = NoLock,
                !.warned = FALSE]

\* hand-over: the status is left alone
HandedTo(row, r) == [row EXCEPT !.owner = r, !.lock = 0]

Answered(row) == [row EXCEPT !.status = "answered"]

Write(q, row) == questions' = [questions EXCEPT ![q] = row]

IsFree(row) == row.status = "pending" /\ row.owner = NoRabbi

------------------------------------------------------------------------------
(* History variables.  A new owner starts with no hours and unwarned.     *)

OwnerChanges(q) == questions'[q].owner # questions[q].owner

TrackOwners ==
    /\ held' = [q \in Questions |-> IF OwnerChanges(q) THEN 0 ELSE held[q]]
    /\ told' = [q \in Questions |-> told[q] /\ ~OwnerChanges(q)]

\* a statement that changes rows of questions only
UpdatesQuestions == UNCHANGED answers /\ TrackOwners

------------------------------------------------------------------------------
(* An hour goes by.                                                        *)

OlderUncapped(h) == h + 1 \* mutant

Older(h) == IF h < TimeoutHours THEN h + 1 ELSE h

AgeLocks ==
    /\ questions' = [q \in Questions |->
           IF questions[q].lock = NoLock THEN questions[q]
           ELSE [questions[q] EXCEPT !.lock = Older(@)]]
    /\ held' = [q \in Questions |-> Older(held[q])]
    /\ UNCHANGED <<answers, told>>
==============================================================================
