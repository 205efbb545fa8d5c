-------------------------- MODULE QuestionLifecycle --------------------------
(***************************************************************************)
(* The life of a question between the queue and its answer: rabbis claim,  *)
(* release, transfer and answer through the dashboard's HTTP handlers,     *)
(* while the half-hourly jobs warn the owner of an ageing lock and return  *)
(* an expired one to the queue.                                            *)
(*                                                                         *)
(* A handler is a request in a slot: it reads the row in one statement and *)
(* writes it in a later one, and anything may happen in between.  The row  *)
(* it read is not kept: what the code carries over is only the decision it *)
(* took, which is the request's pc.                                        *)
(***************************************************************************)
EXTENDS QuestionStore

CONSTANTS
    Slots,      \* requests that can be in flight at once
    Offered,    \* the operations the clients in this instance use
    SlaEnabled, \* sla_config.enabled
    Faults      \* whether statements fail and the server restarts

Operations == {"release", "transfer", "answer", "draft"}

ASSUME LifecycleAssumption ==
    /\ Offered \subseteq Operations
    /\ SlaEnabled \in BOOLEAN
    /\ Faults \in BOOLEAN

VARIABLES
    requests,    \* the request in each slot
    timeoutJob,  \* runTimeoutCheck: the rows it has to report, audited or not
    warningJob,  \* runWarningCheck: the rows to do, and the one just marked
    due          \* the jobs that have not run yet in this hour

vars == <<store, requests, timeoutJob, warningJob, due>>
jobs == <<timeoutJob, warningJob, due>>

NoRequest == [pc |-> "idle"]

\* only a transfer names another rabbi
Request ==
    LET Requests(ops, targets) ==
            [pc : {"selfHeal", "reread", "check", "write", "autoClaim"},
             op : ops, by : Rabbis, q : Questions, to : targets]
    IN  Requests(Operations \ {"transfer"}, {NoRabbi})
          \union Requests({"transfer"}, Rabbis)

\* what a job remembers of a row: the question and the owner it read
ReportRow == [q : Questions, owner : Rabbis \union {NoRabbi}]

NoEviction == [audited |-> FALSE, rows |-> {}]
NoWarning  == [todo |-> {}, marked |-> {}]

TypeOK ==
    /\ StoreTypeOK
    /\ requests \in [Slots -> Request \union {NoRequest}]
    /\ timeoutJob \in [audited : BOOLEAN, rows : SUBSET ReportRow]
    /\ warningJob \in [todo : SUBSET ReportRow, marked : SUBSET ReportRow]
    /\ due \in SUBSET {"timeout", "warning"}

Init ==
    /\ StoreInit
    /\ requests = [s \in Slots |-> NoRequest]
    /\ timeoutJob = NoEviction
    /\ warningJob = NoWarning
    /\ due = {"timeout", "warning"}

------------------------------------------------------------------------------
(* Requests.                                                               *)

Opens(s, req) ==
    /\ requests[s] = NoRequest
    /\ req.op \in Offered
    /\ requests' = [requests EXCEPT ![s] = req]

At(s, op, pc) ==
    /\ requests[s] # NoRequest
    /\ requests[s].op = op
    /\ requests[s].pc = pc

MovesTo(s, pc) == requests' = [requests EXCEPT ![s].pc = pc]

Ends(s) == requests' = [requests EXCEPT ![s] = NoRequest]

\* A statement fails, or validation ends the handler with an error: an open
\* handler may stop before its next statement, and what it wrote stays.
RequestFails(s) ==
    /\ Faults
    /\ requests[s] # NoRequest
    /\ Ends(s)
    /\ UNCHANGED <<store, jobs>>

------------------------------------------------------------------------------
(* Mutants: what a plausible slip in one handler would make of it.         *)

\* the claim checks nothing under its row lock
ClaimUnchecked(r, q) ==
    /\ Write(q, Claimed(questions[q], r))
    /\ UpdatesQuestions
    /\ UNCHANGED <<requests, jobs>>

\* the check of a release asks for the owner only
ReleaseCheckedByOwner(s, r, q) ==
    /\ r \in Admins \/ questions[q].owner = r
    /\ Opens(s, [pc |-> "write", op |-> "release", by |-> r, q |-> q, to |-> NoRabbi])
    /\ UNCHANGED <<store, jobs>>

\* the UPDATE of the self-heal loses its WHERE clause
SelfHealUnguarded(s) ==
    /\ requests[s].pc = "selfHeal"
    /\ LET q == requests[s].q IN Write(q, Claimed(questions[q], requests[s].by))
    /\ MovesTo(s, "check")
    /\ UpdatesQuestions
    /\ UNCHANGED jobs

\* the INSERT becomes an upsert
PublishOver(s, row) ==
    /\ answers' = [answers EXCEPT ![requests[s].q] = requests[s].by]
    /\ Write(requests[s].q, Answered(row))

\* the status is set outside the transaction of the INSERT, and stays when
\* that one fails
AnswerWriteUnatomic(s) ==
    /\ At(s, "answer", "write")
    /\ LET q == requests[s].q IN Write(q, Answered(questions[q]))
    /\ answers' \in {answers, [answers EXCEPT ![requests[s].q] = requests[s].by]}
    /\ TrackOwners
    /\ Ends(s)
    /\ UNCHANGED jobs

------------------------------------------------------------------------------
(* POST /claim/:id.  SELECT ... FOR UPDATE and UPDATE in one transaction.  *)
(* The claim link of an e-mail (GET /action/claim with a rabbiId) and the  *)
(* claim by WhatsApp are the same transaction.                             *)

Claim(r, q) ==
    /\ questions[q].status = "pending"
    /\ Write(q, Claimed(questions[q], r))
    /\ UpdatesQuestions
    /\ UNCHANGED <<requests, jobs>>

------------------------------------------------------------------------------
(* POST /release/:id.  The check reads the row, the UPDATE asks nothing.   *)

ReleaseCheck(s, r, q) ==
    /\ questions[q].status = "in_process"
    /\ r \in Admins \/ questions[q].owner = r
    /\ Opens(s, [pc |-> "write", op |-> "release", by |-> r, q |-> q, to |-> NoRabbi])
    /\ UNCHANGED <<store, jobs>>

ReleaseWrite(s) ==
    /\ At(s, "release", "write")
    /\ LET q == requests[s].q IN Write(q, Released(questions[q]))
    /\ UpdatesQuestions
    /\ Ends(s)
    /\ UNCHANGED jobs

------------------------------------------------------------------------------
(* questionOwnership, the middleware before transfer, answer and draft.    *)

\* where the middleware sends r after it read q's row
GateDecision(r, q) ==
    IF r \in Admins \/ (~IsFree(questions[q]) /\ questions[q].owner = r) THEN "check"
    ELSE IF IsFree(questions[q]) THEN "selfHeal"
    ELSE "refused"

Gate(s, r, q, op, to) ==
    /\ GateDecision(r, q) # "refused"
    /\ Opens(s, [pc |-> GateDecision(r, q), op |-> op, by |-> r, q |-> q, to |-> to])
    /\ UNCHANGED <<store, jobs>>

\* UPDATE ... WHERE status = 'pending' AND assigned_rabbi_id IS NULL
SelfHeal(s) ==
    /\ requests[s].pc = "selfHeal"
    /\ LET q == requests[s].q IN
         \/ /\ IsFree(questions[q])
            /\ Write(q, Claimed(questions[q], requests[s].by))
            /\ MovesTo(s, "check")
         \/ /\ ~IsFree(questions[q])
            /\ MovesTo(s, "reread")
            /\ UNCHANGED questions
    /\ UpdatesQuestions
    /\ UNCHANGED jobs

\* lost the race: only the owner is compared, whatever the status is
Reread(s) ==
    /\ requests[s].pc = "reread"
    /\ IF questions[requests[s].q].owner = requests[s].by
         THEN MovesTo(s, "check") ELSE Ends(s)
    /\ UNCHANGED <<store, jobs>>

------------------------------------------------------------------------------
(* POST /transfer/:id.  transferQuestion asks for the owner, not for the   *)
(* status, and its UPDATE leaves status and warning_sent as they are.      *)

TransferCheck(s) ==
    /\ At(s, "transfer", "check")
    /\ IF questions[requests[s].q].owner = requests[s].by
         THEN MovesTo(s, "write") ELSE Ends(s)
    /\ UNCHANGED <<store, jobs>>

TransferWrite(s) ==
    /\ At(s, "transfer", "write")
    /\ LET q == requests[s].q IN Write(q, HandedTo(questions[q], requests[s].to))
    /\ UpdatesQuestions
    /\ Ends(s)
    /\ UNCHANGED jobs

------------------------------------------------------------------------------
(* POST /answer/:id.                                                       *)

\* answers.submitAnswer reads the row: it must not be answered, and must be
\* the rabbi's own or free
AnswerCheck(s) ==
    /\ At(s, "answer", "check")
    /\ LET row == questions[requests[s].q] IN
         \/ /\ row.status # "answered"
            /\ row.owner = requests[s].by
            /\ MovesTo(s, "write")
         \/ /\ IsFree(row)
            /\ MovesTo(s, "autoClaim")
         \/ /\ row.status = "answered" \/ (row.owner # requests[s].by /\ ~IsFree(row))
            /\ Ends(s)
    /\ UNCHANGED <<store, jobs>>

\* answers.question_id is UNIQUE: a second INSERT fails and rolls back
Publish(s, row) ==
    LET q == requests[s].q IN
      \/ /\ answers[q] = NoRabbi
         /\ answers' = [answers EXCEPT ![q] = requests[s].by]
         /\ Write(q, Answered(row))
      \/ /\ answers[q] # NoRabbi
         /\ UNCHANGED <<answers, questions>>

AnswerWrite(s) ==
    /\ At(s, "answer", "write")
    /\ Publish(s, questions[requests[s].q])
    /\ TrackOwners
    /\ Ends(s)
    /\ UNCHANGED jobs

\* the transaction first claims the row, if it is still free, without a lock
AnswerAutoClaim(s) ==
    /\ At(s, "answer", "autoClaim")
    /\ LET row == questions[requests[s].q] IN
         \/ IsFree(row) /\ Publish(s, [row EXCEPT !.owner = requests[s].by])
         \/ ~IsFree(row) /\ UNCHANGED <<answers, questions>>
    /\ TrackOwners
    /\ Ends(s)
    /\ UNCHANGED jobs

\* GET or PUT /:id/draft: past the middleware it touches the draft columns only
Draft(s) ==
    /\ At(s, "draft", "check")
    /\ Ends(s)
    /\ UNCHANGED <<store, jobs>>

------------------------------------------------------------------------------
(* runTimeoutCheck.  One statement returns every expired lock to the queue *)
(* and hands the job the previous owners; the job then writes one audit    *)
(* row per question and only then notifies the previous owners.            *)

\* Mutants: only a warned owner is evicted; the job reports the new row.
ExpiredAndWarned ==
    {q \in Questions : /\ SlaEnabled
                       /\ questions[q].status = "in_process"
                       /\ questions[q].warned
                       /\ questions[q].lock >= TimeoutHours}
ReportReleased(qs) == {[q |-> q, owner |-> NoRabbi] : q \in qs}

Expired ==
    {q \in Questions : /\ SlaEnabled
                       /\ questions[q].status = "in_process"
                       /\ questions[q].lock >= TimeoutHours}

Report(qs) == {[q |-> q, owner |-> questions[q].owner] : q \in qs}

TimeoutStart ==
    /\ timeoutJob = NoEviction
    /\ questions' = [q \in Questions |->
           IF q \in Expired THEN Released(questions[q]) ELSE questions[q]]
    /\ UpdatesQuestions
    /\ timeoutJob' = [audited |-> FALSE, rows |-> Report(Expired)]
    /\ due' = due \ {"timeout"}
    /\ UNCHANGED <<requests, warningJob>>

TimeoutAudit ==
    /\ timeoutJob.rows # {}
    /\ ~timeoutJob.audited
    /\ timeoutJob' = [timeoutJob EXCEPT !.audited = TRUE]
    /\ UNCHANGED <<store, requests, warningJob, due>>

\* a notification that fails is logged, and the loop goes on
TimeoutNotify(row) ==
    /\ timeoutJob.audited
    /\ row \in timeoutJob.rows
    /\ timeoutJob' = [audited |-> timeoutJob.rows # {row},
                      rows    |-> timeoutJob.rows \ {row}]
    /\ UNCHANGED <<store, requests, warningJob, due>>

------------------------------------------------------------------------------
(* runWarningCheck.  It reads the locks in their last hour, then for each  *)
(* one sets warning_sent, whoever owns the row by then, and notifies the   *)
(* owner it had read.                                                      *)

InLastHour ==
    {q \in Questions : /\ SlaEnabled
                       /\ TimeoutHours > 1
                       /\ questions[q].status = "in_process"
                       /\ questions[q].owner # NoRabbi
                       /\ ~questions[q].warned
                       /\ questions[q].lock = TimeoutHours - 1}

WarningStart ==
    /\ warningJob = NoWarning
    /\ warningJob' = [todo |-> Report(InLastHour), marked |-> {}]
    /\ due' = due \ {"warning"}
    /\ UNCHANGED <<store, requests, timeoutJob>>

WarningMark(row) ==
    /\ warningJob.marked = {}
    /\ row \in warningJob.todo
    /\ Write(row.q, [questions[row.q] EXCEPT !.warned = TRUE])
    /\ UpdatesQuestions
    /\ warningJob' = [todo |-> warningJob.todo \ {row}, marked |-> {row}]
    /\ UNCHANGED <<requests, timeoutJob, due>>

WarningNotify(row) ==
    /\ row \in warningJob.marked
    /\ warningJob' = [warningJob EXCEPT !.marked = {}]
    /\ told' = [told EXCEPT ![row.q] = @ \/ questions[row.q].owner = row.owner]
    /\ UNCHANGED <<questions, answers, held, requests, timeoutJob, due>>

\* safeJob swallows what a job throws; a restart of the server has the same
\* effect.  What the job has written stays, what it had left is forgotten.
JobFails ==
    /\ Faults
    /\ \/ /\ timeoutJob # NoEviction
          /\ timeoutJob' = NoEviction
          /\ UNCHANGED warningJob
       \/ /\ warningJob # NoWarning
          /\ warningJob' = NoWarning
          /\ UNCHANGED timeoutJob
    /\ UNCHANGED <<store, requests, due>>

\* Both jobs run every thirty minutes, so without faults each has run, and has
\* ended, before an hour is over.  A server that is down, or a run that fails
\* or hangs, misses its hour, and the locks age all the same.
HourPasses ==
    /\ Faults \/ (due = {} /\ timeoutJob = NoEviction /\ warningJob = NoWarning)
    /\ AgeLocks
    /\ due' = {"timeout", "warning"}
    /\ UNCHANGED <<requests, timeoutJob, warningJob>>

------------------------------------------------------------------------------
RequestStep(s) ==
    \/ ReleaseWrite(s) \/ SelfHeal(s) \/ Reread(s)
    \/ TransferCheck(s) \/ TransferWrite(s)
    \/ AnswerCheck(s) \/ AnswerWrite(s) \/ AnswerAutoClaim(s)
    \/ Draft(s) \/ RequestFails(s)

RabbiStep ==
    \E r \in Rabbis, q \in Questions :
        \/ Claim(r, q)
        \/ \E s \in Slots :
              \/ ReleaseCheck(s, r, q)
              \/ Gate(s, r, q, "answer", NoRabbi)
              \/ Gate(s, r, q, "draft", NoRabbi)
              \/ \E to \in Rabbis \ {r} : Gate(s, r, q, "transfer", to)

JobStep ==
    \/ TimeoutStart \/ TimeoutAudit \/ WarningStart \/ JobFails
    \/ \E row \in timeoutJob.rows : TimeoutNotify(row)
    \/ \E row \in warningJob.todo : WarningMark(row)
    \/ \E row \in warningJob.marked : WarningNotify(row)

Next == RabbiStep \/ (\E s \in Slots : RequestStep(s)) \/ JobStep \/ HourPasses

(***************************************************************************)
(* node-cron starts the timeout job again and again, and each of its       *)
(* loops ends; rabbis are free to do nothing at all.                       *)
(***************************************************************************)
TimeoutFairness ==
    /\ WF_vars(TimeoutStart)
    /\ WF_vars(TimeoutAudit)
    /\ WF_vars(\E row \in timeoutJob.rows : TimeoutNotify(row))

Spec == Init /\ [][Next]_vars
FairSpec == Spec /\ TimeoutFairness

------------------------------------------------------------------------------
(* What the code guarantees.                                               *)

\* A question in process has an owner and a lock.  Without the lock neither
\* timeout job would ever see it again; without the owner nobody could answer
\* or release it.  Every writer of status sets the two together.
InProcessIsLocked ==
    \A q \in Questions :
        questions[q].status = "in_process" =>
            questions[q].owner # NoRabbi /\ questions[q].lock # NoLock

\* The lock is never older than the tenure of the rabbi who holds it, so a
\* rabbi who received a question by claim, transfer or self-heal has the full
\* sla_config.hours_to_timeout before the job takes it back.
LockWithinTenure ==
    \A q \in Questions :
        questions[q].status = "in_process" => questions[q].lock <= held[q]

\* An answered question has its row in answers, whatever fails in between:
\* INSERT and UPDATE are in one transaction.
AnsweredIsAuthored ==
    \A q \in Questions :
        questions[q].status = "answered" => answers[q] # NoRabbi

\* An expired eviction is reported under the rabbi who lost the question, not
\* under the row as the UPDATE left it (timeoutCheck.js joins the old rows).
EvictionNamesOwner == \A row \in timeoutJob.rows : row.owner # NoRabbi

\* The answer the asker got is the first one: however the question went back
\* to the queue and whoever took it since, its author never changes.
AuthorIsFinal ==
    [][\A q \in Questions : answers[q] # NoRabbi => answers'[q] = answers[q]]_vars

Releasing(q) == \E s \in Slots : ReleaseWrite(s) /\ requests[s].q = q

\* Once answered, a question is never claimed, healed, timed out or taken in
\* any way: the only statement that can reopen it is the UPDATE of a release
\* whose check ran before the answer.
OnlyStaleReleaseReopens ==
    [][\A q \in Questions :
          questions[q].status = "answered" /\ questions'[q].status # "answered"
              => Releasing(q)]_vars

HandingOver(q, r) ==
    \E s \in Slots :
        TransferWrite(s) /\ requests[s].q = q /\ requests[s].to = r

\* A question somebody works on passes to another rabbi only by a transfer to
\* that rabbi: a claim, a self-heal or an auto-claim that lost its race never
\* takes it.
TakenOnlyByTransfer ==
    [][\A q \in Questions, r \in Rabbis :
          /\ questions[q].status = "in_process"
          /\ questions[q].owner # r
          /\ questions'[q].owner = r
          => HandingOver(q, r)]_vars

\* With the SLA on, a question whose lock reached the timeout does not stay
\* with its owner: the half-hourly job returns it, or somebody moves it first.
ExpiredLockIsLost ==
    \A q \in Questions :
        (/\ SlaEnabled
         /\ questions[q].status = "in_process"
         /\ questions[q].lock = TimeoutHours)
            ~> ~(/\ questions[q].status = "in_process"
                 /\ questions[q].lock = TimeoutHours)

\* AnswerOnce, with the phase, the holder and the author read off the tables,
\* and a recall for every release that has its check behind it.
Phase  == [q \in Questions |-> questions[q].status]
Holder == [q \in Questions |-> questions[q].owner]
Recalled ==
    {q \in Questions : \E s \in Slots : At(s, "release", "write") /\ requests[s].q = q}

Desk == INSTANCE AnswerOnce WITH phase <- Phase, holder <- Holder,
                                 author <- answers, recalled <- Recalled

\* Claims, self-heals, transfers, answers, releases and both jobs together
\* implement AnswerOnce: a question is answered at most once, by one author,
\* and every other step of every handler is one that AnswerOnce allows.
ImplementsAnswerOnce == Desk!Spec

------------------------------------------------------------------------------
(* What its comments say, and the code does not guarantee.                 *)

\* releaseQuestion: "@throws {Error} 400 if not in_process".
ReleasesOnlyInProcess ==
    [][\A s \in Slots :
          ReleaseWrite(s) => questions[requests[s].q].status = "in_process"]_vars

\* cron/index.js: "warn rabbi 1 hour before question timeout": nobody is
\* evicted who was not warned.
EvictedWereWarned ==
    [][TimeoutStart => \A q \in Expired : told[q]]_vars
==============================================================================
