----------------------------- MODULE DeskWriters -----------------------------
(***************************************************************************)
(* Everybody who writes the rows of the desk.  QuestionLifecycle has the   *)
(* dashboard and the cron jobs; beside them                                *)
(*                                                                         *)
(*   - the mailbox reader (imapPoller.js) turns a rabbi's reply into a     *)
(*     claim, a release or an answer.  It reads the question, decides,     *)
(*     and then writes by id, one statement at a time; all the replies of  *)
(*     a poll are handled at once;                                         *)
(*   - the links in e-mails and the inbound webhook claim and release;     *)
(*   - an administrator forces a status, assigns, releases, and removes    *)
(*     the account of a rabbi.                                             *)
(*                                                                         *)
(* An answer is its author (answers.rabbi_id, the variable answers of      *)
(* QuestionStore) and its text, of which only the writer matters here.     *)
(***************************************************************************)
EXTENDS QuestionLifecycle

CONSTANT Mails  \* replies and clicked links handled at once

VARIABLES
    mails,    \* the reply or link in each slot: what it decided to write next
    removal,  \* DELETE /admin/rabbis/:id past its check
    gone,     \* rabbis whose row is deleted
    text,     \* text[q]: who wrote the text of q's answer, NoRabbi if none
    raced,    \* history: a handler of q worked on a row that had changed
    forced    \* history: an administrator set q's status and nothing else

writerVars == <<mails, removal, gone, text, raced, forced>>
deskVars   == <<vars, writerVars>>

Kinds  == {"claim", "release", "answer", "link"}
NoMail == [pc |-> "idle"]
Mail   == [pc : {"claim", "release", "linkRelease", "autoClaim",
                 "lookup", "replace", "insert", "finish"},
           by : Rabbis, q : Questions]

NoRemoval == [pc |-> "idle"]
Removal   == [pc : {"write"}, by : Admins, of : Rabbis]

WritersTypeOK ==
    /\ TypeOK
    /\ mails \in [Mails -> Mail \union {NoMail}]
    /\ removal \in Removal \union {NoRemoval}
    /\ gone \in SUBSET Rabbis
    /\ text \in [Questions -> Rabbis \union {NoRabbi}]
    /\ raced \in [Questions -> BOOLEAN]
    /\ forced \in [Questions -> BOOLEAN]

DeskInit ==
    /\ Init
    /\ mails = [m \in Mails |-> NoMail]
    /\ removal = NoRemoval
    /\ gone = {}
    /\ text = [q \in Questions |-> NoRabbi]
    /\ raced = [q \in Questions |-> FALSE]
    /\ forced = [q \in Questions |-> FALSE]

------------------------------------------------------------------------------
(* History.                                                                *)

\* whoever stores or takes over an answer takes over its text; a text that
\* is not its author's stays whose it is
TextFollowsAuthor ==
    text' = [q \in Questions |-> IF text[q] = answers[q] THEN answers'[q] ELSE text[q]]

Moved(q) ==
    \/ questions'[q].status # questions[q].status
    \/ questions'[q].owner # questions[q].owner
    \/ answers'[q] # answers[q]
    \/ text'[q] # text[q]

Reopens(q) ==
    questions[q].status = "answered" /\ questions'[q].status # "answered"

\* a mail other than those of M has read q and is not done with it
Pending(q, M) == \E n \in Mails \ M : mails[n] # NoMail /\ mails[n].q = q

\* a step of the mails in M, or of somebody else when M is empty
TrackRaces(M) ==
    raced' = [q \in Questions |->
                 raced[q] \/ Reopens(q) \/ (Moved(q) /\ Pending(q, M))]

Untouched == UNCHANGED <<requests, jobs>>

------------------------------------------------------------------------------
(* The dashboard and the jobs.  A deleted rabbi cannot log in, and no      *)
(* statement can name one: both tables reference rabbis.  With the SLA off *)
(* the jobs find no row, and nothing depends on the hours.                 *)

ForeignKeysHold ==
    \A q \in Questions : questions'[q].owner \notin gone /\ answers'[q] \notin gone

OnlyRabbisAsk ==
    \A s \in Slots :
        requests[s] = NoRequest /\ requests'[s] # NoRequest => requests'[s].by \notin gone

DashboardStep ==
    /\ \/ RabbiStep
       \/ \E s \in Slots : RequestStep(s)
       \/ SlaEnabled /\ (JobStep \/ HourPasses)
    /\ ForeignKeysHold
    /\ OnlyRabbisAsk
    /\ TextFollowsAuthor
    /\ TrackRaces({})
    /\ UNCHANGED <<mails, removal, gone, forced>>

------------------------------------------------------------------------------
(* Mutants.                                                                *)

\* the claim of a mail forgets the lock
MailClaimedUnlocked(row, r) == [row EXCEPT !.status = "in_process", !.owner = r]

\* the vocabulary of the other release handler of actionLinks.js
MailReleasedOpen(row) == [row EXCEPT !.status = "open", !.owner = NoRabbi]

\* an upsert instead of SELECT and INSERT
InsertOver(q, r) == answers' = [answers EXCEPT ![q] = r]

\* an answer is accepted from any rabbi, whoever has the question
AnyoneMayAnswer(r, row) == TRUE

\* the status of the row is not looked at first
NeverAnswered(row) == FALSE

------------------------------------------------------------------------------
(* processEmail, and the links of /auth/action and /action/release.        *)

IsAnswered(row) == row.status = "answered"

\* claimable as the mailbox reader sees it: pending, or nobody's
LooksFree(row) == row.status = "pending" \/ row.owner = NoRabbi

MayAnswer(r, row) == row.owner = r \/ r \in Admins

\* what the mail will write, from one look at the row; "done" for nothing.
\* A claim of a question that is one's own already is confirmed only.
Decision(kind, r, row) ==
    CASE kind = "link" /\ row.status = "in_process" /\ row.owner = r -> "linkRelease"
      [] kind = "release" /\ row.status = "in_process" /\ row.owner = r -> "release"
      [] kind = "claim" /\ ~IsAnswered(row) /\ LooksFree(row) -> "claim"
      [] kind = "answer" /\ ~IsAnswered(row) /\ LooksFree(row) -> "autoClaim"
      [] kind = "answer" /\ ~IsAnswered(row) /\ ~LooksFree(row) /\ MayAnswer(r, row)
           -> "lookup"
      [] OTHER -> "done"

MailAt(m, pc) == mails[m] # NoMail /\ mails[m].pc = pc

MailMoves(m, pc) ==
    mails' = [mails EXCEPT ![m] = IF pc = "done" THEN NoMail ELSE [@ EXCEPT !.pc = pc]]

\* The poll fetches a reply, which marks it as seen, or a link is clicked;
\* the handler looks at the question and decides.
MailRead(m, kind, r, q) ==
    /\ mails[m] = NoMail
    /\ r \notin gone
    /\ Decision(kind, r, questions[q]) # "done"
    /\ mails' = [mails EXCEPT ![m] =
                    [pc |-> Decision(kind, r, questions[q]), by |-> r, q |-> q]]
    /\ UNCHANGED <<vars, removal, gone, text, raced, forced>>

\* one UPDATE of questions, by id
MailUpdates(m, row, next) ==
    /\ row.owner \notin gone
    /\ Write(mails[m].q, row)
    /\ UpdatesQuestions
    /\ MailMoves(m, next)
    /\ TextFollowsAuthor
    /\ TrackRaces({m})
    /\ Untouched
    /\ UNCHANGED <<removal, gone, forced>>

MailClaimed(row, r) == Claimed(row, r)

\* warning_sent stays
MailReleased(row) ==
    [row EXCEPT !.status = "pending", !.owner = NoRabbi, !.lock = NoLock]

MailClaim(m) ==
    /\ MailAt(m, "claim")
    /\ MailUpdates(m, MailClaimed(questions[mails[m].q], mails[m].by), "done")

MailRelease(m) ==
    /\ MailAt(m, "release")
    /\ MailUpdates(m, MailReleased(questions[mails[m].q]), "done")

\* the UPDATE of a link asks for the owner, not for the status
LinkRelease(m) ==
    /\ MailAt(m, "linkRelease")
    /\ LET row == questions[mails[m].q] IN
         MailUpdates(m, IF row.owner = mails[m].by THEN MailReleased(row) ELSE row, "done")

MailAutoClaim(m) ==
    /\ MailAt(m, "autoClaim")
    /\ MailUpdates(m, MailClaimed(questions[mails[m].q], mails[m].by), "lookup")

MailLookup(m) ==
    /\ MailAt(m, "lookup")
    /\ MailMoves(m, IF answers[mails[m].q] = NoRabbi THEN "insert" ELSE "replace")
    /\ UNCHANGED <<vars, removal, gone, text, raced, forced>>

\* UPDATE answers SET content: rabbi_id stays
MailReplace(m) ==
    /\ MailAt(m, "replace")
    /\ text' = [text EXCEPT ![mails[m].q] = mails[m].by]
    /\ UNCHANGED vars
    /\ MailMoves(m, "finish")
    /\ TrackRaces({m})
    /\ UNCHANGED <<removal, gone, forced>>

InsertAnswer(q, r) ==
    IF answers[q] = NoRabbi THEN answers' = [answers EXCEPT ![q] = r]
    ELSE UNCHANGED answers

\* question_id is UNIQUE: when somebody was faster the reply ends in an error
MailInsert(m) ==
    /\ MailAt(m, "insert")
    /\ mails[m].by \notin gone
    /\ InsertAnswer(mails[m].q, mails[m].by)
    /\ UNCHANGED <<questions, held, told>>
    /\ MailMoves(m, IF answers[mails[m].q] = NoRabbi THEN "finish" ELSE "done")
    /\ TextFollowsAuthor
    /\ TrackRaces({m})
    /\ Untouched
    /\ UNCHANGED <<removal, gone, forced>>

\* status and owner, by id
MailFinish(m) ==
    /\ MailAt(m, "finish")
    /\ LET row == questions[mails[m].q] IN
         MailUpdates(m, [Answered(row) EXCEPT !.owner = mails[m].by], "done")

\* A statement fails, or the server restarts: the mail is marked as seen and
\* nobody reads it again.  An answer may be left behind without its status.
MailFails(m) ==
    /\ Faults
    /\ mails[m] # NoMail
    /\ MailMoves(m, "done")
    /\ raced' = [q \in Questions |-> raced[q] \/ (mails[m].q = q /\ mails[m].pc = "finish")]
    /\ UNCHANGED <<vars, removal, gone, text, forced>>

------------------------------------------------------------------------------
(* POST /email/inbound releases with one guarded statement; its claim is   *)
(* the dashboard's, and an answer by this way always ends in an error.     *)

\* one statement of somebody who holds no mail
WritesRow(q, row) ==
    /\ Write(q, row)
    /\ UpdatesQuestions
    /\ TextFollowsAuthor
    /\ TrackRaces({})
    /\ Untouched
    /\ UNCHANGED <<mails, removal, gone>>

InboundRelease(r, q) ==
    /\ r \notin gone
    /\ questions[q].status = "in_process"
    /\ questions[q].owner = r
    /\ WritesRow(q, MailReleased(questions[q]))
    /\ UNCHANGED forced

------------------------------------------------------------------------------
(* The administrator.                                                      *)

\* PATCH /admin/questions/:id with a status, which the page sends to hide, to
\* mark as answered, to force a status, and to assign: it names the rabbi
\* assigned_rabbi_id, and the handler looks for assignedRabbiId.
PatchStatus(q, status) ==
    /\ WritesRow(q, [questions[q] EXCEPT !.status = status])
    /\ forced' = [forced EXCEPT ![q] = TRUE]

PageAssign(r, q) == r \notin gone /\ PatchStatus(q, "in_process")

\* the page's release: lock_timestamp and warning_sent stay
PatchRelease(q) ==
    /\ WritesRow(q, [questions[q] EXCEPT !.status = "pending", !.owner = NoRabbi])
    /\ UNCHANGED forced

\* PUT /:id/status with pending, and the bulk release
AdminRelease(q) ==
    /\ WritesRow(q, MailReleased(questions[q]))
    /\ UNCHANGED forced

\* PUT /:id/assign, and the bulk assignments
AdminAssign(r, q) ==
    /\ r \notin gone
    /\ WritesRow(q, Claimed(questions[q], r))
    /\ UNCHANGED forced

\* DELETE /admin/rabbis/:id: refused while the rabbi works on a question
RemoveCheck(a, r) ==
    /\ removal = NoRemoval
    /\ a \in Admins \ gone
    /\ r \in Rabbis \ (gone \union {a})
    /\ \A q \in Questions : ~(questions[q].owner = r /\ questions[q].status = "in_process")
    /\ removal' = [pc |-> "write", by |-> a, of |-> r]
    /\ UNCHANGED <<vars, mails, gone, text, raced, forced>>

\* one transaction: the questions become nobody's, whatever their status, and
\* the answers the administrator's
RemoveWrite ==
    /\ removal # NoRemoval
    /\ LET r == removal.of IN
         /\ questions' = [q \in Questions |->
                IF questions[q].owner = r THEN [questions[q] EXCEPT !.owner = NoRabbi]
                ELSE questions[q]]
         /\ answers' = [q \in Questions |->
                IF answers[q] = r THEN removal.by ELSE answers[q]]
         /\ gone' = gone \union {r}
    /\ removal' = NoRemoval
    /\ TrackOwners
    /\ TextFollowsAuthor
    /\ TrackRaces({})
    /\ Untouched
    /\ UNCHANGED <<mails, forced>>

------------------------------------------------------------------------------
MailStep(m) ==
    \/ \E kind \in Kinds, r \in Rabbis, q \in Questions : MailRead(m, kind, r, q)
    \/ MailClaim(m) \/ MailRelease(m) \/ LinkRelease(m)
    \/ MailAutoClaim(m) \/ MailLookup(m) \/ MailReplace(m) \/ MailInsert(m)
    \/ MailFinish(m) \/ MailFails(m)

AdminStep ==
    \/ \E q \in Questions : \/ \E status \in Statuses : PatchStatus(q, status)
                            \/ PatchRelease(q)
                            \/ AdminRelease(q)
                            \/ \E r \in Rabbis : AdminAssign(r, q) \/ PageAssign(r, q)
    \/ \E a, r \in Rabbis : RemoveCheck(a, r)
    \/ RemoveWrite

DeskNext ==
    \/ DashboardStep
    \/ \E m \in Mails : MailStep(m)
    \/ \E r \in Rabbis, q \in Questions : InboundRelease(r, q)
    \/ AdminStep

DeskSpec == DeskInit /\ [][DeskNext]_deskVars

------------------------------------------------------------------------------
(* What the writers guarantee together.                                    *)

\* However the mails, the links, the jobs and the dashboard interleave, a
\* question in process has a lock, so the timeout job will find it, and an
\* owner, unless that one's account was removed; an answered question has an
\* answer.  Only a status an administrator forced is outside of this.
UnforcedIsSound ==
    \A q \in Questions :
        ~forced[q] =>
            /\ questions[q].status = "in_process" =>
                 questions[q].lock # NoLock /\ (questions[q].owner # NoRabbi \/ gone # {})
            /\ questions[q].status = "answered" => answers[q] # NoRabbi

\* The asker reads a text under the name of its author.  Another rabbi's text
\* gets there only when the question was reopened after its answer, when a
\* handler wrote from a row that had changed, or when an answer by mail stopped
\* half-way.
ForeignTextNeedsRace ==
    \A q \in Questions : text[q] # answers[q] => raced[q]

\* A question somebody works on passes to another rabbi by a transfer, by an
\* administrator's assignment or by an administrator's own answer by mail;
\* any other mail takes it only in a race.
TakenOnlyInRace ==
    [][\A q \in Questions, r \in Rabbis :
          /\ questions[q].status = "in_process"
          /\ questions[q].owner \notin {r, NoRabbi}
          /\ questions'[q].owner = r
          => \/ HandingOver(q, r)
             \/ AdminAssign(r, q)
             \/ r \in Admins
             \/ raced[q]]_deskVars

\* No writer changes the author of an answer, but the removal of his account.
AuthorsOnlyRemoved ==
    [][\A q \in Questions :
          answers[q] # NoRabbi /\ answers'[q] # answers[q] => answers[q] \in gone']_deskVars

------------------------------------------------------------------------------
(* What the page says, and the code does not guarantee.                    *)

\* AdminQuestionsPage.jsx, after its PATCH: "the question was attached to the
\* rabbi".
AssignGivesOwner ==
    [][\A r \in Rabbis, q \in Questions :
          PageAssign(r, q) => questions'[q].owner = r]_deskVars
==============================================================================
