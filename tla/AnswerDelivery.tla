---------------------------- MODULE AnswerDelivery ----------------------------
(***************************************************************************)
(* From the stored answer to the page on the WordPress site.  An answer is *)
(* pushed right after it is stored, by a job every two minutes, by a retry *)
(* job every hour, by an administrator's retry and, with the follow-up     *)
(* appended, when the rabbi answers a follow-up question.  Meanwhile its   *)
(* author and the administrators edit it.  Nothing but questions.          *)
(* wp_synced_at ties the pushes together.                                  *)
(*                                                                         *)
(* Every push reads rows, calls WordPress row by row, and marks the row in *)
(* a later statement.  The endpoints differ in where WordPress stores the  *)
(* text; here they all write the one page of the question.                 *)
(***************************************************************************)
EXTENDS Integers, FiniteSets

CONSTANTS
    Questions,  \* questions in process that have a wp_post_id
    NoQuestion,
    Pushes,     \* slots: pushes in flight at once
    Editors,    \* slots: edits in flight at once
    Offered,    \* what this instance does besides answering and syncing
    Limit,      \* LIMIT of the batches (50)
    Broken,     \* questions whose post is gone: every call for it fails
    Faults,     \* whether statements fail and the server restarts
    MaxContent  \* bound: contents saved per answer

ASSUME DeliveryAssumption ==
    /\ IsFiniteSet(Questions)
    /\ NoQuestion \notin Questions
    /\ Offered \subseteq {"private", "edit", "retry", "manual", "followUp"}
    /\ Limit \in Nat \ {0}
    /\ Broken \subseteq Questions
    /\ Faults \in BOOLEAN
    /\ MaxContent \in Nat \ {0}

VARIABLES
    answers,   \* the table answers joined with questions.wp_synced_at
    site,      \* the content on the page of each question
    wanted,    \* pushes of one answer, triggered and not yet begun
    pushes,    \* the push in each slot
    edits,     \* the edit in each slot
    saved      \* history: the last content saved; contents are numbered

vars == <<answers, site, wanted, pushes, edits, saved>>

Contents == 1 .. MaxContent
None == 0  \* no content: not answered, or nothing on the page

\* answered_at is kept as the rank among the answers, 0 before the answer;
\* versions is answers.content_versions, whose order nothing here reads
AnswerRow ==
    [content  : Contents \union {None},
     versions : SUBSET Contents,
     private  : BOOLEAN,
     answered : 0 .. Cardinality(Questions),
     synced   : BOOLEAN]

\* wordpress.syncAnswerToWP is run for a new answer ("own") and by the
\* administrator's retry ("manual")
ByIdKinds == {"own", "manual"}
Trigger == [q : Questions, kind : ByIdKinds \union {"followUp"}]

\* the rows a push read and has still to do, and what it is about to do: call
\* WordPress for the next row, or set or clear the mark of the question q
PushRow == [q : Questions, content : Contents]
Kinds == ByIdKinds \union {"sync", "retry", "followUp"}
NoPush == [kind |-> "none"]
Push ==
    [kind : Kinds, at : {"post", "mark", "unmark"}, rows : SUBSET PushRow,
     q : Questions \union {NoQuestion}]

NoEdit == [q |-> NoQuestion]
Edit == [q : Questions, content : Contents, versions : SUBSET Contents]

TypeOK ==
    /\ answers \in [Questions -> AnswerRow]
    /\ site \in [Questions -> Contents \union {None}]
    /\ wanted \in SUBSET Trigger
    /\ pushes \in [Pushes -> Push \union {NoPush}]
    /\ edits \in [Editors -> Edit \union {NoEdit}]
    /\ saved \in [Questions -> Contents \union {None}]

Init ==
    /\ answers = [q \in Questions |->
           [content |-> None, versions |-> {}, private |-> FALSE, answered |-> 0,
            synced |-> FALSE]]
    /\ site = [q \in Questions |-> None]
    /\ wanted = {}
    /\ pushes = [p \in Pushes |-> NoPush]
    /\ edits = [e \in Editors |-> NoEdit]
    /\ saved = [q \in Questions |-> None]

IsAnswered(q) == answers[q].answered # 0

Moves(p, push) == pushes' = [pushes EXCEPT ![p] = push]

\* the push is about to call WordPress for a row it read
Calls(p, row) ==
    /\ pushes[p] # NoPush
    /\ pushes[p].at = "post"
    /\ row \in pushes[p].rows

\* after the call for a row
Called(push, row, at) ==
    [kind |-> push.kind, at |-> at, rows |-> push.rows \ {row}, q |-> row.q]

------------------------------------------------------------------------------
(* Mutants: what a plausible slip would make of the definitions below.     *)

\* an answer is stored over another
AnswerAgain(q, private) ==
    /\ answers' = [answers EXCEPT ![q] =
           [content |-> 1, versions |-> {1}, private |-> private,
            answered |-> 1 + Cardinality({p \in Questions : IsAnswered(p)}),
            synced |-> FALSE]]
    /\ UNCHANGED <<site, wanted, pushes, edits, saved>>

\* an edit forgets the text it replaces
VersionsAfterEditLost(edit) == edit.versions

\* the job selects private answers too, or skips what the page already shows
UnsyncedPublicOrNot(q) == IsAnswered(q) /\ ~answers[q].synced
UnsyncedPublicUnseen(q) ==
    /\ IsAnswered(q) /\ ~answers[q].synced /\ ~answers[q].private
    /\ site[q] = None

\* a refused call is taken for a published answer
RefusedMarks(p, row) ==
    /\ Calls(p, row)
    /\ Moves(p, Called(pushes[p], row, "mark"))
    /\ UNCHANGED <<answers, site, wanted, edits, saved>>

------------------------------------------------------------------------------
(* submitAnswer: the row is stored, and the push of a public answer is     *)
(* triggered.                                                              *)

Answer(q, private) ==
    /\ ~IsAnswered(q)
    /\ private => "private" \in Offered
    /\ answers' = [answers EXCEPT ![q] =
           [content |-> 1, versions |-> {1}, private |-> private,
            answered |-> 1 + Cardinality({p \in Questions : IsAnswered(p)}),
            synced |-> FALSE]]
    /\ wanted' = IF private THEN wanted
               ELSE wanted \union {[q |-> q, kind |-> "own"]}
    /\ saved' = [saved EXCEPT ![q] = 1]
    /\ UNCHANGED <<site, pushes, edits>>

------------------------------------------------------------------------------
(* editAnswer: one statement reads content and content_versions, another   *)
(* writes both.  It then triggers the job of the two minutes.              *)

EditRead(e, q) ==
    /\ "edit" \in Offered
    /\ edits[e] = NoEdit
    /\ IsAnswered(q)
    /\ saved[q] < MaxContent
    /\ edits' = [edits EXCEPT ![e] =
           [q |-> q, content |-> answers[q].content, versions |-> answers[q].versions]]
    /\ UNCHANGED <<answers, site, wanted, pushes, saved>>

VersionsAfterEdit(edit) == edit.versions \union {edit.content}

Edited(edit, row, content) ==
    [row EXCEPT !.content = content, !.versions = VersionsAfterEdit(edit)]

EditWrite(e) ==
    /\ edits[e] # NoEdit
    /\ LET q == edits[e].q IN
         /\ saved[q] < MaxContent
         /\ saved' = [saved EXCEPT ![q] = @ + 1]
         /\ answers' = [answers EXCEPT ![q] = Edited(edits[e], @, saved[q] + 1)]
    /\ edits' = [edits EXCEPT ![e] = NoEdit]
    /\ UNCHANGED <<site, wanted, pushes>>

EditFails(e) ==
    /\ Faults
    /\ edits[e] # NoEdit
    /\ edits' = [edits EXCEPT ![e] = NoEdit]
    /\ UNCHANGED <<answers, site, wanted, pushes, saved>>

------------------------------------------------------------------------------
(* What each push reads.                                                   *)

Rows(qs) == {[q |-> q, content |-> answers[q].content] : q \in qs}

\* ORDER BY answered_at LIMIT
Oldest(qs) ==
    {q \in qs : Cardinality({p \in qs : answers[p].answered < answers[q].answered}) < Limit}

Starts(p, kind, qs) ==
    /\ pushes[p] = NoPush
    /\ qs # {}
    /\ pushes' = [pushes EXCEPT ![p] =
           [kind |-> kind, at |-> "post", rows |-> Rows(qs), q |-> NoQuestion]]
    /\ UNCHANGED <<answers, site, edits, saved>>

\* wordpress.syncAnswerToWP, and the push of answerFollowUp: both read one
\* answer by its id, whatever the row has become
OneStart(p, trigger) ==
    /\ trigger \in wanted
    /\ wanted' = wanted \ {trigger}
    /\ Starts(p, trigger.kind, {trigger.q})

\* what is not marked, private answers included
Unsynced(q) == IsAnswered(q) /\ ~answers[q].synced

UnsyncedPublic(q) == IsAnswered(q) /\ ~answers[q].synced /\ ~answers[q].private

\* questionSyncService.syncAnswersToWP
SyncStart(p) ==
    /\ Starts(p, "sync", Oldest({q \in Questions : UnsyncedPublic(q)}))
    /\ UNCHANGED wanted

\* runWpSyncRetry
RetryStart(p) ==
    /\ "retry" \in Offered
    /\ Starts(p, "retry", Oldest({q \in Questions : Unsynced(q)}))
    /\ UNCHANGED wanted

\* wordpress.retryFailedSyncs: syncAnswerToWP reads each of the rows anew
ManualRetry ==
    /\ "manual" \in Offered
    /\ wanted' = wanted \union
           {[q |-> q, kind |-> "manual"] : q \in Oldest({q \in Questions : Unsynced(q)})}
    /\ UNCHANGED <<answers, site, pushes, edits, saved>>

\* answerFollowUp: the rabbi's answer to the follow-up is stored, and then
\* pushed together with the answer, private or not
FollowUpAnswered(q) ==
    /\ "followUp" \in Offered
    /\ IsAnswered(q)
    /\ wanted' = wanted \union {[q |-> q, kind |-> "followUp"]}
    /\ UNCHANGED <<answers, site, pushes, edits, saved>>

\* the SELECT fails, or the server restarts before it
TriggerLost(trigger) ==
    /\ Faults
    /\ trigger \in wanted
    /\ wanted' = wanted \ {trigger}
    /\ UNCHANGED <<answers, site, pushes, edits, saved>>

------------------------------------------------------------------------------
(* What each push does with its rows.                                      *)

\* on to the next row, if there is one
NextRow(push) ==
    IF push.rows = {} THEN NoPush
    ELSE [kind |-> push.kind, at |-> "post", rows |-> push.rows, q |-> NoQuestion]

Shows(row) == site' = [site EXCEPT ![row.q] = row.content]

\* WordPress publishes the text and says so; only the follow-up's push leaves
\* wp_synced_at alone
Published(p, row) ==
    /\ Calls(p, row)
    /\ row.q \notin Broken
    /\ Shows(row)
    /\ Moves(p, IF pushes[p].kind = "followUp" THEN NoPush
                ELSE Called(pushes[p], row, "mark"))
    /\ UNCHANGED <<answers, wanted, edits, saved>>

\* the call fails, possibly after WordPress has published the text:
\* syncAnswerToWP clears the mark, a batch leaves the row for its next run
Refused(p, row) ==
    /\ Calls(p, row)
    /\ UNCHANGED site \/ (row.q \notin Broken /\ Shows(row))
    /\ Moves(p, IF pushes[p].kind \in ByIdKinds
                THEN Called(pushes[p], row, "unmark")
                ELSE NextRow(Called(pushes[p], row, "post")))
    /\ UNCHANGED <<answers, wanted, edits, saved>>

Sets(p, at, synced) ==
    /\ pushes[p] # NoPush
    /\ pushes[p].at = at
    /\ answers' = [answers EXCEPT ![pushes[p].q].synced = synced]
    /\ Moves(p, NextRow(pushes[p]))
    /\ UNCHANGED <<site, wanted, edits, saved>>

Mark(p) == Sets(p, "mark", TRUE)

Unmark(p) == Sets(p, "unmark", FALSE)

\* the UPDATE fails: syncAnswerToWP then tries to clear the mark
MarkFails(p) ==
    /\ Faults
    /\ pushes[p] # NoPush
    /\ pushes[p].at = "mark"
    /\ Moves(p, IF pushes[p].kind \in ByIdKinds THEN [pushes[p] EXCEPT !.at = "unmark"]
                ELSE NextRow(pushes[p]))
    /\ UNCHANGED <<answers, site, wanted, edits, saved>>

\* clearing the mark or the retry job's audit row fails, or the server restarts
PushStops(p) ==
    /\ Faults
    /\ pushes[p] # NoPush
    /\ Moves(p, NoPush)
    /\ UNCHANGED <<answers, site, wanted, edits, saved>>

------------------------------------------------------------------------------
Calling(p) ==
    /\ pushes[p] # NoPush
    /\ \E row \in pushes[p].rows : Published(p, row) \/ Refused(p, row)

PushStep(p) ==
    Calling(p) \/ Mark(p) \/ Unmark(p) \/ MarkFails(p) \/ PushStops(p)

PushStart(p) ==
    \/ SyncStart(p) \/ RetryStart(p)
    \/ \E trigger \in wanted : OneStart(p, trigger)

Next ==
    \/ \E q \in Questions :
          \/ \E private \in BOOLEAN : Answer(q, private)
          \/ FollowUpAnswered(q)
          \/ \E e \in Editors : EditRead(e, q)
    \/ \E e \in Editors : EditWrite(e) \/ EditFails(e)
    \/ ManualRetry
    \/ \E trigger \in wanted : TriggerLost(trigger)
    \/ \E p \in Pushes : PushStart(p) \/ PushStep(p)

(***************************************************************************)
(* The job of the two minutes runs again and again, and a push that was    *)
(* begun goes on.  WordPress and the database may fail often, but not for  *)
(* ever: a call, or an UPDATE, that the job tries again and again succeeds *)
(* some time, unless the post itself is gone.  SyncStart needs strong      *)
(* fairness because the slots are a bound of the model: the code always    *)
(* has room for the job.                                                   *)
(***************************************************************************)
Syncing(p) == pushes[p] # NoPush /\ pushes[p].kind = "sync"

CallSucceeds(p, q) ==
    \E row \in pushes[p].rows : row.q = q /\ Published(p, row)

Fairness ==
    /\ SF_vars(\E p \in Pushes : SyncStart(p))
    /\ \A p \in Pushes : WF_vars(PushStep(p))
    /\ \A q \in Questions :
          /\ SF_vars(\E p \in Pushes : Syncing(p) /\ CallSucceeds(p, q))
          /\ SF_vars(\E p \in Pushes : Syncing(p) /\ pushes[p].q = q /\ Mark(p))

Spec == Init /\ [][Next]_vars
FairSpec == Spec /\ Fairness

------------------------------------------------------------------------------
(* What the code guarantees.                                               *)

\* A question marked as synced has its answer on the page.  wp_synced_at is
\* all the jobs go by: were it set without a published text, or were a page
\* ever emptied, no job would look at the question again.
SyncedIsShown ==
    \A q \in Questions : answers[q].synced => site[q] # None

\* The push of a new answer and the job of the two minutes never put a private
\* answer on the page or replace its text there, whatever else is under way:
\* where one gets to the site, a retry or a follow-up has brought it.
PrivateShownByOthers ==
    [][\A q \in Questions :
          answers[q].private /\ site'[q] # site[q]
              => \E p \in Pushes : /\ pushes[p] # NoPush
                                   /\ pushes[p].kind \in {"retry", "manual", "followUp"}
                                   /\ Calling(p)]_vars

\* the present text of an answer and those in content_versions
Texts(q) == (answers[q].versions \union {answers[q].content}) \ {None}

\* A text of an answer is lost only by an edit that overlaps another: one that
\* writes after the text it had read was replaced.  Every other edit keeps all
\* that was there, and nothing but an edit touches the texts.
TextLostToOverlap ==
    [][\A q \in Questions :
          ~(Texts(q) \subseteq Texts(q)')
              => \E e \in Editors : /\ edits[e].q = q
                                    /\ edits[e].content # answers[q].content
                                    /\ EditWrite(e)]_vars

\* A public answer is published in the end and marked, whatever fails on the
\* way, if its post exists and fewer answers than LIMIT wait before it.
PublicAnswerArrives ==
    \A q \in Questions \ Broken :
        IsAnswered(q) /\ ~answers[q].private ~> answers[q].synced

------------------------------------------------------------------------------
(* What its comments say, and the code does not guarantee.                 *)

\* answers.submitAnswer: "Trigger WP sync (fire-and-forget) - skip for private
\* answers": no push shows what the rabbi answered in private.
PrivateStaysOff ==
    \A q \in Questions : answers[q].private => site[q] = None

\* answers.editAnswer: "Pushes the old content to content_versions": every text
\* an answer ever had is the present one or in content_versions.
EveryContentKept ==
    \A q \in Questions : 1 .. saved[q] \subseteq Texts(q)

\* questionService.editAnswer: "Trigger WP sync after edit".
EditArrives ==
    \A q \in Questions :
        IsAnswered(q) /\ ~answers[q].private
            ~> answers[q].content = site[q]
==============================================================================
