----------------------- MODULE QuestionLifecycle_proofs -----------------------
(***************************************************************************)
(* Proofs about QuestionLifecycle, for any rabbis, questions, slots and    *)
(* timeout.                                                                *)
(***************************************************************************)
EXTENDS QuestionLifecycle, TLAPS

(***************************************************************************)
(* Every action writes one row or all of them; these lemmas say what the   *)
(* shared statements keep, so that a step's proof needs only the row.      *)
(***************************************************************************)

\* Each UPDATE of QuestionStore makes a row of a row.
LEMMA ReleasedType ==
    ASSUME NEW row \in QuestionRow PROVE Released(row) \in QuestionRow
BY DEF QuestionRow, Released, Statuses

\* A warning keeps the row a row.
LEMMA WarnedType ==
    ASSUME NEW row \in QuestionRow
    PROVE  [row EXCEPT !.warned = TRUE] \in QuestionRow
BY DEF QuestionRow

\* And so do the statements that name a rabbi.
LEMMA RowsAreRows ==
    ASSUME NEW row \in QuestionRow, NEW r \in Rabbis
    PROVE  /\ Claimed(row, r) \in QuestionRow
           /\ HandedTo(row, r) \in QuestionRow
           /\ [row EXCEPT !.owner = r] \in QuestionRow
<1>1. 0 \in Hours
  BY StoreAssumption DEF Hours
<1>2. Claimed(row, r) \in QuestionRow
  BY <1>1 DEF QuestionRow, Claimed, Statuses
<1>3. HandedTo(row, r) \in QuestionRow
  BY <1>1 DEF QuestionRow, HandedTo
<1>4. [row EXCEPT !.owner = r] \in QuestionRow
  BY DEF QuestionRow
<1>5. QED
  BY <1>2, <1>3, <1>4

\* An hour more stays within the ages told apart, and keeps their order.
LEMMA OlderType ==
    ASSUME NEW h \in Hours
    PROVE  /\ Older(h) \in Hours
           /\ h <= Older(h)
           /\ \A k \in Hours : h <= k => Older(h) <= Older(k)
BY StoreAssumption DEF Older, Hours

\* An age is never mistaken for NULL.
LEMMA OlderLock == ASSUME NEW h \in Hours PROVE Older(h) # NoLock
BY StoreAssumption DEF Older, Hours, NoLock

\* TrackOwners keeps the type of the history.
LEMMA HistoryType ==
    ASSUME StoreTypeOK, TrackOwners
    PROVE  /\ held' \in [Questions -> Hours]
           /\ told' \in [Questions -> BOOLEAN]
BY StoreAssumption DEF StoreTypeOK, TrackOwners, Hours, OwnerChanges

\* When no row changes, no tenure does.
LEMMA QuietHistory ==
    ASSUME TypeOK, TrackOwners, UNCHANGED questions
    PROVE  UNCHANGED held
BY DEF TypeOK, StoreTypeOK, TrackOwners, OwnerChanges

\* A statement that writes one row with a row, and keeps answers.
LEMMA WriteType ==
    ASSUME StoreTypeOK, NEW q \in Questions, NEW row \in QuestionRow,
           Write(q, row), UpdatesQuestions
    PROVE  StoreTypeOK'
BY HistoryType DEF StoreTypeOK, Write, UpdatesQuestions

\* The middleware, a check or a write finds in an open slot a request.
LEMMA OpenSlot ==
    ASSUME TypeOK, NEW s \in Slots, requests[s] # NoRequest
    PROVE  /\ requests[s] \in Request
           /\ requests[s].by \in Rabbis
           /\ requests[s].q \in Questions
           /\ requests[s].op = "transfer" => requests[s].to \in Rabbis
BY DEF TypeOK, Request, Operations

\* Moving a request to another pc, or closing it, leaves the slots typed.
LEMMA SlotType ==
    ASSUME TypeOK, NEW s \in Slots
    PROVE  /\ Ends(s) => requests' \in [Slots -> Request \union {NoRequest}]
           /\ \A pc \in {"selfHeal", "reread", "check", "write", "autoClaim"} :
                 requests[s] # NoRequest /\ MovesTo(s, pc)
                    => requests' \in [Slots -> Request \union {NoRequest}]
BY OpenSlot DEF TypeOK, Ends, MovesTo, Request

\* Opening a request of the right shape keeps the slots typed.
LEMMA OpensType ==
    ASSUME TypeOK, NEW s \in Slots, NEW req \in Request, Opens(s, req)
    PROVE  requests' \in [Slots -> Request \union {NoRequest}]
BY DEF TypeOK, Opens

\* What a job reports of rows that exist is typed.
LEMMA ReportType ==
    ASSUME StoreTypeOK, NEW qs \in SUBSET Questions
    PROVE  Report(qs) \in SUBSET ReportRow
BY DEF Report, ReportRow, StoreTypeOK, QuestionRow

\* Publishing an answer keeps the tables typed.
LEMMA PublishType ==
    ASSUME TypeOK, NEW s \in Slots, requests[s] # NoRequest,
           NEW row \in QuestionRow, Publish(s, row), TrackOwners
    PROVE  StoreTypeOK'
<1>1. Answered(row) \in QuestionRow
  BY DEF QuestionRow, Answered, Statuses
<1>2. requests[s].q \in Questions /\ requests[s].by \in Rabbis
  BY OpenSlot
<1>3. StoreTypeOK
  BY DEF TypeOK
<1>4. questions' \in [Questions -> QuestionRow]
  BY <1>1, <1>2, <1>3 DEF Publish, Write, StoreTypeOK
<1>5. answers' \in [Questions -> Rabbis \union {NoRabbi}]
  BY <1>2, <1>3 DEF Publish, StoreTypeOK
<1>6. QED
  BY <1>3, <1>4, <1>5, HistoryType DEF StoreTypeOK

------------------------------------------------------------------------------
\* The desk starts with no request and no run of a job.
LEMMA TypeInit == Init => TypeOK
<1>1. 0 \in Hours
  BY StoreAssumption DEF Hours
<1>2. NewQuestion \in QuestionRow
  BY DEF NewQuestion, QuestionRow, Statuses
<1>3. QED
  BY <1>1, <1>2 DEF Init, StoreInit, TypeOK, StoreTypeOK, NoEviction, NoWarning

\* Every step of a rabbi, a request, a job or the clock keeps the types.
LEMMA TypeStep == TypeOK /\ [Next]_vars => TypeOK'
<1> SUFFICES ASSUME TypeOK, [Next]_vars PROVE TypeOK'
  OBVIOUS
<1>0. StoreTypeOK
  BY DEF TypeOK
<1>row. \A q \in Questions : questions[q] \in QuestionRow
  BY <1>0 DEF StoreTypeOK
<1>1. CASE UNCHANGED vars
  BY <1>1 DEF vars, store, TypeOK, StoreTypeOK
<1>2. ASSUME NEW r \in Rabbis, NEW q \in Questions, Claim(r, q) PROVE TypeOK'
  <2>1. Claimed(questions[q], r) \in QuestionRow
    BY <1>row, RowsAreRows
  <2>2. StoreTypeOK'
    BY <1>0, <1>2, <2>1, WriteType DEF Claim
  <2>3. QED
    BY <1>2, <2>2 DEF Claim, jobs, TypeOK
<1>3. ASSUME NEW r \in Rabbis, NEW q \in Questions, NEW s \in Slots,
             ReleaseCheck(s, r, q)
      PROVE  TypeOK'
  <2>1. [pc |-> "write", op |-> "release", by |-> r, q |-> q, to |-> NoRabbi]
          \in Request
    BY DEF Request, Operations
  <2>2. requests' \in [Slots -> Request \union {NoRequest}]
    BY <1>3, <2>1, OpensType DEF ReleaseCheck
  <2>3. QED
    BY <1>3, <2>2 DEF ReleaseCheck, jobs, store, TypeOK, StoreTypeOK
<1>4. ASSUME NEW r \in Rabbis, NEW q \in Questions, NEW s \in Slots,
             NEW op \in Operations, NEW to \in Rabbis \union {NoRabbi},
             op = "transfer" => to \in Rabbis,
             op # "transfer" => to = NoRabbi,
             Gate(s, r, q, op, to)
      PROVE  TypeOK'
  <2>1. GateDecision(r, q) \in {"check", "selfHeal"}
    BY <1>4 DEF Gate, GateDecision
  <2>2. [pc |-> GateDecision(r, q), op |-> op, by |-> r, q |-> q, to |-> to]
          \in Request
    BY <1>4, <2>1 DEF Request
  <2>3. requests' \in [Slots -> Request \union {NoRequest}]
    BY <1>4, <2>2, OpensType DEF Gate
  <2>4. QED
    BY <1>4, <2>3 DEF Gate, jobs, store, TypeOK, StoreTypeOK
<1>5. ASSUME NEW s \in Slots, RequestStep(s) PROVE TypeOK'
  <2>1. CASE ReleaseWrite(s)
    <3>1. requests[s].q \in Questions
      BY <2>1, OpenSlot DEF ReleaseWrite, At
    <3>2. StoreTypeOK'
      BY <1>0, <1>row, <2>1, <3>1, WriteType, ReleasedType DEF ReleaseWrite
    <3>3. QED
      BY <2>1, <3>2, SlotType DEF ReleaseWrite, jobs, TypeOK
  <2>2. CASE SelfHeal(s)
    <3>1. requests[s] # NoRequest
      BY <2>2 DEF SelfHeal, NoRequest
    <3>2. requests[s].q \in Questions /\ requests[s].by \in Rabbis
      BY <3>1, OpenSlot
    <3>3. Claimed(questions[requests[s].q], requests[s].by) \in QuestionRow
      BY <1>row, <3>2, RowsAreRows
    <3>4. questions' \in [Questions -> QuestionRow]
      BY <1>0, <2>2, <3>2, <3>3 DEF SelfHeal, Write, StoreTypeOK
    <3>5. StoreTypeOK'
      BY <1>0, <2>2, <3>4, HistoryType DEF SelfHeal, UpdatesQuestions, StoreTypeOK
    <3>6. requests' \in [Slots -> Request \union {NoRequest}]
      BY <2>2, <3>1, SlotType DEF SelfHeal
    <3>7. QED
      BY <2>2, <3>5, <3>6 DEF SelfHeal, jobs, TypeOK
  <2>3. CASE Reread(s)
    <3>1. requests[s] # NoRequest
      BY <2>3 DEF Reread, NoRequest
    <3>2. requests' \in [Slots -> Request \union {NoRequest}]
      BY <2>3, <3>1, SlotType DEF Reread
    <3>3. QED
      BY <2>3, <3>2 DEF Reread, jobs, store, TypeOK, StoreTypeOK
  <2>4. CASE TransferCheck(s)
    <3>1. requests' \in [Slots -> Request \union {NoRequest}]
      BY <2>4, SlotType DEF TransferCheck, At
    <3>2. QED
      BY <2>4, <3>1 DEF TransferCheck, jobs, store, TypeOK, StoreTypeOK
  <2>5. CASE TransferWrite(s)
    <3>1. requests[s].q \in Questions /\ requests[s].to \in Rabbis
      BY <2>5, OpenSlot DEF TransferWrite, At
    <3>2. HandedTo(questions[requests[s].q], requests[s].to) \in QuestionRow
      BY <1>row, <3>1, RowsAreRows
    <3>3. StoreTypeOK'
      BY <1>0, <2>5, <3>1, <3>2, WriteType DEF TransferWrite
    <3>4. QED
      BY <2>5, <3>3, SlotType DEF TransferWrite, jobs, TypeOK
  <2>6. CASE AnswerCheck(s)
    <3>1. requests' \in [Slots -> Request \union {NoRequest}]
      BY <2>6, SlotType DEF AnswerCheck, At
    <3>2. QED
      BY <2>6, <3>1 DEF AnswerCheck, jobs, store, TypeOK, StoreTypeOK
  <2>7. CASE AnswerWrite(s)
    <3>1. requests[s] # NoRequest
      BY <2>7 DEF AnswerWrite, At
    <3>2. questions[requests[s].q] \in QuestionRow
      BY <1>row, <3>1, OpenSlot
    <3>3. StoreTypeOK'
      BY <2>7, <3>1, <3>2, PublishType DEF AnswerWrite
    <3>4. QED
      BY <2>7, <3>3, SlotType DEF AnswerWrite, jobs, TypeOK
  <2>8. CASE AnswerAutoClaim(s)
    <3>1. requests[s] # NoRequest
      BY <2>8 DEF AnswerAutoClaim, At
    <3>2. [questions[requests[s].q] EXCEPT !.owner = requests[s].by] \in QuestionRow
      BY <1>row, <3>1, OpenSlot, RowsAreRows
    <3>3. StoreTypeOK'
      <4>1. CASE Publish(s, [questions[requests[s].q] EXCEPT !.owner = requests[s].by])
        BY <2>8, <3>1, <3>2, <4>1, PublishType DEF AnswerAutoClaim
      <4>2. CASE UNCHANGED <<answers, questions>>
        BY <1>0, <2>8, <4>2, HistoryType DEF AnswerAutoClaim, StoreTypeOK
      <4>3. QED
        BY <2>8, <4>1, <4>2 DEF AnswerAutoClaim
    <3>4. QED
      BY <2>8, <3>3, SlotType DEF AnswerAutoClaim, jobs, TypeOK
  <2>9. CASE Draft(s)
    BY <2>9, SlotType DEF Draft, jobs, store, TypeOK, StoreTypeOK
  <2>10. CASE RequestFails(s)
    BY <2>10, SlotType DEF RequestFails, jobs, store, TypeOK, StoreTypeOK
  <2>11. QED
    BY <1>5, <2>1, <2>2, <2>3, <2>4, <2>5, <2>6, <2>7, <2>8, <2>9, <2>10
       DEF RequestStep
<1>6. CASE JobStep
  <2>1. CASE TimeoutStart
    <3>1. questions' \in [Questions -> QuestionRow]
      BY <1>row, <2>1, ReleasedType DEF TimeoutStart
    <3>2. StoreTypeOK'
      BY <1>0, <2>1, <3>1, HistoryType DEF TimeoutStart, UpdatesQuestions, StoreTypeOK
    <3>3. Report(Expired) \in SUBSET ReportRow
      BY <1>0, ReportType DEF Expired
    <3>4. QED
      BY <2>1, <3>2, <3>3 DEF TimeoutStart, TypeOK
  <2>2. CASE TimeoutAudit
    BY <2>2 DEF TimeoutAudit, store, TypeOK, StoreTypeOK
  <2>3. CASE WarningStart
    <3>1. Report(InLastHour) \in SUBSET ReportRow
      BY <1>0, ReportType DEF InLastHour
    <3>2. QED
      BY <2>3, <3>1 DEF WarningStart, store, TypeOK, StoreTypeOK
  <2>4. CASE JobFails
    <3>1. StoreTypeOK' /\ requests' = requests /\ due' = due
      BY <1>0, <2>4 DEF JobFails, store, StoreTypeOK
    <3>2. timeoutJob' \in [audited : BOOLEAN, rows : SUBSET ReportRow]
      <4>1. NoEviction \in [audited : BOOLEAN, rows : SUBSET ReportRow]
        BY DEF NoEviction
      <4>2. timeoutJob' \in {timeoutJob, NoEviction}
        BY <2>4 DEF JobFails
      <4>3. QED
        BY <4>1, <4>2 DEF TypeOK
    <3>3. warningJob' \in [todo : SUBSET ReportRow, marked : SUBSET ReportRow]
      BY <2>4 DEF JobFails, NoWarning, TypeOK
    <3>4. QED
      BY <3>1, <3>2, <3>3 DEF TypeOK
  <2>5. ASSUME NEW row \in timeoutJob.rows, TimeoutNotify(row) PROVE TypeOK'
    BY <2>5 DEF TimeoutNotify, store, TypeOK, StoreTypeOK
  <2>6. ASSUME NEW row \in warningJob.todo, WarningMark(row) PROVE TypeOK'
    <3>1. row \in ReportRow /\ row.q \in Questions
      BY DEF TypeOK, ReportRow
    <3>2. StoreTypeOK'
      BY <1>0, <1>row, <2>6, <3>1, WarnedType, WriteType DEF WarningMark
    <3>3. QED
      BY <2>6, <3>1, <3>2 DEF WarningMark, TypeOK
  <2>7. ASSUME NEW row \in warningJob.marked, WarningNotify(row) PROVE TypeOK'
    <3>1. row.q \in Questions
      BY DEF TypeOK, ReportRow
    <3>2. told' \in [Questions -> BOOLEAN]
      BY <1>0, <2>7, <3>1 DEF WarningNotify, StoreTypeOK
    <3>3. QED
      BY <2>7, <3>2 DEF WarningNotify, TypeOK, StoreTypeOK
  <2>8. QED
    BY <1>6, <2>1, <2>2, <2>3, <2>4, <2>5, <2>6, <2>7 DEF JobStep
<1>7. CASE HourPasses
  <2>1. questions' \in [Questions -> QuestionRow]
    <3>1. \A q \in Questions : questions[q].lock # NoLock =>
            [questions[q] EXCEPT !.lock = Older(@)] \in QuestionRow
      BY <1>row, OlderType DEF QuestionRow
    <3>2. QED
      BY <1>row, <1>7, <3>1 DEF HourPasses, AgeLocks
  <2>2. held' \in [Questions -> Hours]
    BY <1>0, <1>7, OlderType DEF HourPasses, AgeLocks, StoreTypeOK
  <2>3. QED
    BY <1>0, <1>7, <2>1, <2>2 DEF HourPasses, AgeLocks, TypeOK, StoreTypeOK
<1>8. QED
  <2>1. CASE RabbiStep
    <3>1. PICK r \in Rabbis, q \in Questions :
            \/ Claim(r, q)
            \/ \E s \in Slots :
                  \/ ReleaseCheck(s, r, q)
                  \/ Gate(s, r, q, "answer", NoRabbi)
                  \/ Gate(s, r, q, "draft", NoRabbi)
                  \/ \E to \in Rabbis \ {r} : Gate(s, r, q, "transfer", to)
      BY <2>1 DEF RabbiStep
    <3>2. ASSUME NEW s \in Slots,
                 \/ Gate(s, r, q, "answer", NoRabbi)
                 \/ Gate(s, r, q, "draft", NoRabbi)
                 \/ \E to \in Rabbis : Gate(s, r, q, "transfer", to)
          PROVE  TypeOK'
      <4>1. {"answer", "draft", "transfer"} \subseteq Operations
        BY DEF Operations
      <4>2. CASE Gate(s, r, q, "answer", NoRabbi)
        BY <4>1, <4>2, <1>4
      <4>3. CASE Gate(s, r, q, "draft", NoRabbi)
        BY <4>1, <4>3, <1>4
      <4>4. CASE \E to \in Rabbis : Gate(s, r, q, "transfer", to)
        <5>1. PICK to \in Rabbis : Gate(s, r, q, "transfer", to)
          BY <4>4
        <5>2. QED
          BY <4>1, <5>1, <1>4
      <4>5. QED
        BY <3>2, <4>2, <4>3, <4>4
    <3>3. QED
      BY <3>1, <3>2, <1>2, <1>3
  <2>2. QED
    BY <1>1, <1>5, <1>6, <1>7, <2>1 DEF Next

\* Every reachable state has the declared types.
THEOREM TypeCorrect == Spec => []TypeOK
BY TypeInit, TypeStep, PTL DEF Spec

------------------------------------------------------------------------------
(***************************************************************************)
(* The eight things a step can do to the tables.  Everything below is      *)
(* proved once per kind of write instead of once per action.               *)
(***************************************************************************)
Takes(q, r) ==
    /\ questions[q].status = "pending"
    /\ Write(q, Claimed(questions[q], r))
    /\ UpdatesQuestions

Releases(q) ==
    /\ Releasing(q)
    /\ Write(q, Released(questions[q]))
    /\ UpdatesQuestions

Hands(q, r) ==
    /\ HandingOver(q, r)
    /\ Write(q, HandedTo(questions[q], r))
    /\ UpdatesQuestions

Publishes(q, r) ==
    /\ answers[q] = NoRabbi
    /\ answers' = [answers EXCEPT ![q] = r]
    /\ \/ Write(q, Answered(questions[q]))
       \/ /\ IsFree(questions[q])
          /\ Write(q, Answered([questions[q] EXCEPT !.owner = r]))
    /\ TrackOwners

Warns(q) ==
    /\ Write(q, [questions[q] EXCEPT !.warned = TRUE])
    /\ UpdatesQuestions

WriteStep ==
    \/ UNCHANGED <<questions, answers, held>>
    \/ \E q \in Questions, r \in Rabbis : Takes(q, r)
    \/ \E q \in Questions : Releases(q)
    \/ \E q \in Questions, r \in Rabbis : Hands(q, r)
    \/ \E q \in Questions, r \in Rabbis : Publishes(q, r)
    \/ \E q \in Questions : Warns(q)
    \/ TimeoutStart

TableStep == WriteStep \/ AgeLocks

\* Publish, on whatever version of the row, publishes or changes nothing.
LEMMA PublishKinds ==
    ASSUME TypeOK, NEW s \in Slots, requests[s] # NoRequest, TrackOwners,
           \/ Publish(s, questions[requests[s].q])
           \/ /\ IsFree(questions[requests[s].q])
              /\ Publish(s, [questions[requests[s].q] EXCEPT !.owner = requests[s].by])
    PROVE  WriteStep
<1>1. requests[s].q \in Questions /\ requests[s].by \in Rabbis
  BY OpenSlot
<1>2. CASE UNCHANGED <<answers, questions>>
  BY <1>2, QuietHistory DEF WriteStep
<1>3. CASE Publishes(requests[s].q, requests[s].by)
  BY <1>1, <1>3 DEF WriteStep
<1>4. QED
  <2>1. CASE Publish(s, questions[requests[s].q])
    BY <1>2, <1>3, <2>1 DEF Publish, Publishes
  <2>2. CASE /\ IsFree(questions[requests[s].q])
             /\ Publish(s, [questions[requests[s].q] EXCEPT !.owner = requests[s].by])
    BY <1>2, <1>3, <2>2 DEF Publish, Publishes
  <2>3. QED
    BY <2>1, <2>2

\* Every step but that of the clock is one of these writes.
LEMMA WriteKinds == TypeOK /\ [Next]_vars => HourPasses \/ WriteStep
<1> SUFFICES ASSUME TypeOK, [Next]_vars, ~HourPasses PROVE WriteStep
  OBVIOUS
<1>1. CASE UNCHANGED vars
  BY <1>1 DEF vars, store, WriteStep
<1>2. CASE RabbiStep
  <2>1. PICK r \in Rabbis, q \in Questions :
          \/ Claim(r, q)
          \/ UNCHANGED <<questions, answers, held>>
    BY <1>2 DEF RabbiStep, ReleaseCheck, Gate, store
  <2>2. CASE Claim(r, q)
    <3>1. Takes(q, r)
      BY <2>2 DEF Claim, Takes
    <3>2. QED
      BY <3>1 DEF WriteStep
  <2>3. QED
    BY <2>1, <2>2 DEF WriteStep
<1>3. ASSUME NEW s \in Slots, RequestStep(s) PROVE WriteStep
  <2>1. CASE ReleaseWrite(s)
    <3>1. Releases(requests[s].q) /\ requests[s].q \in Questions
      BY <2>1, OpenSlot DEF ReleaseWrite, Releases, Releasing, At
    <3>2. QED
      BY <3>1 DEF WriteStep
  <2>2. CASE SelfHeal(s)
    <3>1. requests[s].q \in Questions /\ requests[s].by \in Rabbis
      BY <2>2, OpenSlot DEF SelfHeal, NoRequest
    <3>2. CASE Takes(requests[s].q, requests[s].by)
      BY <3>1, <3>2 DEF WriteStep
    <3>3. CASE UNCHANGED questions
      BY <2>2, <3>3, QuietHistory DEF SelfHeal, UpdatesQuestions, WriteStep
    <3>4. QED
      BY <2>2, <3>2, <3>3 DEF SelfHeal, IsFree, Takes
  <2>3. CASE TransferWrite(s)
    <3>1. /\ requests[s].q \in Questions
          /\ requests[s].to \in Rabbis
          /\ Hands(requests[s].q, requests[s].to)
      BY <2>3, OpenSlot DEF TransferWrite, Hands, HandingOver, At
    <3>2. QED
      BY <3>1 DEF WriteStep
  <2>4. CASE AnswerWrite(s)
    BY <2>4, PublishKinds DEF AnswerWrite, At
  <2>5. CASE AnswerAutoClaim(s)
    <3>1. CASE UNCHANGED <<answers, questions>>
      BY <2>5, <3>1, QuietHistory DEF AnswerAutoClaim, WriteStep
    <3>2. QED
      BY <2>5, <3>1, PublishKinds DEF AnswerAutoClaim, At
  <2>6. CASE Reread(s) \/ TransferCheck(s) \/ AnswerCheck(s) \/ Draft(s)
                \/ RequestFails(s)
    BY <2>6 DEF Reread, TransferCheck, AnswerCheck, Draft, RequestFails,
                store, WriteStep
  <2>7. QED
    BY <1>3, <2>1, <2>2, <2>3, <2>4, <2>5, <2>6 DEF RequestStep
<1>4. CASE JobStep
  <2>1. CASE \E row \in warningJob.todo : WarningMark(row)
    <3>1. PICK row \in warningJob.todo : WarningMark(row)
      BY <2>1
    <3>2. row.q \in Questions /\ Warns(row.q)
      BY <3>1 DEF WarningMark, Warns, TypeOK, ReportRow
    <3>3. QED
      BY <3>2 DEF WriteStep
  <2>2. QED
    BY <1>4, <2>1 DEF JobStep, TimeoutAudit, WarningStart, JobFails,
                      TimeoutNotify, WarningNotify, store, WriteStep
<1>5. QED
  BY <1>1, <1>2, <1>3, <1>4 DEF Next

\* And so every step is of one of the eight kinds.
LEMMA StepKinds == TypeOK /\ [Next]_vars => TableStep
BY WriteKinds DEF TableStep, HourPasses

------------------------------------------------------------------------------
(***************************************************************************)
(* The invariant.  Each conjunct is kept by each kind of write; only the   *)
(* last, about the job's report, needs another one, InProcessIsLocked.     *)
(***************************************************************************)
TableInv == InProcessIsLocked /\ LockWithinTenure /\ AnsweredIsAuthored

IInv == TypeOK /\ TableInv /\ EvictionNamesOwner

\* What each kind of write does to the row q, and that it leaves the others.
LEMMA WriteRows ==
    ASSUME StoreTypeOK, NEW q \in Questions, NEW row, Write(q, row)
    PROVE  /\ questions'[q] = row
           /\ \A p \in Questions \ {q} : questions'[p] = questions[p]
BY DEF StoreTypeOK, Write

\* A rabbi's tenure runs on exactly while the owner stays the same.
LEMMA TenureRows ==
    ASSUME TrackOwners, NEW q \in Questions
    PROVE  held'[q] = IF questions'[q].owner # questions[q].owner THEN 0 ELSE held[q]
BY DEF TrackOwners, OwnerChanges

\* Every kind of write keeps the invariant of the tables.
LEMMA TableInvStep == TypeOK /\ TypeOK' /\ TableInv /\ TableStep => TableInv'
<1> SUFFICES ASSUME TypeOK, TypeOK', TableInv, TableStep,
                    NEW p \in Questions
             PROVE  /\ questions'[p].status = "in_process" =>
                          /\ questions'[p].owner # NoRabbi
                          /\ questions'[p].lock # NoLock
                          /\ questions'[p].lock <= held'[p]
                    /\ questions'[p].status = "answered" => answers'[p] # NoRabbi
  BY DEF TableInv, InProcessIsLocked, LockWithinTenure, AnsweredIsAuthored
<1>0. /\ StoreTypeOK
      /\ questions[p] \in QuestionRow
      /\ held[p] \in Hours /\ held'[p] \in Hours
  BY DEF TypeOK, StoreTypeOK
<1>inv. /\ questions[p].status = "in_process" =>
              /\ questions[p].owner # NoRabbi
              /\ questions[p].lock # NoLock
              /\ questions[p].lock <= held[p]
        /\ questions[p].status = "answered" => answers[p] # NoRabbi
  BY DEF TableInv, InProcessIsLocked, LockWithinTenure, AnsweredIsAuthored
<1>nat. \A h \in Hours : 0 <= h /\ NoLock <= h /\ 0 # NoLock
  BY StoreAssumption DEF Hours, NoLock
<1>1. CASE UNCHANGED <<questions, answers, held>>
  BY <1>1, <1>inv
<1>2. ASSUME NEW q \in Questions, NEW r \in Rabbis, Takes(q, r) \/ Hands(q, r)
      PROVE  /\ questions'[p].status = "in_process" =>
                   /\ questions'[p].owner # NoRabbi
                   /\ questions'[p].lock # NoLock
                   /\ questions'[p].lock <= held'[p]
             /\ questions'[p].status = "answered" => answers'[p] # NoRabbi
  <2>1. /\ answers' = answers
        /\ held'[p] = IF questions'[p].owner # questions[p].owner THEN 0 ELSE held[p]
    BY <1>2, TenureRows DEF Takes, Hands, UpdatesQuestions
  <2>2. CASE p # q
    BY <1>0, <1>2, <1>inv, <2>1, <2>2, WriteRows DEF Takes, Hands
  <2>3. CASE p = q
    <3>1. /\ questions'[p].owner = r
          /\ questions'[p].lock = 0
          /\ questions'[p].status = "answered" => questions[p].status = "answered"
      <4>1. CASE questions'[p] = Claimed(questions[p], r)
        BY <1>0, <4>1 DEF Claimed, QuestionRow
      <4>2. CASE questions'[p] = HandedTo(questions[p], r)
        BY <1>0, <4>2 DEF HandedTo, QuestionRow
      <4>3. QED
        BY <1>0, <1>2, <2>3, <4>1, <4>2, WriteRows DEF Takes, Hands
    <3>2. QED
      <4>1. 0 <= held'[p] /\ 0 # NoLock
        BY <1>0, <1>nat
      <4>2. r # NoRabbi
        BY StoreAssumption
      <4>3. QED
        BY <1>inv, <2>1, <3>1, <4>1, <4>2
  <2>4. QED
    BY <2>2, <2>3
<1>3. ASSUME NEW q \in Questions, Releases(q) \/ Warns(q)
      PROVE  /\ questions'[p].status = "in_process" =>
                   /\ questions'[p].owner # NoRabbi
                   /\ questions'[p].lock # NoLock
                   /\ questions'[p].lock <= held'[p]
             /\ questions'[p].status = "answered" => answers'[p] # NoRabbi
  <2>1. /\ answers' = answers
        /\ held'[p] = IF questions'[p].owner # questions[p].owner THEN 0 ELSE held[p]
    BY <1>3, TenureRows DEF Releases, Warns, UpdatesQuestions
  <2>2. \/ questions'[p] = questions[p]
        \/ questions'[p] = Released(questions[p])
        \/ questions'[p] = [questions[p] EXCEPT !.warned = TRUE]
    BY <1>0, <1>3, WriteRows DEF Releases, Warns
  <2>3. \/ questions'[p].status = "pending"
        \/ /\ questions'[p].status = questions[p].status
           /\ questions'[p].owner = questions[p].owner
           /\ questions'[p].lock = questions[p].lock
    BY <1>0, <2>2 DEF Released, QuestionRow
  <2>4. QED
    BY <1>inv, <2>1, <2>3
<1>4. ASSUME NEW q \in Questions, NEW r \in Rabbis, Publishes(q, r)
      PROVE  /\ questions'[p].status = "in_process" =>
                   /\ questions'[p].owner # NoRabbi
                   /\ questions'[p].lock # NoLock
                   /\ questions'[p].lock <= held'[p]
             /\ questions'[p].status = "answered" => answers'[p] # NoRabbi
  <2>1. CASE p # q
    <3>1. questions'[p] = questions[p] /\ answers'[p] = answers[p]
      BY <1>0, <1>4, <2>1, WriteRows DEF Publishes, StoreTypeOK
    <3>2. held'[p] = held[p]
      BY <1>4, <3>1, TenureRows DEF Publishes
    <3>3. QED
      BY <1>inv, <3>1, <3>2
  <2>2. CASE p = q
    <3>1. questions'[p].status = "answered"
      <4>1. CASE questions'[p] = Answered(questions[p])
        BY <1>0, <4>1 DEF Answered, QuestionRow
      <4>2. CASE questions'[p] = Answered([questions[p] EXCEPT !.owner = r])
        BY <1>0, <4>2 DEF Answered, QuestionRow
      <4>3. QED
        BY <1>0, <1>4, <2>2, <4>1, <4>2, WriteRows DEF Publishes
    <3>2. answers'[p] = r
      BY <1>0, <1>4, <2>2 DEF Publishes, StoreTypeOK
    <3>3. QED
      BY <3>1, <3>2, StoreAssumption
  <2>3. QED
    BY <2>1, <2>2
<1>5. CASE TimeoutStart
  <2>1. /\ answers' = answers
        /\ held'[p] = IF questions'[p].owner # questions[p].owner THEN 0 ELSE held[p]
        /\ questions'[p] \in {questions[p], Released(questions[p])}
    BY <1>5, TenureRows DEF TimeoutStart, UpdatesQuestions
  <2>2. questions'[p] = questions[p] \/ questions'[p].status = "pending"
    BY <1>0, <2>1 DEF Released, QuestionRow
  <2>3. QED
    BY <1>inv, <2>1, <2>2
<1>6. CASE AgeLocks
  <2>1. answers' = answers /\ held'[p] = Older(held[p])
    BY <1>6 DEF AgeLocks
  <2>2. /\ questions'[p].status = questions[p].status
        /\ questions'[p].owner = questions[p].owner
        /\ questions[p].lock # NoLock => questions'[p].lock = Older(questions[p].lock)
    BY <1>0, <1>6 DEF AgeLocks, QuestionRow
  <2>3. questions[p].lock # NoLock => questions[p].lock \in Hours
    BY <1>0 DEF QuestionRow
  <2>4. ASSUME questions[p].status = "in_process"
        PROVE  questions'[p].lock # NoLock /\ questions'[p].lock <= held'[p]
    BY <1>0, <1>inv, <1>nat, <2>1, <2>2, <2>3, <2>4, OlderType, OlderLock
  <2>5. QED
    BY <1>inv, <2>1, <2>2, <2>4
<1>7. QED
  BY <1>1, <1>2, <1>3, <1>4, <1>5, <1>6 DEF TableStep, WriteStep

\* The rows a job remembers keep naming an owner: it reads them of questions
\* in process, which have one.
LEMMA EvictionStep ==
    TypeOK /\ InProcessIsLocked /\ EvictionNamesOwner /\ [Next]_vars
        => EvictionNamesOwner'
<1> SUFFICES ASSUME TypeOK, InProcessIsLocked, EvictionNamesOwner, [Next]_vars
             PROVE  EvictionNamesOwner'
  OBVIOUS
<1>1. CASE TimeoutStart
  <2>1. \A q \in Expired : questions[q].owner # NoRabbi
    BY DEF InProcessIsLocked, Expired
  <2>2. QED
    BY <1>1, <2>1 DEF TimeoutStart, Report, EvictionNamesOwner
<1>2. CASE timeoutJob'.rows \subseteq timeoutJob.rows
  BY <1>2 DEF EvictionNamesOwner
<1>3. QED
  <2>1. CASE RabbiStep \/ HourPasses \/ UNCHANGED vars
    BY <2>1, <1>2 DEF RabbiStep, Claim, ReleaseCheck, Gate, HourPasses, jobs, vars
  <2>2. ASSUME NEW s \in Slots, RequestStep(s)
        PROVE  timeoutJob'.rows \subseteq timeoutJob.rows
    BY <2>2 DEF RequestStep, ReleaseWrite, SelfHeal, Reread, TransferCheck,
                TransferWrite, AnswerCheck, AnswerWrite, AnswerAutoClaim, Draft,
                RequestFails, jobs
  <2>3. CASE JobStep
    <3>1. CASE \E row \in timeoutJob.rows : TimeoutNotify(row)
      BY <3>1, <1>2 DEF TimeoutNotify
    <3>2. CASE TimeoutAudit
      BY <3>2, <1>2 DEF TimeoutAudit, TypeOK
    <3>3. CASE JobFails
      BY <3>3, <1>2 DEF JobFails, NoEviction
    <3>4. QED
      BY <2>3, <1>1, <1>2, <3>1, <3>2, <3>3
         DEF JobStep, WarningStart, WarningMark, WarningNotify
  <2>4. QED
    BY <1>2, <2>1, <2>2, <2>3 DEF Next

\* The invariant holds at first and is kept by every step.
LEMMA IInvInit == Init => IInv
<1> SUFFICES ASSUME Init PROVE IInv
  OBVIOUS
<1>1. \A q \in Questions : questions[q].status = "pending"
  BY DEF Init, StoreInit, NewQuestion
<1>2. TableInv
  BY <1>1 DEF TableInv, InProcessIsLocked, LockWithinTenure, AnsweredIsAuthored
<1>3. EvictionNamesOwner
  BY DEF Init, NoEviction, EvictionNamesOwner
<1>4. QED
  BY <1>2, <1>3, TypeInit DEF IInv

\* Every step keeps the invariant.
LEMMA IInvStep == IInv /\ [Next]_vars => IInv'
<1> SUFFICES ASSUME IInv, [Next]_vars PROVE IInv'
  OBVIOUS
<1>1. TypeOK'
  BY TypeStep DEF IInv
<1>2. TableInv'
  BY <1>1, StepKinds, TableInvStep DEF IInv
<1>3. EvictionNamesOwner'
  BY EvictionStep DEF IInv, TableInv
<1>4. QED
  BY <1>1, <1>2, <1>3 DEF IInv

\* The invariant holds for ever.
LEMMA IInvHolds == Spec => []IInv
BY IInvInit, IInvStep, PTL DEF Spec

\* No question is in process without an owner and a lock, in any instance:
\* none can be lost to both the desk and the timeout job.
THEOREM InProcessAlwaysLocked == Spec => []InProcessIsLocked
<1>1. IInv => InProcessIsLocked
  BY DEF IInv, TableInv
<1>2. QED
  BY <1>1, IInvHolds, PTL

\* Whoever holds a question has held it at least as long as its lock is old.
THEOREM FullTerm == Spec => []LockWithinTenure
<1>1. IInv => LockWithinTenure
  BY DEF IInv, TableInv
<1>2. QED
  BY <1>1, IInvHolds, PTL

\* An answered question has an author, whatever failed on the way.
THEOREM AnsweredAlwaysAuthored == Spec => []AnsweredIsAuthored
<1>1. IInv => AnsweredIsAuthored
  BY DEF IInv, TableInv
<1>2. QED
  BY <1>1, IInvHolds, PTL

\* The timeout job audits and notifies the rabbi it took the question from.
THEOREM EvictionsNamed == Spec => []EvictionNamesOwner
<1>1. IInv => EvictionNamesOwner
  BY DEF IInv
<1>2. QED
  BY <1>1, IInvHolds, PTL

------------------------------------------------------------------------------
(***************************************************************************)
(* What a step may never do.                                               *)
(***************************************************************************)

\* The first answer stays, whoever else answers and however the question
\* came back to the queue.
THEOREM AuthorsAreFinal == Spec => AuthorIsFinal
<1>1. ASSUME TypeOK, [Next]_vars, NEW q \in Questions, answers[q] # NoRabbi
      PROVE  answers'[q] = answers[q]
  <2>1. TableStep
    BY <1>1, StepKinds
  <2>2. ASSUME NEW p \in Questions, NEW r \in Rabbis, Publishes(p, r)
        PROVE  answers'[q] = answers[q]
    BY <1>1, <2>2 DEF Publishes, TypeOK, StoreTypeOK
  <2>3. QED
    BY <2>1, <2>2 DEF TableStep, WriteStep, Takes, Releases, Hands, Warns, TimeoutStart,
                      AgeLocks, UpdatesQuestions
<1>2. TypeOK /\ [Next]_vars =>
        [\A q \in Questions : answers[q] # NoRabbi => answers'[q] = answers[q]]_vars
  BY <1>1
<1>3. QED
  BY <1>2, TypeCorrect, PTL DEF Spec, AuthorIsFinal

\* Releasing a row, or several, empties its owner and makes it pending.
LEMMA TimedOutRows ==
    ASSUME StoreTypeOK, TimeoutStart, NEW q \in Questions
    PROVE  questions'[q] = IF q \in Expired THEN Released(questions[q]) ELSE questions[q]
BY DEF TimeoutStart

\* An answered question is reopened by a stale release and by nothing else.
THEOREM OnlyStaleReleases == Spec => OnlyStaleReleaseReopens
<1>1. ASSUME TypeOK, [Next]_vars, NEW q \in Questions,
             questions[q].status = "answered", questions'[q].status # "answered"
      PROVE  Releasing(q)
  <2>0. StoreTypeOK /\ questions[q] \in QuestionRow
    BY <1>1 DEF TypeOK, StoreTypeOK
  <2>1. TableStep
    BY <1>1, StepKinds
  <2>2. ASSUME NEW p \in Questions,
               Warns(p) \/ \E r \in Rabbis : Takes(p, r) \/ Hands(p, r) \/ Publishes(p, r)
        PROVE  FALSE
    <3>1. CASE p # q
      BY <1>1, <2>0, <2>2, <3>1, WriteRows DEF Takes, Hands, Publishes, Warns
    <3>2. CASE p = q
      <4>1. \/ \E r \in Rabbis :
                  \/ questions'[q] = HandedTo(questions[q], r)
                  \/ questions'[q] = Answered(questions[q])
                  \/ questions'[q] = Answered([questions[q] EXCEPT !.owner = r])
            \/ questions'[q] = [questions[q] EXCEPT !.warned = TRUE]
        BY <1>1, <2>0, <2>2, <3>2, WriteRows DEF Takes, Hands, Publishes, Warns
      <4>2. QED
        BY <1>1, <2>0, <4>1 DEF HandedTo, Answered, QuestionRow
    <3>3. QED
      BY <3>1, <3>2
  <2>3. ASSUME NEW p \in Questions, Releases(p) PROVE Releasing(q)
    <3>1. p = q
      BY <1>1, <2>0, <2>3, WriteRows DEF Releases
    <3>2. QED
      BY <2>3, <3>1 DEF Releases
  <2>4. CASE TimeoutStart
    BY <1>1, <2>0, <2>4, TimedOutRows DEF Expired
  <2>5. CASE AgeLocks
    BY <1>1, <2>0, <2>5 DEF AgeLocks, QuestionRow
  <2>6. QED
    BY <1>1, <2>1, <2>2, <2>3, <2>4, <2>5 DEF TableStep, WriteStep
<1>2. TypeOK /\ [Next]_vars =>
        [\A q \in Questions :
            questions[q].status = "answered" /\ questions'[q].status # "answered"
                => Releasing(q)]_vars
  BY <1>1
<1>3. QED
  BY <1>2, TypeCorrect, PTL DEF Spec, OnlyStaleReleaseReopens

\* A step that gives a question in process to another rabbi is the write of a
\* transfer to him.
LEMMA TakingIsHanding ==
    ASSUME TypeOK, [Next]_vars, NEW q \in Questions, NEW r \in Rabbis,
           questions[q].status = "in_process",
           questions[q].owner # r, questions'[q].owner = r
    PROVE  HandingOver(q, r)
<1>0. StoreTypeOK /\ questions[q] \in QuestionRow
  BY DEF TypeOK, StoreTypeOK
<1>1. TableStep
  BY StepKinds
<1>2. ASSUME NEW p \in Questions, NEW to \in Rabbis, Hands(p, to)
      PROVE  HandingOver(q, r)
  <2>1. p = q
    BY <1>0, <1>2, WriteRows DEF Hands
  <2>2. questions'[q] = HandedTo(questions[q], to)
    BY <1>0, <1>2, <2>1, WriteRows DEF Hands
  <2>3. to = r
    BY <1>0, <2>2 DEF HandedTo, QuestionRow
  <2>4. QED
    BY <1>2, <2>1, <2>3 DEF Hands
<1>3. ASSUME NEW p \in Questions, NEW to \in Rabbis,
             Takes(p, to) \/ Publishes(p, to) \/ Releases(p) \/ Warns(p)
      PROVE  FALSE
  <2>1. CASE p # q
    BY <1>0, <1>3, <2>1, WriteRows DEF Takes, Releases, Publishes, Warns
  <2>2. CASE p = q
    <3>1. \/ questions'[q] = Released(questions[q])
          \/ questions'[q] = Answered(questions[q])
          \/ questions'[q] = [questions[q] EXCEPT !.warned = TRUE]
      BY <1>0, <1>3, <2>2, WriteRows
         DEF Takes, Releases, Publishes, Warns, IsFree
    <3>2. QED
      BY <1>0, <3>1, StoreAssumption DEF Released, Answered, QuestionRow
  <2>3. QED
    BY <2>1, <2>2
<1>4. CASE TimeoutStart
  BY <1>0, <1>4, TimedOutRows, StoreAssumption DEF Released, QuestionRow
<1>5. CASE AgeLocks
  BY <1>0, <1>5 DEF AgeLocks, QuestionRow
<1>6. QED
  BY <1>1, <1>2, <1>3, <1>4, <1>5 DEF TableStep, WriteStep

\* Only a transfer to that very rabbi takes a question out of another's hands.
THEOREM OnlyTransfersTake == Spec => TakenOnlyByTransfer
<1>1. TypeOK /\ [Next]_vars =>
        [\A q \in Questions, r \in Rabbis :
            /\ questions[q].status = "in_process"
            /\ questions[q].owner # r
            /\ questions'[q].owner = r
            => HandingOver(q, r)]_vars
  BY TakingIsHanding
<1>2. QED
  BY <1>1, TypeCorrect, PTL DEF Spec, TakenOnlyByTransfer

------------------------------------------------------------------------------
\* An eviction comes after the full term.
EvictedHadTheirTerm ==
    [][TimeoutStart => \A q \in Expired : held[q] >= TimeoutHours]_vars

\* Whoever loses a question to the timeout job has held it himself for all of
\* sla_config.hours_to_timeout, whoever claimed it or handed it on before.
THEOREM FullTermBeforeEviction == Spec => EvictedHadTheirTerm
<1>1. ASSUME IInv, NEW q \in Expired PROVE held[q] >= TimeoutHours
  <2>1. q \in Questions /\ questions[q].lock \in Hours /\ held[q] \in Hours
    BY <1>1 DEF IInv, TableInv, InProcessIsLocked, TypeOK, StoreTypeOK,
                QuestionRow, Expired
  <2>2. TimeoutHours <= questions[q].lock /\ questions[q].lock <= held[q]
    BY <1>1 DEF IInv, TableInv, LockWithinTenure, Expired
  <2>3. QED
    BY <2>1, <2>2, StoreAssumption DEF Hours
<1>2. IInv => [TimeoutStart => \A q \in Expired : held[q] >= TimeoutHours]_vars
  BY <1>1
<1>3. QED
  BY <1>2, IInvHolds, PTL DEF Spec, EvictedHadTheirTerm

------------------------------------------------------------------------------
(***************************************************************************)
(* Refinement.  Recalled follows the requests while the phases follow the  *)
(* rows, so a step is looked at twice: for what it does to the tables      *)
(* (TableStep) and for what it does to the releases under way (RecallStep).*)
(***************************************************************************)

\* The release of q is granted.
Grants(q) ==
    /\ questions[q].status = "in_process"
    /\ Recalled' = Recalled \union {q}
    /\ UNCHANGED <<questions, answers>>

\* A release of q fails between its statements.
Drops(q) ==
    /\ Recalled' \in {Recalled, Recalled \ {q}}
    /\ UNCHANGED <<questions, answers>>

\* The UPDATE of a release of q.
Recalls(q) ==
    /\ q \in Recalled
    /\ Recalled' \in {Recalled, Recalled \ {q}}
    /\ Releases(q)

RecallStep ==
    \/ \E q \in Questions : Grants(q) \/ Drops(q) \/ Recalls(q)
    \/ UNCHANGED Recalled

\* A request that ends takes at most its own release with it.
LEMMA EndedRelease ==
    ASSUME TypeOK, NEW s \in Slots, requests[s] # NoRequest, Ends(s)
    PROVE  /\ Recalled' \in {Recalled, Recalled \ {requests[s].q}}
           /\ ~At(s, "release", "write") => Recalled' = Recalled
<1>1. /\ requests'[s] = NoRequest
      /\ \A p \in Slots \ {s} : requests'[p] = requests[p]
  BY DEF Ends, TypeOK
<1>2. \A p \in Slots \ {s} : At(p, "release", "write")' <=> At(p, "release", "write")
  BY <1>1 DEF At
<1>3. ~At(s, "release", "write")'
  BY <1>1 DEF At
<1>4. CASE At(s, "release", "write")
  BY <1>1, <1>2, <1>3, <1>4 DEF Recalled
<1>5. CASE ~At(s, "release", "write")
  BY <1>1, <1>2, <1>3, <1>5 DEF Recalled
<1>6. QED
  BY <1>4, <1>5

\* A request that goes on from its gate or its check releases nothing.
LEMMA MovedOn ==
    ASSUME TypeOK, NEW s \in Slots, requests[s] # NoRequest, NEW pc, MovesTo(s, pc),
           requests[s].op # "release" \/ (requests[s].pc # "write" /\ pc # "write")
    PROVE  Recalled' = Recalled
<1>1. requests[s] \in Request
  BY OpenSlot
<1>2. /\ requests'[s] = [requests[s] EXCEPT !.pc = pc]
      /\ \A p \in Slots \ {s} : requests'[p] = requests[p]
  BY DEF MovesTo, TypeOK
<1>3. /\ requests'[s].op = requests[s].op
      /\ requests'[s].pc = pc
      /\ requests'[s].q = requests[s].q
  BY <1>1, <1>2 DEF Request
<1>4. ~At(s, "release", "write") /\ ~At(s, "release", "write")'
  BY <1>3 DEF At
<1>5. \A p \in Slots \ {s} : At(p, "release", "write")' <=> At(p, "release", "write")
  BY <1>2 DEF At
<1>6. QED
  BY <1>2, <1>4, <1>5 DEF Recalled

\* A request that opens adds its own release, if it is one.
LEMMA OpenedRelease ==
    ASSUME TypeOK, NEW s \in Slots, NEW req, req # NoRequest, Opens(s, req)
    PROVE  /\ req.op # "release" => Recalled' = Recalled
           /\ req.op = "release" /\ req.pc = "write" /\ req.q \in Questions
                => Recalled' = Recalled \union {req.q}
<1>1. /\ requests'[s] = req
      /\ \A p \in Slots \ {s} : requests'[p] = requests[p]
  BY DEF Opens, TypeOK
<1>2. \A p \in Slots \ {s} : At(p, "release", "write")' <=> At(p, "release", "write")
  BY <1>1 DEF At
<1>3. ~At(s, "release", "write")
  BY DEF Opens, At
<1>4. At(s, "release", "write")' <=> req.op = "release" /\ req.pc = "write"
  BY <1>1 DEF At
<1>5. CASE req.op # "release"
  BY <1>1, <1>2, <1>3, <1>4, <1>5 DEF Recalled
<1>6. CASE req.op = "release" /\ req.pc = "write" /\ req.q \in Questions
  BY <1>1, <1>2, <1>3, <1>4, <1>6 DEF Recalled
<1>7. QED
  BY <1>5, <1>6

\* Releases are granted by their check, take effect by their UPDATE, and are
\* lost by a failure; no other step touches them.
LEMMA RecallKinds == TypeOK /\ [Next]_vars => RecallStep
<1> SUFFICES ASSUME TypeOK, [Next]_vars PROVE RecallStep
  OBVIOUS
<1>1. CASE UNCHANGED requests
  <2>1. Recalled' = Recalled
    BY <1>1 DEF Recalled, At
  <2>2. QED
    BY <2>1 DEF RecallStep
<1>2. CASE RabbiStep
  <2>1. PICK r \in Rabbis, q \in Questions :
          \/ Claim(r, q)
          \/ \E s \in Slots :
                \/ ReleaseCheck(s, r, q)
                \/ Gate(s, r, q, "answer", NoRabbi)
                \/ Gate(s, r, q, "draft", NoRabbi)
                \/ \E to \in Rabbis \ {r} : Gate(s, r, q, "transfer", to)
    BY <1>2 DEF RabbiStep
  <2>2. CASE Claim(r, q)
    BY <1>1, <2>2 DEF Claim
  <2>3. ASSUME NEW s \in Slots, ReleaseCheck(s, r, q) PROVE RecallStep
    <3>1. Recalled' = Recalled \union {q}
      <4> DEFINE req == [pc |-> "write", op |-> "release", by |-> r, q |-> q, to |-> NoRabbi]
      <4>1. Opens(s, req) /\ req # NoRequest
        BY <2>3 DEF ReleaseCheck, NoRequest
      <4>2. req.op = "release" /\ req.pc = "write" /\ req.q = q
        OBVIOUS
      <4> HIDE DEF req
      <4>3. QED
        BY <4>1, <4>2, OpenedRelease
    <3>2. Grants(q)
      BY <2>3, <3>1 DEF ReleaseCheck, Grants, store
    <3>3. QED
      BY <3>2 DEF RecallStep
  <2>4. ASSUME NEW s \in Slots, NEW op \in {"answer", "draft", "transfer"}, NEW to,
               Gate(s, r, q, op, to)
        PROVE  RecallStep
    <3> DEFINE req == [pc |-> GateDecision(r, q), op |-> op, by |-> r, q |-> q, to |-> to]
    <3>1. Opens(s, req) /\ req # NoRequest
      BY <2>4 DEF Gate, NoRequest
    <3>2. req.op # "release"
      OBVIOUS
    <3> HIDE DEF req
    <3>3. Recalled' = Recalled
      BY <3>1, <3>2, OpenedRelease
    <3>4. QED
      BY <3>3 DEF RecallStep
  <2>5. QED
    BY <2>1, <2>2, <2>3, <2>4
<1>3. ASSUME NEW s \in Slots, RequestStep(s) PROVE RecallStep
  <2>1. requests[s] # NoRequest
    BY <1>3 DEF RequestStep, ReleaseWrite, SelfHeal, Reread, TransferCheck,
         TransferWrite, AnswerCheck, AnswerWrite, AnswerAutoClaim, Draft,
         RequestFails, At, NoRequest
  <2>2. requests[s].q \in Questions
    BY <2>1, OpenSlot
  <2>3. CASE ReleaseWrite(s)
    <3>1. requests[s].q \in Recalled
      BY <2>2, <2>3 DEF ReleaseWrite, Recalled
    <3>2. Recalled' \in {Recalled, Recalled \ {requests[s].q}}
      BY <2>1, <2>3, EndedRelease DEF ReleaseWrite
    <3>3. Releases(requests[s].q)
      BY <2>3 DEF ReleaseWrite, Releases, Releasing
    <3>4. QED
      BY <2>2, <3>1, <3>2, <3>3 DEF Recalls, RecallStep
  <2>4. CASE RequestFails(s)
    <3>1. Drops(requests[s].q)
      BY <2>1, <2>4, EndedRelease DEF RequestFails, Drops, store
    <3>2. QED
      BY <2>2, <3>1 DEF RecallStep
  <2>5. CASE SelfHeal(s) \/ Reread(s)
    <3>1. requests[s].pc # "write"
      BY <2>5 DEF SelfHeal, Reread
    <3>2. MovesTo(s, "check") \/ MovesTo(s, "reread") \/ Ends(s)
      BY <2>5 DEF SelfHeal, Reread
    <3>3. Recalled' = Recalled
      BY <2>1, <3>1, <3>2, MovedOn, EndedRelease DEF At
    <3>4. QED
      BY <3>3 DEF RecallStep
  <2>6. CASE \/ TransferCheck(s) \/ TransferWrite(s) \/ AnswerCheck(s)
             \/ AnswerWrite(s) \/ AnswerAutoClaim(s) \/ Draft(s)
    <3>1. requests[s].op # "release"
      BY <2>6 DEF TransferCheck, TransferWrite, AnswerCheck, AnswerWrite,
                  AnswerAutoClaim, Draft, At
    <3>2. MovesTo(s, "write") \/ MovesTo(s, "autoClaim") \/ Ends(s)
      BY <2>6 DEF TransferCheck, TransferWrite, AnswerCheck, AnswerWrite,
                  AnswerAutoClaim, Draft
    <3>3. Recalled' = Recalled
      BY <2>1, <3>1, <3>2, MovedOn, EndedRelease DEF At
    <3>4. QED
      BY <3>3 DEF RecallStep
  <2>7. QED
    BY <1>3, <2>3, <2>4, <2>5, <2>6 DEF RequestStep
<1>4. CASE JobStep \/ HourPasses \/ UNCHANGED vars
  BY <1>1, <1>4 DEF JobStep, TimeoutStart, TimeoutAudit, TimeoutNotify,
       WarningStart, WarningMark, WarningNotify, JobFails, HourPasses, vars
<1>5. QED
  BY <1>2, <1>3, <1>4 DEF Next

\* A write of one row is a write of its phase and of its holder.
LEMMA WriteMaps ==
    ASSUME StoreTypeOK, NEW q \in Questions, NEW row, Write(q, row)
    PROVE  /\ Phase'
                = [Phase EXCEPT ![q] = row.status]
           /\ Holder'
                = [Holder EXCEPT ![q] = row.owner]
BY DEF StoreTypeOK, Write, Phase, Holder

\* A write that keeps the status keeps the phases, and so for the owner.
LEMMA QuietMaps ==
    ASSUME StoreTypeOK, NEW q \in Questions, NEW row, Write(q, row)
    PROVE  /\ row.status = questions[q].status => Phase' = Phase
           /\ row.owner = questions[q].owner => Holder' = Holder
BY DEF StoreTypeOK, Write, Phase, Holder

\* Reading the phase and the holder of one question.
LEMMA MapRows ==
    ASSUME NEW q \in Questions
    PROVE  Phase[q] = questions[q].status /\ Holder[q] = questions[q].owner
BY DEF Phase, Holder

\* The UPDATE of a release is the recall of AnswerOnce.
LEMMA RecallMaps ==
    ASSUME StoreTypeOK, NEW q \in Questions, Recalls(q)
    PROVE  Desk!Recall(q)
<1>1. /\ Released(questions[q]).status = "pending"
      /\ Released(questions[q]).owner = NoRabbi
  BY DEF StoreTypeOK, Released, QuestionRow
<1>2. /\ Phase' = [Phase EXCEPT ![q] = "pending"]
      /\ Holder' = [Holder EXCEPT ![q] = NoRabbi]
  BY <1>1, WriteMaps DEF Recalls, Releases
<1>3. QED
  BY <1>2 DEF Recalls, Releases, UpdatesQuestions, Desk!Recall

\* A step that leaves the releases under way alone is, by what it does to the
\* tables, a step of AnswerOnce, or changes nothing it can see.
LEMMA QuietStep ==
    ASSUME TypeOK, TableInv, TableStep, Recalled' = Recalled
    PROVE  [Desk!Next]_(Desk!desk)
<1>0. StoreTypeOK /\ (\A q \in Questions : questions[q] \in QuestionRow)
  BY DEF TypeOK, StoreTypeOK
<1>1. CASE UNCHANGED <<questions, answers, held>>
  BY <1>1 DEF Desk!desk, Phase, Holder
<1>2. ASSUME NEW q \in Questions, NEW r \in Rabbis, Takes(q, r)
      PROVE  Desk!Next
  <2>1. /\ Claimed(questions[q], r).status = "in_process"
        /\ Claimed(questions[q], r).owner = r
    BY <1>0 DEF Claimed, QuestionRow
  <2>2. Desk!Take(q, r)
    BY <1>0, <1>2, <2>1, WriteMaps, MapRows DEF Takes, UpdatesQuestions, Desk!Take
  <2>3. QED
    BY <2>2 DEF Desk!Next
<1>3. ASSUME NEW q \in Questions, Releases(q) PROVE Desk!Next
  <2>1. q \in Recalled
    BY <1>3 DEF Releases, Releasing, ReleaseWrite, Recalled
  <2>2. Recalls(q)
    BY <1>3, <2>1 DEF Recalls
  <2>3. QED
    BY <1>0, <2>2, RecallMaps DEF Desk!Next
<1>4. ASSUME NEW q \in Questions, NEW r \in Rabbis, Hands(q, r)
      PROVE  Desk!Next
  <2>1. /\ HandedTo(questions[q], r).status = questions[q].status
        /\ HandedTo(questions[q], r).owner = r
    BY <1>0 DEF HandedTo, QuestionRow
  <2>2. Phase' = Phase
    BY <1>0, <1>4, <2>1, QuietMaps DEF Hands
  <2>3. Desk!HandOver(q, r)
    BY <1>0, <1>4, <2>1, <2>2, WriteMaps DEF Hands, UpdatesQuestions, Desk!HandOver
  <2>4. QED
    BY <2>3 DEF Desk!Next
<1>5. ASSUME NEW q \in Questions, NEW r \in Rabbis, Publishes(q, r)
      PROVE  Desk!Next
  <2>1. questions[q].status # "answered" /\ answers[q] = NoRabbi
    BY <1>5 DEF Publishes, TableInv, AnsweredIsAuthored
  <2>2. PICK row \in {questions[q], [questions[q] EXCEPT !.owner = r]} :
          Write(q, Answered(row))
    BY <1>5 DEF Publishes
  <2>3. /\ Answered(row).status = "answered"
        /\ Answered(row).owner \in {questions[q].owner, r}
    BY <1>0, <2>2 DEF Answered, QuestionRow
  <2>4. /\ Phase'
             = [Phase EXCEPT ![q] = "answered"]
        /\ Holder'
             \in {Holder,
                  [Holder EXCEPT ![q] = r]}
    BY <1>0, <2>2, <2>3, WriteMaps, QuietMaps
  <2>5. Desk!Publish(q, r)
    BY <1>5, <2>1, <2>4 DEF Publishes, Desk!Publish, Phase
  <2>6. QED
    BY <2>5 DEF Desk!Next
<1>6. ASSUME NEW q \in Questions, Warns(q) PROVE UNCHANGED Desk!desk
  <2>1. /\ [questions[q] EXCEPT !.warned = TRUE].status = questions[q].status
        /\ [questions[q] EXCEPT !.warned = TRUE].owner = questions[q].owner
    BY <1>0 DEF QuestionRow
  <2>2. QED
    <3>1. Phase' = Phase /\ Holder' = Holder
      BY <1>0, <1>6, <2>1, QuietMaps DEF Warns
    <3>2. QED
      BY <1>6, <3>1 DEF Warns, UpdatesQuestions, Desk!desk
<1>7. CASE TimeoutStart
  <2>1. \A q \in Questions : /\ Released(questions[q]).status = "pending"
                             /\ Released(questions[q]).owner = NoRabbi
    BY <1>0 DEF Released, QuestionRow
  <2>2. Desk!Return(Expired)
    BY <1>0, <1>7, <2>1, TimedOutRows
       DEF TimeoutStart, UpdatesQuestions, Desk!Return, Expired, Phase, Holder
  <2>3. Expired \in SUBSET Questions
    BY DEF Expired
  <2>4. QED
    BY <2>2, <2>3 DEF Desk!Next
<1>8. CASE AgeLocks
  <2>1. \A q \in Questions : /\ questions'[q].status = questions[q].status
                             /\ questions'[q].owner = questions[q].owner
    BY <1>0, <1>8 DEF AgeLocks, QuestionRow
  <2>2. QED
    BY <1>8, <2>1 DEF AgeLocks, Desk!desk, Phase, Holder
<1>9. QED
  BY <1>1, <1>2, <1>3, <1>4, <1>5, <1>6, <1>7, <1>8 DEF TableStep, WriteStep

\* Every step of the desk is a step of AnswerOnce or a stutter.
LEMMA AnswerOnceStep ==
    ASSUME TypeOK, TableInv, TableStep, RecallStep
    PROVE  [Desk!Next]_(Desk!desk)
<1>1. StoreTypeOK
  BY DEF TypeOK
<1>2. ASSUME NEW q \in Questions, Grants(q) PROVE Desk!Next
  <2>1. Desk!GrantRecall(q)
    BY <1>2 DEF Grants, Desk!GrantRecall, Phase, Holder
  <2>2. QED
    BY <2>1 DEF Desk!Next
<1>3. ASSUME NEW q \in Questions, Drops(q), Recalled' # Recalled PROVE Desk!Next
  <2>1. Desk!DropRecall(q)
    BY <1>3 DEF Drops, Desk!DropRecall, Phase, Holder
  <2>2. QED
    BY <2>1 DEF Desk!Next
<1>4. ASSUME NEW q \in Questions, Recalls(q) PROVE Desk!Next
  BY <1>1, <1>4, RecallMaps DEF Desk!Next
<1>5. QED
  BY <1>2, <1>3, <1>4, QuietStep DEF RecallStep

\* The desk, with all its handlers and both jobs, implements AnswerOnce: its
\* questions are answered at most once, by one author, and what is answered
\* goes back to the queue by no step but the UPDATE of a release that was
\* granted while it was in process.
THEOREM AnswersOnce == Spec => ImplementsAnswerOnce
<1>1. Init => Desk!Init
  BY DEF Init, StoreInit, NewQuestion, NoRequest, Desk!Init, Phase, Holder, Recalled, At
<1>2. IInv /\ [Next]_vars => [Desk!Next]_(Desk!desk)
  BY StepKinds, RecallKinds, AnswerOnceStep DEF IInv
<1>3. QED
  BY <1>1, <1>2, IInvHolds, PTL DEF Spec, ImplementsAnswerOnce, Desk!Spec
==============================================================================
