------------------------- MODULE DeskWriters_proofs -------------------------
(***************************************************************************)
(* Proofs about DeskWriters, for any rabbis, administrators, questions,    *)
(* requests and mails.  The steps of the dashboard and the jobs are        *)
(* QuestionLifecycle's, and what is proved of them there is cited here.    *)
(***************************************************************************)
EXTENDS DeskWriters, QuestionLifecycle_proofs

------------------------------------------------------------------------------
(***************************************************************************)
(* Types.                                                                  *)
(***************************************************************************)

\* The dashboard's part of a step is a step of QuestionLifecycle.
LEMMA DashboardIsNext == DashboardStep => Next
BY DEF DashboardStep, Next

\* The history of a step keeps its type.
LEMMA TextType ==
    ASSUME WritersTypeOK, TypeOK', TextFollowsAuthor
    PROVE  text' \in [Questions -> Rabbis \union {NoRabbi}]
BY DEF WritersTypeOK, TypeOK, StoreTypeOK, TextFollowsAuthor

\* The history of races has its type and only grows where it must.
LEMMA RacesType ==
    ASSUME NEW M, TrackRaces(M), WritersTypeOK
    PROVE  /\ raced' \in [Questions -> BOOLEAN]
           /\ \A q \in Questions : raced[q] => raced'[q]
           /\ \A q \in Questions : Reopens(q) => raced'[q]
           /\ \A q \in Questions : Moved(q) /\ Pending(q, M) => raced'[q]
<1>1. \A q \in Questions : raced'[q] = (raced[q] \/ Reopens(q) \/ (Moved(q) /\ Pending(q, M)))
  BY DEF TrackRaces
<1>2. raced' \in [Questions -> BOOLEAN]
  <2>1. raced' = [q \in Questions |-> raced[q] \/ Reopens(q) \/ (Moved(q) /\ Pending(q, M))]
    BY DEF TrackRaces
  <2>2. \A q \in Questions : (raced[q] \/ Reopens(q) \/ (Moved(q) /\ Pending(q, M))) \in BOOLEAN
    OBVIOUS
  <2>3. QED
    BY <2>1, <2>2
<1>3. QED
  BY <1>1, <1>2

\* One statement on one row.
LEMMA StatementType ==
    ASSUME WritersTypeOK, NEW q \in Questions, NEW row \in QuestionRow,
           Write(q, row), UpdatesQuestions, Untouched
    PROVE  TypeOK'
<1>1. StoreTypeOK'
  BY WriteType DEF WritersTypeOK, TypeOK
<1>2. QED
  BY <1>1 DEF WritersTypeOK, TypeOK, Untouched, jobs

\* A mail in a slot is a mail, and moves to one.
LEMMA OpenMail ==
    ASSUME WritersTypeOK, NEW m \in Mails, mails[m] # NoMail
    PROVE  /\ mails[m] \in Mail
           /\ mails[m].by \in Rabbis
           /\ mails[m].q \in Questions
           /\ questions[mails[m].q] \in QuestionRow
BY DEF WritersTypeOK, TypeOK, StoreTypeOK, Mail

Pcs == {"claim", "release", "linkRelease", "autoClaim", "lookup", "replace",
        "insert", "finish"}

\* A mail that moves on keeps what it carries.
LEMMA MoveType ==
    ASSUME WritersTypeOK, NEW m \in Mails, mails[m] # NoMail,
           NEW pc \in Pcs \union {"done"}, MailMoves(m, pc)
    PROVE  /\ mails' \in [Mails -> Mail \union {NoMail}]
           /\ \A n \in Mails \ {m} : mails'[n] = mails[n]
           /\ pc = "done" => mails'[m] = NoMail
           /\ pc # "done" => /\ mails'[m] # NoMail
                             /\ mails'[m].pc = pc
                             /\ mails'[m].by = mails[m].by
                             /\ mails'[m].q = mails[m].q
<1>1. mails[m] \in Mail
  BY OpenMail
<1>2. [mails[m] EXCEPT !.pc = pc] = [pc |-> pc, by |-> mails[m].by, q |-> mails[m].q]
  BY <1>1 DEF Mail
<1>3. pc # "done" => [pc |-> pc, by |-> mails[m].by, q |-> mails[m].q] \in Mail \ {NoMail}
  BY <1>1 DEF Mail, NoMail, Pcs
<1>4. mails' = [mails EXCEPT ![m] = IF pc = "done" THEN NoMail ELSE [mails[m] EXCEPT !.pc = pc]]
  BY DEF MailMoves
<1>5. mails \in [Mails -> Mail \union {NoMail}]
  BY DEF WritersTypeOK
<1>6. CASE pc = "done"
  BY <1>4, <1>5, <1>6
<1>7. CASE pc # "done"
  BY <1>2, <1>3, <1>4, <1>5, <1>7
<1>8. QED
  BY <1>6, <1>7

\* Every decision is something the handler then does.
LEMMA DecisionType ==
    ASSUME NEW kind \in Kinds, NEW r \in Rabbis, NEW row \in QuestionRow
    PROVE  Decision(kind, r, row) \in Pcs \union {"done"}
BY DEF Decision, Pcs

\* The statements of the mails make rows of rows.
LEMMA MailRows ==
    ASSUME NEW row \in QuestionRow, NEW r \in Rabbis
    PROVE  /\ MailClaimed(row, r) \in QuestionRow
           /\ MailReleased(row) \in QuestionRow
           /\ [Answered(row) EXCEPT !.owner = r] \in QuestionRow
<1>1. MailClaimed(row, r) \in QuestionRow
  BY RowsAreRows DEF MailClaimed
<1>2. QED
  BY <1>1 DEF MailReleased, Answered, QuestionRow, Statuses

\* And so do the administrator's.
LEMMA AdminRows ==
    ASSUME WritersTypeOK, NEW q \in Questions
    PROVE  /\ questions[q] \in QuestionRow
           /\ MailReleased(questions[q]) \in QuestionRow
           /\ \A r \in Rabbis : Claimed(questions[q], r) \in QuestionRow
           /\ \A status \in Statuses :
                 [questions[q] EXCEPT !.status = status] \in QuestionRow
           /\ [questions[q] EXCEPT !.status = "pending", !.owner = NoRabbi] \in QuestionRow
<1>1. questions[q] \in QuestionRow
  BY DEF WritersTypeOK, TypeOK, StoreTypeOK
<1>2. QED
  BY <1>1, RowsAreRows DEF MailReleased, QuestionRow, Statuses

\* One UPDATE of a mail.
LEMMA UpdateType ==
    ASSUME WritersTypeOK, NEW m \in Mails, mails[m] # NoMail,
           NEW row \in QuestionRow, NEW pc \in Pcs \union {"done"},
           MailUpdates(m, row, pc)
    PROVE  WritersTypeOK'
<1>1. mails[m].q \in Questions
  BY OpenMail
<1>2. TypeOK'
  BY <1>1, StatementType DEF MailUpdates
<1>3. QED
  BY <1>2, MoveType, TextType, RacesType DEF MailUpdates, WritersTypeOK

\* One statement of somebody without a mail.
LEMMA WritesRowType ==
    ASSUME WritersTypeOK, NEW q \in Questions, NEW row \in QuestionRow,
           WritesRow(q, row), forced' \in [Questions -> BOOLEAN]
    PROVE  WritersTypeOK'
<1>1. TypeOK'
  BY StatementType DEF WritesRow
<1>2. QED
  BY <1>1, TextType, RacesType DEF WritesRow, WritersTypeOK

\* The desk starts with no mail and no removal under way.
LEMMA DeskTypeInit == DeskInit => WritersTypeOK
BY TypeInit DEF DeskInit, WritersTypeOK, NoRemoval

\* The statements of a mail keep the types.
LEMMA DeskTypeMail ==
    ASSUME WritersTypeOK, NEW m \in Mails, MailStep(m)
    PROVE  WritersTypeOK'
<1>1. ASSUME NEW kind \in Kinds, NEW r \in Rabbis, NEW q \in Questions,
             MailRead(m, kind, r, q)
      PROVE  WritersTypeOK'
  <2>1. questions[q] \in QuestionRow
    BY DEF WritersTypeOK, TypeOK, StoreTypeOK
  <2>2. Decision(kind, r, questions[q]) \in Pcs
    BY <1>1, <2>1, DecisionType DEF MailRead
  <2>3. [pc |-> Decision(kind, r, questions[q]), by |-> r, q |-> q] \in Mail
    BY <2>2 DEF Mail, Pcs
  <2>4. TypeOK'
    BY <1>1 DEF MailRead, WritersTypeOK, TypeOK, StoreTypeOK, vars, store
  <2>5. QED
    BY <1>1, <2>3, <2>4 DEF MailRead, WritersTypeOK
<1>2. CASE MailClaim(m)
  BY <1>2, OpenMail, MailRows, UpdateType DEF MailClaim, MailAt, Pcs
<1>3. CASE MailRelease(m)
  BY <1>3, OpenMail, MailRows, UpdateType DEF MailRelease, MailAt, Pcs
<1>4. CASE LinkRelease(m)
  <2> DEFINE row == questions[mails[m].q]
             new == IF row.owner = mails[m].by THEN MailReleased(row) ELSE row
  <2>1. mails[m] # NoMail /\ MailUpdates(m, new, "done")
    BY <1>4 DEF LinkRelease, MailAt
  <2>2. new \in QuestionRow
    BY <2>1, OpenMail, MailRows
  <2> HIDE DEF new
  <2>3. QED
    BY <2>1, <2>2, UpdateType
<1>5. CASE MailAutoClaim(m)
  BY <1>5, OpenMail, MailRows, UpdateType DEF MailAutoClaim, MailAt, Pcs
<1>6. CASE MailLookup(m)
  <2>1. /\ mails[m] # NoMail
        /\ \/ MailMoves(m, "insert")
           \/ MailMoves(m, "replace")
    BY <1>6 DEF MailLookup, MailAt
  <2>2. mails' \in [Mails -> Mail \union {NoMail}]
    BY <2>1, MoveType DEF Pcs
  <2>3. QED
    BY <1>6, <2>2 DEF MailLookup, WritersTypeOK, TypeOK, StoreTypeOK, vars, store
<1>7. CASE MailReplace(m)
  <2>1. mails[m] # NoMail /\ mails[m].by \in Rabbis
    BY <1>7, OpenMail DEF MailReplace, MailAt
  <2>2. mails' \in [Mails -> Mail \union {NoMail}]
    BY <1>7, <2>1, MoveType DEF MailReplace, Pcs
  <2>3. text' \in [Questions -> Rabbis \union {NoRabbi}]
    BY <1>7, <2>1 DEF MailReplace, WritersTypeOK
  <2>4. TypeOK'
    BY <1>7 DEF MailReplace, WritersTypeOK, TypeOK, StoreTypeOK, vars, store
  <2>5. QED
    BY <1>7, <2>2, <2>3, <2>4, RacesType DEF MailReplace, WritersTypeOK
<1>8. CASE MailInsert(m)
  <2>1. mails[m] # NoMail /\ mails[m].by \in Rabbis /\ mails[m].q \in Questions
    BY <1>8, OpenMail DEF MailInsert, MailAt
  <2>2. answers' \in [Questions -> Rabbis \union {NoRabbi}]
    BY <1>8, <2>1 DEF MailInsert, InsertAnswer, WritersTypeOK, TypeOK, StoreTypeOK
  <2>3. TypeOK'
    BY <1>8, <2>2 DEF MailInsert, WritersTypeOK, TypeOK, StoreTypeOK, Untouched, jobs
  <2>4. mails' \in [Mails -> Mail \union {NoMail}]
    <3>1. MailMoves(m, "finish") \/ MailMoves(m, "done")
      BY <1>8 DEF MailInsert
    <3>2. QED
      BY <2>1, <3>1, MoveType DEF Pcs
  <2>5. QED
    BY <1>8, <2>3, <2>4, TextType, RacesType DEF MailInsert, WritersTypeOK
<1>9. CASE MailFinish(m)
  BY <1>9, OpenMail, MailRows, UpdateType DEF MailFinish, MailAt
<1>10. CASE MailFails(m)
  <2>1. mails' \in [Mails -> Mail \union {NoMail}]
    BY <1>10, MoveType DEF MailFails
  <2>2. raced' \in [Questions -> BOOLEAN]
    BY <1>10 DEF MailFails, WritersTypeOK
  <2>3. QED
    BY <1>10, <2>1, <2>2 DEF MailFails, WritersTypeOK, TypeOK, StoreTypeOK, vars, store
<1>11. QED
  BY <1>1, <1>2, <1>3, <1>4, <1>5, <1>6, <1>7, <1>8, <1>9, <1>10 DEF MailStep

\* What an administrator does keeps the types.
LEMMA DeskTypeAdmin ==
    ASSUME WritersTypeOK, AdminStep PROVE WritersTypeOK'
<1>1. ASSUME NEW q \in Questions, NEW status \in Statuses, PatchStatus(q, status)
      PROVE  WritersTypeOK'
  <2> DEFINE row == [questions[q] EXCEPT !.status = status]
  <2>1. row \in QuestionRow
    BY AdminRows
  <2>2. forced' \in [Questions -> BOOLEAN]
    BY <1>1 DEF PatchStatus, WritersTypeOK
  <2>3. WritesRow(q, row)
    BY <1>1 DEF PatchStatus
  <2> HIDE DEF row
  <2>4. QED
    BY <2>1, <2>2, <2>3, WritesRowType
<1>2. ASSUME NEW q \in Questions, PatchRelease(q) PROVE WritersTypeOK'
  <2> DEFINE row == [questions[q] EXCEPT !.status = "pending", !.owner = NoRabbi]
  <2>1. row \in QuestionRow
    BY AdminRows
  <2>2. forced' \in [Questions -> BOOLEAN]
    BY <1>2 DEF PatchRelease, WritersTypeOK
  <2>3. WritesRow(q, row)
    BY <1>2 DEF PatchRelease
  <2> HIDE DEF row
  <2>4. QED
    BY <2>1, <2>2, <2>3, WritesRowType
<1>3. ASSUME NEW q \in Questions, AdminRelease(q) PROVE WritersTypeOK'
  <2> DEFINE row == MailReleased(questions[q])
  <2>1. row \in QuestionRow
    BY AdminRows
  <2>2. forced' \in [Questions -> BOOLEAN]
    BY <1>3 DEF AdminRelease, WritersTypeOK
  <2>3. WritesRow(q, row)
    BY <1>3 DEF AdminRelease
  <2> HIDE DEF row
  <2>4. QED
    BY <2>1, <2>2, <2>3, WritesRowType
<1>4. ASSUME NEW q \in Questions, NEW r \in Rabbis, AdminAssign(r, q)
      PROVE  WritersTypeOK'
  <2> DEFINE row == Claimed(questions[q], r)
  <2>1. row \in QuestionRow
    BY AdminRows
  <2>2. forced' \in [Questions -> BOOLEAN]
    BY <1>4 DEF AdminAssign, WritersTypeOK
  <2>3. WritesRow(q, row)
    BY <1>4 DEF AdminAssign
  <2> HIDE DEF row
  <2>4. QED
    BY <2>1, <2>2, <2>3, WritesRowType
<1>5. ASSUME NEW a \in Rabbis, NEW r \in Rabbis, RemoveCheck(a, r)
      PROVE  WritersTypeOK'
  <2>1. removal' \in Removal
    BY <1>5 DEF RemoveCheck, Removal
  <2>2. QED
    BY <1>5, <2>1 DEF RemoveCheck, WritersTypeOK, TypeOK, StoreTypeOK, vars, store
<1>6. CASE RemoveWrite
  <2>1. removal.by \in Rabbis /\ removal.of \in Rabbis
    BY <1>6, StoreAssumption DEF RemoveWrite, WritersTypeOK, Removal
  <2>2. /\ questions' \in [Questions -> QuestionRow]
        /\ answers' \in [Questions -> Rabbis \union {NoRabbi}]
        /\ gone' \in SUBSET Rabbis
    <3>1. \A q \in Questions : [questions[q] EXCEPT !.owner = NoRabbi] \in QuestionRow
      BY AdminRows DEF QuestionRow
    <3>2. questions' \in [Questions -> QuestionRow]
      BY <1>6, <3>1, AdminRows DEF RemoveWrite
    <3>3. QED
      BY <1>6, <2>1, <3>2 DEF RemoveWrite, WritersTypeOK, TypeOK, StoreTypeOK
  <2>3. StoreTypeOK'
    BY <1>6, <2>2, HistoryType DEF RemoveWrite, WritersTypeOK, TypeOK, StoreTypeOK
  <2>4. TypeOK'
    BY <1>6, <2>3 DEF RemoveWrite, WritersTypeOK, TypeOK, Untouched, jobs
  <2>5. QED
    BY <1>6, <2>2, <2>4, TextType, RacesType DEF RemoveWrite, WritersTypeOK
<1>7. QED
  <2>1. ASSUME NEW q \in Questions, NEW r \in Rabbis, PageAssign(r, q)
        PROVE  WritersTypeOK'
    BY <1>1, <2>1 DEF PageAssign, Statuses
  <2>2. QED
    BY <1>1, <1>2, <1>3, <1>4, <1>5, <1>6, <2>1 DEF AdminStep

\* What a rabbi does on the dashboard keeps the types.
LEMMA DeskTypeDashboard ==
    ASSUME WritersTypeOK, DashboardStep PROVE WritersTypeOK'
<1>1. TypeOK'
  BY DashboardIsNext, TypeStep DEF WritersTypeOK
<1>2. QED
  BY <1>1, TextType, RacesType DEF DashboardStep, WritersTypeOK

\* Every step keeps the types.
LEMMA DeskTypeStep == WritersTypeOK /\ [DeskNext]_deskVars => WritersTypeOK'
<1> SUFFICES ASSUME WritersTypeOK, [DeskNext]_deskVars PROVE WritersTypeOK'
  OBVIOUS
<1>1. ASSUME NEW r \in Rabbis, NEW q \in Questions, InboundRelease(r, q)
      PROVE  WritersTypeOK'
  <2> DEFINE row == MailReleased(questions[q])
  <2>1. row \in QuestionRow
    BY AdminRows
  <2>2. forced' \in [Questions -> BOOLEAN]
    BY <1>1 DEF InboundRelease, WritersTypeOK
  <2>3. WritesRow(q, row)
    BY <1>1 DEF InboundRelease
  <2> HIDE DEF row
  <2>4. QED
    BY <2>1, <2>2, <2>3, WritesRowType
<1>2. CASE UNCHANGED deskVars
  BY <1>2 DEF deskVars, writerVars, vars, store, WritersTypeOK, TypeOK, StoreTypeOK
<1>3. QED
  BY <1>1, <1>2, DeskTypeMail, DeskTypeAdmin, DeskTypeDashboard DEF DeskNext

\* The tables, the mails and the history stay what they are, whoever writes.
THEOREM WritersTyped == DeskSpec => []WritersTypeOK
BY DeskTypeInit, DeskTypeStep, PTL DEF DeskSpec

------------------------------------------------------------------------------
(***************************************************************************)
(* What the steps do to one row.  Everybody's step is one of these.        *)
(***************************************************************************)

RowSound(q) ==
    /\ questions[q].status = "in_process" =>
         questions[q].lock # NoLock /\ (questions[q].owner # NoRabbi \/ gone # {})
    /\ questions[q].status = "answered" => answers[q] # NoRabbi

\* The dashboard and the jobs keep a sound row sound and lose no answer.
LEMMA DashboardRows ==
    ASSUME WritersTypeOK, WritersTypeOK', TableStep, gone' = gone, NEW q \in Questions
    PROVE  /\ RowSound(q) => RowSound(q)'
           /\ answers[q] # NoRabbi => answers'[q] = answers[q]
           /\ answers[q] = NoRabbi /\ answers'[q] # NoRabbi => questions'[q].status = "answered"
<1>0. StoreTypeOK /\ questions[q] \in QuestionRow
  BY DEF WritersTypeOK, TypeOK, StoreTypeOK
<1>1. CASE UNCHANGED <<questions, answers, held>>
  BY <1>1 DEF RowSound
<1>2. ASSUME NEW p \in Questions, NEW r \in Rabbis, Takes(p, r)
      PROVE  /\ RowSound(q) => RowSound(q)'
             /\ answers' = answers
  <2>1. CASE p = q
    <3>1. questions'[q] = Claimed(questions[q], r)
      BY <1>0, <1>2, <2>1, WriteRows DEF Takes
    <3>2. questions'[q].lock = 0 /\ questions'[q].owner = r /\ questions'[q].status = "in_process"
      BY <1>0, <3>1 DEF Claimed, QuestionRow
    <3>3. QED
      BY <1>2, <3>2, StoreAssumption DEF Takes, UpdatesQuestions, RowSound, NoLock
  <2>2. CASE p # q
    BY <1>0, <1>2, <2>2, WriteRows DEF Takes, UpdatesQuestions, RowSound
  <2>3. QED
    BY <2>1, <2>2
<1>3. ASSUME NEW p \in Questions, Releases(p)
      PROVE  /\ RowSound(q) => RowSound(q)'
             /\ answers' = answers
  <2>1. CASE p = q
    <3>1. questions'[q] = Released(questions[q])
      BY <1>0, <1>3, <2>1, WriteRows DEF Releases
    <3>2. questions'[q].status = "pending"
      BY <1>0, <3>1 DEF Released, QuestionRow
    <3>3. QED
      BY <1>3, <3>2 DEF Releases, UpdatesQuestions, RowSound
  <2>2. CASE p # q
    BY <1>0, <1>3, <2>2, WriteRows DEF Releases, UpdatesQuestions, RowSound
  <2>3. QED
    BY <2>1, <2>2
<1>4. ASSUME NEW p \in Questions, NEW r \in Rabbis, Hands(p, r)
      PROVE  /\ RowSound(q) => RowSound(q)'
             /\ answers' = answers
  <2>1. CASE p = q
    <3>1. questions'[q] = HandedTo(questions[q], r)
      BY <1>0, <1>4, <2>1, WriteRows DEF Hands
    <3>2. /\ questions'[q].lock = 0 /\ questions'[q].owner = r
          /\ questions'[q].status = questions[q].status
      BY <1>0, <3>1 DEF HandedTo, QuestionRow
    <3>3. QED
      BY <1>4, <3>2, StoreAssumption DEF Hands, UpdatesQuestions, RowSound, NoLock
  <2>2. CASE p # q
    BY <1>0, <1>4, <2>2, WriteRows DEF Hands, UpdatesQuestions, RowSound
  <2>3. QED
    BY <2>1, <2>2
<1>5. ASSUME NEW p \in Questions, NEW r \in Rabbis, Publishes(p, r)
      PROVE  /\ RowSound(q) => RowSound(q)'
             /\ answers[q] # NoRabbi => answers'[q] = answers[q]
             /\ answers[q] = NoRabbi /\ answers'[q] # NoRabbi =>
                  questions'[q].status = "answered"
  <2>1. CASE p = q
    <3>1. \/ questions'[q] = Answered(questions[q])
          \/ questions'[q] = Answered([questions[q] EXCEPT !.owner = r])
      BY <1>0, <1>5, <2>1, WriteRows DEF Publishes
    <3>2. questions'[q].status = "answered"
      BY <1>0, <3>1 DEF Answered, QuestionRow
    <3>3. answers[q] = NoRabbi /\ answers'[q] = r
      BY <1>0, <1>5, <2>1 DEF Publishes, StoreTypeOK
    <3>4. QED
      BY <3>2, <3>3, StoreAssumption DEF RowSound
  <2>2. CASE p # q
    <3>1. questions'[q] = questions[q]
      BY <1>0, <1>5, <2>2, WriteRows DEF Publishes
    <3>2. answers'[q] = answers[q]
      BY <1>0, <1>5, <2>2 DEF Publishes, StoreTypeOK
    <3>3. QED
      BY <3>1, <3>2 DEF RowSound
  <2>3. QED
    BY <2>1, <2>2
<1>6. ASSUME NEW p \in Questions, Warns(p)
      PROVE  /\ RowSound(q) => RowSound(q)'
             /\ answers' = answers
  <2>1. /\ questions'[q].status = questions[q].status
        /\ questions'[q].owner = questions[q].owner
        /\ questions'[q].lock = questions[q].lock
    <3>1. CASE p = q
      <4>1. questions'[q] = [questions[q] EXCEPT !.warned = TRUE]
        BY <1>0, <1>6, <3>1, WriteRows DEF Warns
      <4>2. QED
        BY <1>0, <4>1 DEF QuestionRow
    <3>2. CASE p # q
      BY <1>0, <1>6, <3>2, WriteRows DEF Warns
    <3>3. QED
      BY <3>1, <3>2
  <2>2. QED
    BY <1>6, <2>1 DEF Warns, UpdatesQuestions, RowSound
<1>7. CASE TimeoutStart
  <2>1. CASE q \in Expired
    <3>1. questions'[q].status = "pending"
      BY <1>0, <1>7, <2>1, TimedOutRows DEF Released, QuestionRow
    <3>2. QED
      BY <1>7, <3>1 DEF TimeoutStart, UpdatesQuestions, RowSound
  <2>2. CASE q \notin Expired
    BY <1>0, <1>7, <2>2, TimedOutRows DEF TimeoutStart, UpdatesQuestions, RowSound
  <2>3. QED
    BY <2>1, <2>2
<1>8. CASE AgeLocks
  <2>1. /\ questions'[q].status = questions[q].status
        /\ questions'[q].owner = questions[q].owner
        /\ questions[q].lock # NoLock => questions'[q].lock # NoLock
    <3>1. CASE questions[q].lock = NoLock
      BY <1>8, <3>1 DEF AgeLocks
    <3>2. CASE questions[q].lock # NoLock
      <4>1. questions'[q] = [questions[q] EXCEPT !.lock = Older(questions[q].lock)]
        BY <1>8, <3>2 DEF AgeLocks
      <4>2. Older(questions[q].lock) # NoLock
        BY <1>0, <3>2, OlderLock DEF QuestionRow
      <4>3. QED
        BY <1>0, <4>1, <4>2 DEF QuestionRow
    <3>3. QED
      BY <3>1, <3>2
  <2>2. QED
    BY <1>8, <2>1 DEF AgeLocks, RowSound
<1>9. QED
  BY <1>1, <1>2, <1>3, <1>4, <1>5, <1>6, <1>7, <1>8 DEF TableStep, WriteStep

------------------------------------------------------------------------------
(***************************************************************************)
(* The invariant.  A mail that found nothing changed since it read the     *)
(* question may rely on what it read (ViewsHold); it writes an answer      *)
(* before it sets the status (StoredFirst); and an answer without its      *)
(* status has a mail at work on it, or a race behind it (StatusFollows).   *)
(***************************************************************************)
IsAt(n, q, pcs) == mails[n] # NoMail /\ mails[n].q = q /\ mails[n].pc \in pcs

StillTrue(n) ==
    LET row == questions[mails[n].q] IN
      /\ mails[n].pc # "finish" => row.status # "answered"
      /\ mails[n].pc \in {"claim", "autoClaim"} => LooksFree(row)
      /\ mails[n].pc \in {"lookup", "replace", "insert", "finish"} =>
           mails[n].by \in Admins \/ row.owner = mails[n].by

ViewsHold ==
    \A n \in Mails : mails[n] # NoMail /\ ~raced[mails[n].q] => StillTrue(n)

StoredFirst ==
    \A n \in Mails, q \in Questions :
        IsAt(n, q, {"replace", "finish"}) => answers[q] # NoRabbi

StatusFollows ==
    \A q \in Questions :
        ~raced[q] /\ answers[q] # NoRabbi =>
            \/ questions[q].status = "answered"
            \/ \E n \in Mails : IsAt(n, q, {"finish"})

DeskInv ==
    /\ WritersTypeOK
    /\ UnforcedIsSound
    /\ ForeignTextNeedsRace
    /\ ViewsHold
    /\ StoredFirst
    /\ StatusFollows

\* What every step does, M being the mail that takes it, if one does.
StepFacts(M) ==
    /\ \A q \in Questions :
          /\ raced[q] => raced'[q]
          /\ Reopens(q) => raced'[q]
          /\ Moved(q) /\ Pending(q, M) => raced'[q]
    /\ \A n \in Mails \ M : mails'[n] = mails[n]
    /\ \A n \in Mails, q \in Questions :
          IsAt(n, q, {"finish"}) =>
              mails'[n] = mails[n] \/ questions'[q].status = "answered" \/ raced'[q]
    /\ \A q \in Questions :
          /\ answers[q] # NoRabbi => answers'[q] # NoRabbi
          /\ answers[q] = NoRabbi /\ answers'[q] # NoRabbi =>
               \/ questions'[q].status = "answered"
               \/ \E n \in Mails : IsAt(n, q, {"finish"})'
    /\ \A q \in Questions :
          ~forced'[q] => ~forced[q] /\ (RowSound(q) => RowSound(q)')

SoundRows == \A q \in Questions : ~forced[q] => RowSound(q)

\* UnforcedIsSound speaks of single rows.
LEMMA SoundIsSound == UnforcedIsSound <=> SoundRows
BY DEF UnforcedIsSound, SoundRows, RowSound

\* The part of the invariant that the facts alone keep: all of it but what
\* the mail that took the step has to show for itself.
LEMMA FactsKeep ==
    ASSUME DeskInv, WritersTypeOK', NEW M \in SUBSET Mails, StepFacts(M),
           TextFollowsAuthor \/ ForeignTextNeedsRace',
           \A m \in M : /\ mails'[m] # NoMail /\ ~raced'[mails'[m].q] => StillTrue(m)'
                        /\ \A q \in Questions :
                             IsAt(m, q, {"replace", "finish"})' => answers'[q] # NoRabbi
    PROVE  DeskInv'
<1>1. UnforcedIsSound'
  <2>1. SoundRows'
    BY SoundIsSound DEF SoundRows, StepFacts, DeskInv
  <2>2. QED
    BY <2>1 DEF UnforcedIsSound, SoundRows, RowSound
<1>2. ForeignTextNeedsRace'
  <2>1. CASE TextFollowsAuthor
    BY <2>1 DEF TextFollowsAuthor, ForeignTextNeedsRace, DeskInv, StepFacts
  <2>2. QED
    BY <2>1
<1>3. ViewsHold'
  <2>1. SUFFICES ASSUME NEW n \in Mails, mails'[n] # NoMail, ~raced'[mails'[n].q]
                 PROVE  StillTrue(n)'
    BY DEF ViewsHold
  <2>2. CASE n \in M
    BY <2>1, <2>2
  <2>3. CASE n \notin M
    <3> DEFINE q == mails[n].q
    <3>1. mails'[n] = mails[n] /\ mails[n] # NoMail
      BY <2>1, <2>3 DEF StepFacts
    <3>2. q \in Questions
      BY <3>1, OpenMail DEF DeskInv
    <3>3. Pending(q, M)
      BY <2>3, <3>1 DEF Pending
    <3>4. ~raced[q] /\ ~Moved(q)
      BY <2>1, <3>1, <3>2, <3>3 DEF StepFacts
    <3>5. StillTrue(n)
      BY <3>1, <3>4 DEF DeskInv, ViewsHold
    <3>6. questions'[q].status = questions[q].status /\ questions'[q].owner = questions[q].owner
      BY <3>4 DEF Moved
    <3>7. QED
      BY <3>1, <3>5, <3>6 DEF StillTrue, LooksFree
  <2>4. QED
    BY <2>2, <2>3
<1>4. StoredFirst'
  <2>1. SUFFICES ASSUME NEW n \in Mails, NEW q \in Questions,
                        IsAt(n, q, {"replace", "finish"})'
                 PROVE  answers'[q] # NoRabbi
    BY DEF StoredFirst
  <2>2. CASE n \in M
    BY <2>1, <2>2
  <2>3. CASE n \notin M
    <3>1. IsAt(n, q, {"replace", "finish"})
      BY <2>1, <2>3 DEF StepFacts, IsAt
    <3>2. QED
      BY <3>1 DEF DeskInv, StoredFirst, StepFacts
  <2>4. QED
    BY <2>2, <2>3
<1>5. StatusFollows'
  <2>1. SUFFICES ASSUME NEW q \in Questions, ~raced'[q], answers'[q] # NoRabbi,
                        questions'[q].status # "answered"
                 PROVE  \E n \in Mails : IsAt(n, q, {"finish"})'
    BY DEF StatusFollows
  <2>2. CASE answers[q] = NoRabbi
    BY <2>1, <2>2 DEF StepFacts
  <2>3. CASE answers[q] # NoRabbi
    <3>1. ~raced[q] /\ questions[q].status # "answered"
      BY <2>1 DEF StepFacts, Reopens
    <3>2. PICK n \in Mails : IsAt(n, q, {"finish"})
      BY <2>3, <3>1 DEF DeskInv, StatusFollows
    <3>3. mails'[n] = mails[n]
      BY <2>1, <3>2 DEF StepFacts
    <3>4. IsAt(n, q, {"finish"})'
      BY <3>2, <3>3 DEF IsAt
    <3>5. QED
      BY <3>4
  <2>4. QED
    BY <2>2, <2>3
<1>6. QED
  BY <1>1, <1>2, <1>3, <1>4, <1>5 DEF DeskInv

\* A step of the dashboard or of a job.
LEMMA DashboardFacts ==
    ASSUME DeskInv, WritersTypeOK', DashboardStep
    PROVE  StepFacts({})
<1>1. TableStep
  BY DashboardIsNext, StepKinds DEF DeskInv, WritersTypeOK
<1>2. gone' = gone /\ mails' = mails /\ forced' = forced
  BY DEF DashboardStep
<1>3. \A q \in Questions :
        /\ RowSound(q) => RowSound(q)'
        /\ answers[q] # NoRabbi => answers'[q] = answers[q]
        /\ answers[q] = NoRabbi /\ answers'[q] # NoRabbi => questions'[q].status = "answered"
  BY <1>1, <1>2, DashboardRows DEF DeskInv
<1>4. \A q \in Questions :
        /\ raced[q] => raced'[q]
        /\ Reopens(q) => raced'[q]
        /\ Moved(q) /\ Pending(q, {}) => raced'[q]
  BY RacesType DEF DashboardStep, DeskInv
<1>5. QED
  BY <1>2, <1>3, <1>4 DEF StepFacts

\* A statement on one row by somebody without a mail, that leaves the row
\* sound or is accounted for in forced.
LEMMA WritesRowFacts ==
    ASSUME DeskInv, NEW q \in Questions, NEW row, WritesRow(q, row),
           \/ forced' = forced /\ gone' = gone /\ (RowSound(q) => RowSound(q)')
           \/ gone' = gone /\ forced' = [forced EXCEPT ![q] = TRUE]
    PROVE  StepFacts({})
<1>1. mails' = mails /\ answers' = answers
  BY DEF WritesRow, UpdatesQuestions
<1>2. \A p \in Questions :
        /\ raced[p] => raced'[p]
        /\ Reopens(p) => raced'[p]
        /\ Moved(p) /\ Pending(p, {}) => raced'[p]
  BY RacesType DEF WritesRow, DeskInv
<1>3. \A p \in Questions \ {q} : questions'[p] = questions[p]
  BY WriteRows DEF WritesRow, DeskInv, WritersTypeOK, TypeOK
<1>4. ASSUME NEW p \in Questions, ~forced'[p]
      PROVE  ~forced[p] /\ (RowSound(p) => RowSound(p)')
  <2>1. gone' = gone /\ forced[p] = forced'[p]
    BY <1>4 DEF DeskInv, WritersTypeOK
  <2>2. CASE p # q
    BY <1>1, <1>3, <1>4, <2>1, <2>2 DEF RowSound
  <2>3. CASE p = q
    BY <1>4, <2>1, <2>3 DEF DeskInv, WritersTypeOK
  <2>4. QED
    BY <2>2, <2>3
<1>5. QED
  BY <1>1, <1>2, <1>4 DEF StepFacts

\* What the row holds after a statement on it.
LEMMA RowAfter ==
    ASSUME WritersTypeOK, NEW q \in Questions, NEW row, Write(q, row)
    PROVE  /\ questions'[q] = row
           /\ \A p \in Questions \ {q} : questions'[p] = questions[p]
BY WriteRows DEF WritersTypeOK, TypeOK

\* Releasing and claiming leave a sound row.
LEMMA ReleasedSound ==
    ASSUME WritersTypeOK, NEW q \in Questions, Write(q, MailReleased(questions[q]))
    PROVE  RowSound(q)'
<1>0. questions[q] \in QuestionRow
  BY AdminRows
<1>1. questions'[q] = MailReleased(questions[q])
  BY RowAfter
<1>2. questions'[q].status = "pending"
  BY <1>0, <1>1 DEF MailReleased, QuestionRow
<1>3. QED
  BY <1>2 DEF RowSound

\* A claim leaves a row in process with an owner and a lock.
LEMMA ClaimedSound ==
    ASSUME WritersTypeOK, NEW q \in Questions, NEW r \in Rabbis,
           Write(q, Claimed(questions[q], r))
    PROVE  /\ RowSound(q)'
           /\ questions'[q].status = "in_process"
           /\ questions'[q].owner = r
<1>0. questions[q] \in QuestionRow
  BY AdminRows
<1>1. questions'[q] = Claimed(questions[q], r)
  BY RowAfter
<1>2. /\ questions'[q].status = "in_process"
      /\ questions'[q].owner = r
      /\ questions'[q].lock = 0
  BY <1>0, <1>1 DEF Claimed, QuestionRow
<1>3. QED
  BY <1>2, StoreAssumption DEF RowSound, NoLock

\* A release by an administrator leaves a pending row, if with an old lock.
LEMMA PatchReleasedSound ==
    ASSUME WritersTypeOK, NEW q \in Questions,
           Write(q, [questions[q] EXCEPT !.status = "pending", !.owner = NoRabbi])
    PROVE  RowSound(q)'
<1>0. questions[q] \in QuestionRow
  BY AdminRows
<1>1. questions'[q] = [questions[q] EXCEPT !.status = "pending", !.owner = NoRabbi]
  BY RowAfter
<1>2. questions'[q].status = "pending"
  BY <1>0, <1>1 DEF QuestionRow
<1>3. QED
  BY <1>2 DEF RowSound

\* The release of the inbound webhook is one write of a row.
LEMMA InboundFacts ==
    ASSUME DeskInv, NEW r \in Rabbis, NEW q \in Questions, InboundRelease(r, q)
    PROVE  StepFacts({})
<1> DEFINE row == MailReleased(questions[q])
<1>1. WritesRow(q, row) /\ forced' = forced /\ gone' = gone
  BY DEF InboundRelease, WritesRow
<1>2. RowSound(q)'
  BY <1>1, ReleasedSound DEF WritesRow, DeskInv
<1> HIDE DEF row
<1>3. QED
  BY <1>1, <1>2, WritesRowFacts

\* The administrator's steps.
LEMMA RemoveFacts ==
    ASSUME DeskInv, RemoveWrite PROVE StepFacts({})
<1>1. removal.by \in Rabbis /\ removal.of \in Rabbis
  BY StoreAssumption DEF RemoveWrite, DeskInv, WritersTypeOK, Removal
<1>2. mails' = mails /\ forced' = forced /\ gone' # {}
  BY DEF RemoveWrite
<1>3. \A p \in Questions :
        /\ raced[p] => raced'[p]
        /\ Reopens(p) => raced'[p]
        /\ Moved(p) /\ Pending(p, {}) => raced'[p]
  BY RacesType DEF RemoveWrite, DeskInv
<1>4. \A p \in Questions : answers'[p] = NoRabbi <=> answers[p] = NoRabbi
  BY <1>1, StoreAssumption DEF RemoveWrite
<1>5. ASSUME NEW p \in Questions, RowSound(p) PROVE RowSound(p)'
  <2>1. \/ questions'[p] = questions[p]
        \/ questions'[p] = [questions[p] EXCEPT !.owner = NoRabbi]
    BY DEF RemoveWrite
  <2>2. questions'[p].status = questions[p].status /\ questions'[p].lock = questions[p].lock
    BY <2>1, AdminRows DEF QuestionRow, DeskInv
  <2>3. QED
    BY <1>2, <1>4, <1>5, <2>2 DEF RowSound
<1>6. QED
  BY <1>2, <1>3, <1>4, <1>5 DEF StepFacts

\* What an administrator does is one write of a row, or of rows of nobody.
LEMMA AdminFacts ==
    ASSUME DeskInv, AdminStep PROVE StepFacts({})
<1>1. ASSUME NEW q \in Questions, NEW status, PatchStatus(q, status)
      PROVE  StepFacts({})
  <2> DEFINE row == [questions[q] EXCEPT !.status = status]
  <2>1. WritesRow(q, row) /\ gone' = gone /\ forced' = [forced EXCEPT ![q] = TRUE]
    BY <1>1 DEF PatchStatus, WritesRow
  <2> HIDE DEF row
  <2>2. QED
    BY <2>1, WritesRowFacts
<1>2. ASSUME NEW q \in Questions, PatchRelease(q) PROVE StepFacts({})
  <2> DEFINE row == [questions[q] EXCEPT !.status = "pending", !.owner = NoRabbi]
  <2>1. WritesRow(q, row) /\ gone' = gone /\ forced' = forced
    BY <1>2 DEF PatchRelease, WritesRow
  <2>2. RowSound(q)'
    BY <2>1, PatchReleasedSound DEF WritesRow, DeskInv
  <2> HIDE DEF row
  <2>3. QED
    BY <2>1, <2>2, WritesRowFacts
<1>3. ASSUME NEW q \in Questions, AdminRelease(q) PROVE StepFacts({})
  <2> DEFINE row == MailReleased(questions[q])
  <2>1. WritesRow(q, row) /\ gone' = gone /\ forced' = forced
    BY <1>3 DEF AdminRelease, WritesRow
  <2>2. RowSound(q)'
    BY <2>1, ReleasedSound DEF WritesRow, DeskInv
  <2> HIDE DEF row
  <2>3. QED
    BY <2>1, <2>2, WritesRowFacts
<1>4. ASSUME NEW q \in Questions, NEW r \in Rabbis, AdminAssign(r, q)
      PROVE  StepFacts({})
  <2> DEFINE row == Claimed(questions[q], r)
  <2>1. WritesRow(q, row) /\ gone' = gone /\ forced' = forced
    BY <1>4 DEF AdminAssign, WritesRow
  <2>2. RowSound(q)'
    BY <2>1, ClaimedSound DEF WritesRow, DeskInv
  <2> HIDE DEF row
  <2>3. QED
    BY <2>1, <2>2, WritesRowFacts
<1>5. ASSUME NEW a \in Rabbis, NEW r \in Rabbis, RemoveCheck(a, r)
      PROVE  StepFacts({})
  BY <1>5 DEF RemoveCheck, vars, store, StepFacts, Reopens, Moved, RowSound
<1>6. QED
  BY <1>1, <1>2, <1>3, <1>4, <1>5, RemoveFacts DEF AdminStep, PageAssign

\* So none of them breaks the invariant.
LEMMA OthersKeep ==
    ASSUME DeskInv,
           \/ DashboardStep
           \/ \E r \in Rabbis, q \in Questions : InboundRelease(r, q)
           \/ AdminStep
    PROVE  DeskInv'
<1>1. WritersTypeOK'
  BY DeskTypeStep DEF DeskInv, DeskNext
<1>2. StepFacts({})
  BY <1>1, DashboardFacts, InboundFacts, AdminFacts
<1>3. TextFollowsAuthor \/ ForeignTextNeedsRace'
  <2>1. ASSUME NEW a \in Rabbis, NEW r \in Rabbis, RemoveCheck(a, r)
        PROVE  ForeignTextNeedsRace'
    BY <2>1 DEF RemoveCheck, vars, store, ForeignTextNeedsRace, DeskInv
  <2>2. QED
    BY <2>1 DEF DashboardStep, InboundRelease, AdminStep, PageAssign, PatchStatus,
                PatchRelease, AdminRelease, AdminAssign, RemoveWrite, WritesRow
<1>4. QED
  BY <1>1, <1>2, <1>3, FactsKeep

------------------------------------------------------------------------------
(***************************************************************************)
(* The mails.                                                              *)
(***************************************************************************)

\* What a decision rests on.
LEMMA DecisionRests ==
    ASSUME NEW kind \in Kinds, NEW r, NEW row,
           NEW pc, pc = Decision(kind, r, row), pc # "done"
    PROVE  /\ row.status # "answered"
           /\ pc \in {"claim", "autoClaim"} => LooksFree(row)
           /\ pc = "lookup" => r \in Admins \/ row.owner = r
           /\ pc \in {"claim", "release", "linkRelease", "autoClaim", "lookup"}
BY DEF Decision, IsAnswered, MayAnswer

\* The look of a mail at its question keeps the invariant.
LEMMA MailReadKeeps ==
    ASSUME DeskInv, NEW m \in Mails, NEW kind \in Kinds, NEW r \in Rabbis,
           NEW q \in Questions, MailRead(m, kind, r, q), WritersTypeOK'
    PROVE  DeskInv'
<1> DEFINE pc == Decision(kind, r, questions[q])
<1>1. /\ pc # "done" /\ mails[m] = NoMail
      /\ mails' = [mails EXCEPT ![m] = [pc |-> pc, by |-> r, q |-> q]]
      /\ UNCHANGED <<vars, removal, gone, text, raced, forced>>
  BY DEF MailRead
<1>2. /\ questions[q].status # "answered"
      /\ pc \in {"claim", "autoClaim"} => LooksFree(questions[q])
      /\ pc = "lookup" => r \in Admins \/ questions[q].owner = r
      /\ pc \in {"claim", "release", "linkRelease", "autoClaim", "lookup"}
  BY <1>1, DecisionRests
<1> HIDE DEF pc
<1>3. /\ mails'[m] = [pc |-> pc, by |-> r, q |-> q]
      /\ \A n \in Mails \ {m} : mails'[n] = mails[n]
  BY <1>1 DEF DeskInv, WritersTypeOK
<1>4. questions' = questions /\ answers' = answers
  BY <1>1 DEF vars, store
<1>5. StillTrue(m)'
  BY <1>2, <1>3, <1>4 DEF StillTrue, LooksFree
<1>6. StepFacts({m})
  BY <1>1, <1>3, <1>4 DEF StepFacts, Reopens, Moved, RowSound, IsAt
<1>7. ForeignTextNeedsRace'
  BY <1>1, <1>4 DEF ForeignTextNeedsRace, DeskInv
<1>8. \A p \in Questions : ~IsAt(m, p, {"replace", "finish"})'
  BY <1>2, <1>3 DEF IsAt
<1>9. QED
  BY <1>5, <1>6, <1>7, <1>8, FactsKeep

\* An UPDATE of a mail that ends the mail, and leaves a sound row.
LEMMA LastUpdateKeeps ==
    ASSUME DeskInv, WritersTypeOK', NEW m \in Mails, mails[m] # NoMail, NEW row,
           MailUpdates(m, row, "done"),
           NEW q \in Questions, q = mails[m].q,
           RowSound(q) => RowSound(q)',
           mails[m].pc = "finish" => row.status = "answered"
    PROVE  DeskInv'
<1>1. q \in Questions
  OBVIOUS
<1>2. mails'[m] = NoMail /\ \A n \in Mails \ {m} : mails'[n] = mails[n]
  BY MoveType DEF MailUpdates, DeskInv
<1>3. /\ questions'[q] = row
      /\ \A p \in Questions \ {q} : questions'[p] = questions[p]
  BY <1>1, RowAfter DEF MailUpdates, DeskInv
<1>4. answers' = answers /\ gone' = gone /\ forced' = forced
  BY DEF MailUpdates, UpdatesQuestions
<1>5. \A p \in Questions :
        /\ raced[p] => raced'[p]
        /\ Reopens(p) => raced'[p]
        /\ Moved(p) /\ Pending(p, {m}) => raced'[p]
  BY RacesType DEF MailUpdates, DeskInv
<1>6. \A p \in Questions : RowSound(p) => RowSound(p)'
  BY <1>3, <1>4 DEF RowSound
<1>7. \A n \in Mails, p \in Questions :
        IsAt(n, p, {"finish"}) =>
            mails'[n] = mails[n] \/ questions'[p].status = "answered"
  BY <1>2, <1>3 DEF IsAt
<1>8. StepFacts({m})
  BY <1>2, <1>4, <1>5, <1>6, <1>7 DEF StepFacts
<1>9. QED
  BY <1>2, <1>8, FactsKeep DEF MailUpdates, IsAt

\* The claim of a mail keeps the invariant.
LEMMA MailClaimKeeps ==
    ASSUME DeskInv, WritersTypeOK', NEW m \in Mails, MailClaim(m)
    PROVE  DeskInv'
<1> DEFINE row == MailClaimed(questions[mails[m].q], mails[m].by)
<1>0. PICK q \in Questions : q = mails[m].q
  BY OpenMail DEF MailClaim, MailAt, DeskInv
<1>1. mails[m] # NoMail /\ mails[m].pc = "claim" /\ MailUpdates(m, row, "done")
  BY DEF MailClaim, MailAt
<1>2. RowSound(q)'
  BY <1>0, <1>1, OpenMail, ClaimedSound DEF MailUpdates, MailClaimed, DeskInv
<1> HIDE DEF row
<1>3. QED
  BY <1>0, <1>1, <1>2, LastUpdateKeeps

\* The release of a mail keeps the invariant.
LEMMA MailReleaseKeeps ==
    ASSUME DeskInv, WritersTypeOK', NEW m \in Mails, MailRelease(m)
    PROVE  DeskInv'
<1> DEFINE row == MailReleased(questions[mails[m].q])
<1>0. PICK q \in Questions : q = mails[m].q
  BY OpenMail DEF MailRelease, MailAt, DeskInv
<1>1. mails[m] # NoMail /\ mails[m].pc = "release" /\ MailUpdates(m, row, "done")
  BY DEF MailRelease, MailAt
<1>2. RowSound(q)'
  BY <1>0, <1>1, OpenMail, ReleasedSound DEF MailUpdates, DeskInv
<1> HIDE DEF row
<1>3. QED
  BY <1>0, <1>1, <1>2, LastUpdateKeeps

\* The release by a link keeps the invariant.
LEMMA LinkReleaseKeeps ==
    ASSUME DeskInv, WritersTypeOK', NEW m \in Mails, LinkRelease(m)
    PROVE  DeskInv'
<1>0. PICK q \in Questions : q = mails[m].q
  BY OpenMail DEF LinkRelease, MailAt, DeskInv
<1> DEFINE old == questions[mails[m].q]
           row == IF old.owner = mails[m].by THEN MailReleased(old) ELSE old
<1>1. mails[m] # NoMail /\ mails[m].pc = "linkRelease" /\ MailUpdates(m, row, "done")
  BY DEF LinkRelease, MailAt
<1>2. q \in Questions
  OBVIOUS
<1>3. RowSound(q) => RowSound(q)'
  <2>1. CASE old.owner = mails[m].by
    BY <1>0, <1>1, <1>2, <2>1, ReleasedSound DEF MailUpdates, DeskInv
  <2>2. CASE old.owner # mails[m].by
    <3>1. questions'[q] = questions[q] /\ answers' = answers /\ gone' = gone
      BY <1>0, <1>1, <1>2, <2>2, RowAfter DEF MailUpdates, UpdatesQuestions, DeskInv
    <3>2. QED
      BY <3>1 DEF RowSound
  <2>3. QED
    BY <2>1, <2>2
<1> HIDE DEF row
<1>4. QED
  BY <1>0, <1>1, <1>3, LastUpdateKeeps

\* The last statement of an answer finds the answer stored.
LEMMA MailFinishKeeps ==
    ASSUME DeskInv, WritersTypeOK', NEW m \in Mails, MailFinish(m)
    PROVE  DeskInv'
<1>0. PICK q \in Questions : q = mails[m].q
  BY OpenMail DEF MailFinish, MailAt, DeskInv
<1> DEFINE row == [Answered(questions[mails[m].q]) EXCEPT !.owner = mails[m].by]
<1>1. mails[m] # NoMail /\ mails[m].pc = "finish" /\ MailUpdates(m, row, "done")
  BY DEF MailFinish, MailAt
<1>2. q \in Questions /\ questions[q] \in QuestionRow
  BY <1>0, <1>1, OpenMail DEF DeskInv
<1>3. row.status = "answered"
  BY <1>0, <1>2 DEF Answered, QuestionRow
<1>4. questions'[q] = row
  BY <1>0, <1>1, <1>2, RowAfter DEF MailUpdates, DeskInv
<1>5. answers[q] # NoRabbi /\ answers' = answers
  BY <1>0, <1>1, <1>2 DEF DeskInv, StoredFirst, IsAt, MailUpdates, UpdatesQuestions
<1>6. RowSound(q)'
  BY <1>3, <1>4, <1>5 DEF RowSound
<1> HIDE DEF row
<1>7. QED
  BY <1>0, <1>1, <1>3, <1>6, LastUpdateKeeps

\* The claim before an answer by mail keeps the invariant.
LEMMA MailAutoClaimKeeps ==
    ASSUME DeskInv, WritersTypeOK', NEW m \in Mails, MailAutoClaim(m)
    PROVE  DeskInv'
<1>0. PICK q \in Questions, r \in Rabbis : q = mails[m].q /\ r = mails[m].by
  BY OpenMail DEF MailAutoClaim, MailAt, DeskInv
<1> DEFINE row == MailClaimed(questions[mails[m].q], mails[m].by)
<1>1. mails[m] # NoMail /\ mails[m].pc = "autoClaim" /\ MailUpdates(m, row, "lookup")
  BY DEF MailAutoClaim, MailAt
<1>3. /\ RowSound(q)'
      /\ questions'[q].status = "in_process"
      /\ questions'[q].owner = r
  BY <1>0, <1>1, ClaimedSound DEF MailUpdates, MailClaimed, DeskInv
<1>4. \A p \in Questions \ {q} : questions'[p] = questions[p]
  BY <1>0, <1>1, RowAfter DEF MailUpdates, DeskInv
<1> HIDE DEF row
<1>5. /\ mails'[m] # NoMail /\ mails'[m].pc = "lookup"
      /\ mails'[m].by = r /\ mails'[m].q = q
      /\ \A n \in Mails \ {m} : mails'[n] = mails[n]
  <2>1. MailMoves(m, "lookup") /\ "lookup" \in Pcs \union {"done"}
    BY <1>1 DEF MailUpdates, Pcs
  <2>2. QED
    BY <1>0, <1>1, <2>1, MoveType DEF DeskInv
<1>6. answers' = answers /\ gone' = gone /\ forced' = forced /\ TextFollowsAuthor
  BY <1>1 DEF MailUpdates, UpdatesQuestions
<1>7. \A p \in Questions :
        /\ raced[p] => raced'[p]
        /\ Reopens(p) => raced'[p]
        /\ Moved(p) /\ Pending(p, {m}) => raced'[p]
  BY <1>1, RacesType DEF MailUpdates, DeskInv
<1>8. \A p \in Questions : RowSound(p) => RowSound(p)'
  BY <1>3, <1>4, <1>6 DEF RowSound
<1>9. StepFacts({m})
  BY <1>0, <1>1, <1>5, <1>6, <1>7, <1>8 DEF StepFacts, IsAt
<1>10. StillTrue(m)'
  BY <1>3, <1>5 DEF StillTrue
<1>11. \A p \in Questions : ~IsAt(m, p, {"replace", "finish"})'
  BY <1>5 DEF IsAt
<1>12. QED
  BY <1>6, <1>9, <1>10, <1>11, FactsKeep

\* The lookup sends the mail to the statement that fits what is stored.
LEMMA MailLookupKeeps ==
    ASSUME DeskInv, WritersTypeOK', NEW m \in Mails, MailLookup(m)
    PROVE  DeskInv'
<1>0. PICK q \in Questions : q = mails[m].q
  BY OpenMail DEF MailLookup, MailAt, DeskInv
<1>1. /\ mails[m] # NoMail /\ mails[m].pc = "lookup"
      /\ UNCHANGED <<vars, removal, gone, text, raced, forced>>
  BY DEF MailLookup, MailAt
<1>2. questions' = questions /\ answers' = answers
  BY <1>1 DEF vars, store
<1>3. PICK pc \in {"insert", "replace"} :
        MailMoves(m, pc) /\ (pc = "replace" => answers[q] # NoRabbi)
  BY <1>0 DEF MailLookup
<1>4. /\ mails'[m] # NoMail /\ mails'[m].pc = pc
      /\ mails'[m].by = mails[m].by /\ mails'[m].q = q
      /\ \A n \in Mails \ {m} : mails'[n] = mails[n]
  <2>1. pc \in Pcs \union {"done"} /\ pc # "done"
    BY DEF Pcs
  <2>2. QED
    BY <1>0, <1>1, <1>3, <2>1, MoveType DEF DeskInv
<1>5. StepFacts({m})
  BY <1>1, <1>2, <1>4 DEF StepFacts, Reopens, Moved, RowSound, IsAt
<1>6. ~raced'[mails'[m].q] => StillTrue(m)'
  <2>1. SUFFICES ASSUME ~raced[q] PROVE StillTrue(m)'
    BY <1>1, <1>4
  <2>2. StillTrue(m)
    BY <1>0, <1>1, <2>1 DEF DeskInv, ViewsHold
  <2>3. /\ questions[q].status # "answered"
        /\ mails[m].by \in Admins \/ questions[q].owner = mails[m].by
    BY <1>0, <1>1, <2>2 DEF StillTrue
  <2>4. QED
    BY <1>2, <1>3, <1>4, <2>3 DEF StillTrue
<1>7. \A p \in Questions : IsAt(m, p, {"replace", "finish"})' => answers'[p] # NoRabbi
  BY <1>2, <1>3, <1>4 DEF IsAt
<1>8. ForeignTextNeedsRace'
  BY <1>1, <1>2 DEF ForeignTextNeedsRace, DeskInv
<1>9. QED
  BY <1>5, <1>6, <1>7, <1>8, FactsKeep

\* A mail overwrites a text that is not its rabbi's only in a race: its view
\* says the question is not answered, an answer is stored, so another mail
\* is about to set the status.
LEMMA MailReplaceKeeps ==
    ASSUME DeskInv, WritersTypeOK', NEW m \in Mails, MailReplace(m)
    PROVE  DeskInv'
<1>0. PICK q \in Questions : q = mails[m].q
  BY OpenMail DEF MailReplace, MailAt, DeskInv
<1>1. /\ mails[m] # NoMail /\ mails[m].pc = "replace"
      /\ text' = [text EXCEPT ![q] = mails[m].by]
      /\ UNCHANGED <<vars, gone, forced>>
      /\ MailMoves(m, "finish")
  BY <1>0 DEF MailReplace, MailAt
<1>2. questions' = questions /\ answers' = answers
  BY <1>1 DEF vars, store
<1>3. /\ mails'[m] # NoMail /\ mails'[m].pc = "finish"
      /\ mails'[m].by = mails[m].by /\ mails'[m].q = q
      /\ \A n \in Mails \ {m} : mails'[n] = mails[n]
  <2>1. "finish" \in Pcs \union {"done"}
    BY DEF Pcs
  <2>2. QED
    BY <1>0, <1>1, <2>1, MoveType DEF DeskInv
<1>4. \A p \in Questions :
        /\ raced[p] => raced'[p]
        /\ Reopens(p) => raced'[p]
        /\ Moved(p) /\ Pending(p, {m}) => raced'[p]
  BY RacesType DEF MailReplace, DeskInv
<1>5. StepFacts({m})
  BY <1>1, <1>2, <1>3, <1>4 DEF StepFacts, RowSound, IsAt
<1>6. answers[q] # NoRabbi
  BY <1>0, <1>1 DEF DeskInv, StoredFirst, IsAt
<1>7. ~raced'[q] => StillTrue(m)
  BY <1>0, <1>1, <1>4 DEF DeskInv, ViewsHold
<1>8. ~raced'[mails'[m].q] => StillTrue(m)'
  <2>1. SUFFICES ASSUME ~raced'[q] PROVE StillTrue(m)'
    BY <1>3
  <2>2. mails[m].by \in Admins \/ questions[q].owner = mails[m].by
    BY <1>0, <1>1, <1>7, <2>1 DEF StillTrue
  <2>3. QED
    BY <1>2, <1>3, <2>2 DEF StillTrue
<1>9. \A p \in Questions : IsAt(m, p, {"replace", "finish"})' => answers'[p] # NoRabbi
  BY <1>2, <1>3, <1>6 DEF IsAt
<1>10. ForeignTextNeedsRace'
  <2>1. SUFFICES ASSUME NEW p \in Questions, text'[p] # answers'[p], ~raced'[p]
                 PROVE  FALSE
    BY DEF ForeignTextNeedsRace
  <2>2. text[p] = answers[p]
    BY <1>4, <2>1 DEF DeskInv, ForeignTextNeedsRace
  <2>3. p = q /\ text'[q] # text[q]
    BY <1>1, <1>2, <2>1, <2>2 DEF DeskInv, WritersTypeOK
  <2>4. questions[q].status # "answered"
    BY <1>0, <1>1, <1>7, <2>1, <2>3 DEF StillTrue
  <2>5. PICK n \in Mails : IsAt(n, q, {"finish"})
    BY <1>4, <1>6, <2>1, <2>3, <2>4 DEF DeskInv, StatusFollows
  <2>6. n # m /\ Pending(q, {m})
    BY <1>1, <2>5 DEF IsAt, Pending
  <2>7. QED
    BY <1>4, <2>1, <2>3, <2>6 DEF Moved
<1>11. QED
  BY <1>5, <1>8, <1>9, <1>10, FactsKeep

\* The INSERT of an answer by mail keeps the invariant.
LEMMA MailInsertKeeps ==
    ASSUME DeskInv, WritersTypeOK', NEW m \in Mails, MailInsert(m)
    PROVE  DeskInv'
<1>0. PICK q \in Questions, r \in Rabbis : q = mails[m].q /\ r = mails[m].by
  BY OpenMail DEF MailInsert, MailAt, DeskInv
<1>1. /\ mails[m] # NoMail /\ mails[m].pc = "insert"
      /\ questions' = questions /\ gone' = gone /\ forced' = forced
      /\ TextFollowsAuthor
  BY DEF MailInsert, MailAt
<1>2. \A p \in Questions :
        /\ raced[p] => raced'[p]
        /\ Reopens(p) => raced'[p]
        /\ Moved(p) /\ Pending(p, {m}) => raced'[p]
  BY RacesType DEF MailInsert, DeskInv
<1>3. CASE answers[q] = NoRabbi
  <2>1. answers' = [answers EXCEPT ![q] = r] /\ MailMoves(m, "finish")
    BY <1>0, <1>3 DEF MailInsert, InsertAnswer
  <2>2. /\ mails'[m] # NoMail /\ mails'[m].pc = "finish"
        /\ mails'[m].by = r /\ mails'[m].q = q
        /\ \A n \in Mails \ {m} : mails'[n] = mails[n]
    <3>1. "finish" \in Pcs \union {"done"}
      BY DEF Pcs
    <3>2. QED
      BY <1>0, <1>1, <2>1, <3>1, MoveType DEF DeskInv
  <2>3. /\ answers'[q] = r /\ r # NoRabbi
        /\ \A p \in Questions \ {q} : answers'[p] = answers[p]
    BY <2>1, StoreAssumption DEF DeskInv, WritersTypeOK, TypeOK, StoreTypeOK
  <2>4. \A p \in Questions : RowSound(p) => RowSound(p)'
    BY <1>1, <2>3 DEF RowSound
  <2>5. \A p \in Questions :
          answers[p] = NoRabbi /\ answers'[p] # NoRabbi => IsAt(m, p, {"finish"})'
    BY <2>2, <2>3 DEF IsAt
  <2>6. StepFacts({m})
    BY <1>1, <1>2, <2>2, <2>3, <2>4, <2>5 DEF StepFacts, IsAt
  <2>7. ~raced'[mails'[m].q] => StillTrue(m)'
    <3>1. SUFFICES ASSUME ~raced'[q] PROVE StillTrue(m)'
      BY <2>2
    <3>2. StillTrue(m)
      BY <1>0, <1>1, <1>2, <3>1 DEF DeskInv, ViewsHold
    <3>3. r \in Admins \/ questions[q].owner = r
      BY <1>0, <1>1, <3>2 DEF StillTrue
    <3>4. QED
      BY <1>1, <2>2, <3>3 DEF StillTrue
  <2>8. \A p \in Questions : IsAt(m, p, {"replace", "finish"})' => answers'[p] # NoRabbi
    BY <2>2, <2>3 DEF IsAt
  <2>9. QED
    BY <1>1, <2>6, <2>7, <2>8, FactsKeep
<1>4. CASE answers[q] # NoRabbi
  <2>1. answers' = answers /\ MailMoves(m, "done")
    BY <1>0, <1>4 DEF MailInsert, InsertAnswer
  <2>2. mails'[m] = NoMail /\ \A n \in Mails \ {m} : mails'[n] = mails[n]
    BY <1>1, <2>1, MoveType DEF DeskInv
  <2>3. StepFacts({m})
    BY <1>1, <1>2, <2>1, <2>2 DEF StepFacts, IsAt, RowSound
  <2>4. QED
    BY <1>1, <2>2, <2>3, FactsKeep DEF IsAt
<1>5. QED
  BY <1>3, <1>4

\* A mail that fails half way keeps the invariant.
LEMMA MailFailsKeeps ==
    ASSUME DeskInv, WritersTypeOK', NEW m \in Mails, MailFails(m)
    PROVE  DeskInv'
<1>1. /\ mails[m] # NoMail /\ MailMoves(m, "done")
      /\ UNCHANGED <<vars, gone, text, forced>>
      /\ \A p \in Questions :
            raced'[p] = (raced[p] \/ (mails[m].q = p /\ mails[m].pc = "finish"))
  BY DEF MailFails
<1>2. mails'[m] = NoMail /\ \A n \in Mails \ {m} : mails'[n] = mails[n]
  BY <1>1, MoveType DEF DeskInv
<1>3. questions' = questions /\ answers' = answers
  BY <1>1 DEF vars, store
<1>4. \A n \in Mails, p \in Questions :
        IsAt(n, p, {"finish"}) => mails'[n] = mails[n] \/ raced'[p]
  BY <1>1, <1>2 DEF IsAt
<1>5. \A p \in Questions : ~Reopens(p) /\ ~Moved(p) /\ (RowSound(p) => RowSound(p)')
  BY <1>1, <1>3 DEF Reopens, Moved, RowSound
<1>6. StepFacts({m})
  BY <1>1, <1>2, <1>3, <1>4, <1>5 DEF StepFacts
<1>7. ForeignTextNeedsRace'
  BY <1>1, <1>3 DEF ForeignTextNeedsRace, DeskInv
<1>8. QED
  BY <1>2, <1>6, <1>7, FactsKeep DEF IsAt

------------------------------------------------------------------------------
(***************************************************************************)
(* The theorems.                                                           *)
(***************************************************************************)

\* The invariant holds at first.
LEMMA DeskInvInit == DeskInit => DeskInv
<1> SUFFICES ASSUME DeskInit PROVE DeskInv
  OBVIOUS
<1>1. /\ \A q \in Questions : questions[q].status = "pending" /\ answers[q] = NoRabbi
      /\ \A q \in Questions : text[q] = NoRabbi
      /\ \A n \in Mails : mails[n] = NoMail
  BY DEF DeskInit, Init, StoreInit, NewQuestion
<1>2. QED
  BY <1>1, DeskTypeInit
     DEF DeskInv, UnforcedIsSound, ForeignTextNeedsRace, ViewsHold, StoredFirst,
         StatusFollows, IsAt

\* Every step keeps the invariant.
LEMMA DeskInvStep == DeskInv /\ [DeskNext]_deskVars => DeskInv'
<1> SUFFICES ASSUME DeskInv, [DeskNext]_deskVars PROVE DeskInv'
  OBVIOUS
<1>1. WritersTypeOK'
  BY DeskTypeStep DEF DeskInv
<1>2. ASSUME NEW m \in Mails, MailStep(m) PROVE DeskInv'
  BY <1>1, <1>2, MailReadKeeps, MailClaimKeeps, MailReleaseKeeps, LinkReleaseKeeps,
     MailAutoClaimKeeps, MailLookupKeeps, MailReplaceKeeps, MailInsertKeeps,
     MailFinishKeeps, MailFailsKeeps
     DEF MailStep
<1>3. CASE UNCHANGED deskVars
  BY <1>1, <1>3
     DEF deskVars, writerVars, vars, store, DeskInv, UnforcedIsSound,
         ForeignTextNeedsRace, ViewsHold, StillTrue, StoredFirst, StatusFollows, IsAt
<1>4. QED
  BY <1>2, <1>3, OthersKeep DEF DeskNext

\* The invariant holds for ever.
LEMMA DeskInvHolds == DeskSpec => []DeskInv
BY DeskInvInit, DeskInvStep, PTL DEF DeskSpec

\* However many rabbis, mails, links, requests and administrators there are,
\* only a forced status leaves a question in process that no job finds, or an
\* answered one without an answer.
THEOREM OnlyForceUnsettles == DeskSpec => []UnforcedIsSound
<1>1. DeskInv => UnforcedIsSound
  BY DEF DeskInv
<1>2. QED
  BY <1>1, DeskInvHolds, PTL

\* Only a race puts a text under another rabbi's name.
THEOREM OnlyRacesMisattribute == DeskSpec => []ForeignTextNeedsRace
<1>1. DeskInv => ForeignTextNeedsRace
  BY DEF DeskInv
<1>2. QED
  BY <1>1, DeskInvHolds, PTL

\* The INSERT of an answer and the UPDATE of the status are two statements of
\* the mailbox reader: an answer is left without its status only while its own
\* mail is between the two, or where a mail stopped there, the question was
\* reopened or a handler wrote from a row that had changed (imapPoller.js).
THEOREM OnlyRacesLeaveAnswersOpen == DeskSpec => []StatusFollows
<1>1. DeskInv => StatusFollows
  BY DEF DeskInv
<1>2. QED
  BY <1>1, DeskInvHolds, PTL

\* The author of an answer changes only with the removal of his account.
THEOREM AuthorsStay == DeskSpec => AuthorsOnlyRemoved
<1>1. ASSUME DeskInv, [DeskNext]_deskVars, NEW q \in Questions,
             answers[q] # NoRabbi, answers'[q] # answers[q]
      PROVE  answers[q] \in gone'
  <2>1. ~UNCHANGED deskVars
    BY <1>1 DEF deskVars, vars, store
  <2>2. ~DashboardStep
    <3>1. ASSUME DashboardStep PROVE answers'[q] = answers[q]
      <4>1. TableStep /\ gone' = gone
        BY <1>1, <3>1, DashboardIsNext, StepKinds DEF DeskInv, WritersTypeOK, DashboardStep
      <4>2. WritersTypeOK'
        BY <1>1, DeskTypeStep DEF DeskInv
      <4>3. QED
        BY <1>1, <4>1, <4>2, DashboardRows DEF DeskInv
    <3>2. QED
      BY <1>1, <3>1
  <2>3. ASSUME NEW m \in Mails, MailStep(m) PROVE answers'[q] = answers[q]
    <3>1. CASE MailInsert(m)
      BY <1>1, <3>1 DEF MailInsert, InsertAnswer, DeskInv, WritersTypeOK, TypeOK, StoreTypeOK
    <3>2. CASE ~MailInsert(m)
      BY <2>3, <3>2 DEF MailStep, MailRead, MailClaim, MailRelease, LinkRelease,
         MailAutoClaim, MailLookup, MailReplace, MailFinish, MailFails, MailUpdates,
         UpdatesQuestions, vars, store
    <3>3. QED
      BY <3>1, <3>2
  <2>4. ASSUME AdminStep, ~RemoveWrite PROVE answers' = answers
    BY <2>4 DEF AdminStep, PatchStatus, PageAssign, PatchRelease, AdminRelease,
       AdminAssign, RemoveCheck, WritesRow, UpdatesQuestions, vars, store
  <2>5. ASSUME NEW r \in Rabbis, NEW p \in Questions, InboundRelease(r, p)
        PROVE  answers' = answers
    BY <2>5 DEF InboundRelease, WritesRow, UpdatesQuestions
  <2>6. RemoveWrite
    BY <1>1, <2>1, <2>2, <2>3, <2>4, <2>5 DEF DeskNext
  <2>7. QED
    BY <1>1, <2>6 DEF RemoveWrite
<1>2. DeskInv /\ [DeskNext]_deskVars =>
        [\A q \in Questions :
           answers[q] # NoRabbi /\ answers'[q] # answers[q] => answers[q] \in gone']_deskVars
  BY <1>1
<1>3. QED
  BY <1>2, DeskInvHolds, PTL DEF DeskSpec, AuthorsOnlyRemoved

\* Who changes hands: a row that had an owner, and whose owner is another
\* rabbi after the step.
ChangesHands(q, r) ==
    /\ questions[q].status = "in_process"
    /\ questions[q].owner \notin {r, NoRabbi}
    /\ questions'[q].owner = r

\* A mail takes a question out of another's hands only as an administrator's
\* answer, or from a row that had changed since it was read.
LEMMA MailTakes ==
    ASSUME DeskInv, NEW m \in Mails, MailStep(m),
           NEW q \in Questions, NEW r \in Rabbis, ChangesHands(q, r)
    PROVE  r \in Admins \/ raced[q]
<1>0. r # NoRabbi /\ questions'[q] # questions[q]
  BY StoreAssumption DEF ChangesHands
<1>1. ASSUME NEW row, NEW pc, mails[m] # NoMail, MailUpdates(m, row, pc)
      PROVE  mails[m].q = q /\ row.owner = r
  <2>1. mails[m].q \in Questions /\ Write(mails[m].q, row)
    BY <1>1, OpenMail DEF MailUpdates, DeskInv
  <2>2. mails[m].q = q /\ questions'[q] = row
    BY <1>0, <2>1, RowAfter DEF DeskInv
  <2>3. QED
    BY <2>2 DEF ChangesHands
<1>2. CASE MailClaim(m) \/ MailAutoClaim(m)
  <2>1. mails[m] # NoMail /\ mails[m].pc \in {"claim", "autoClaim"} /\ mails[m].q = q
    BY <1>1, <1>2 DEF MailClaim, MailAutoClaim, MailAt
  <2>2. ~LooksFree(questions[q])
    BY DEF ChangesHands, LooksFree
  <2>3. QED
    BY <2>1, <2>2 DEF DeskInv, ViewsHold, StillTrue
<1>3. CASE MailFinish(m)
  <2> DEFINE row == [Answered(questions[mails[m].q]) EXCEPT !.owner = mails[m].by]
  <2>1. mails[m] # NoMail /\ mails[m].pc = "finish" /\ MailUpdates(m, row, "done")
    BY <1>3 DEF MailFinish, MailAt
  <2>2. row.owner = mails[m].by
    BY <2>1, OpenMail DEF Answered, QuestionRow, DeskInv
  <2> HIDE DEF row
  <2>3. mails[m].q = q /\ mails[m].by = r
    BY <1>1, <2>1, <2>2
  <2>4. QED
    BY <2>1, <2>3 DEF DeskInv, ViewsHold, StillTrue, ChangesHands
<1>4. ASSUME MailRelease(m) \/ LinkRelease(m) PROVE FALSE
  <2> DEFINE old == questions[mails[m].q]
  <2>1. PICK row \in {old, MailReleased(old)} :
          mails[m] # NoMail /\ MailUpdates(m, row, "done")
    BY <1>4 DEF MailRelease, LinkRelease, MailAt
  <2>2. mails[m].q = q /\ row.owner = r
    BY <1>1, <2>1
  <2>3. MailReleased(old).owner = NoRabbi
    BY <2>1, OpenMail DEF MailReleased, QuestionRow, DeskInv
  <2>4. QED
    BY <1>0, <2>1, <2>2, <2>3 DEF ChangesHands
<1>5. QED
  BY <1>0, <1>2, <1>3, <1>4
     DEF MailStep, MailRead, MailLookup, MailReplace, MailInsert, MailFails, vars, store

\* An administrator, or the inbound webhook, takes one only by an assignment.
LEMMA OthersTake ==
    ASSUME DeskInv, NEW q \in Questions, NEW r \in Rabbis, ChangesHands(q, r),
           AdminStep \/ \E b \in Rabbis, p \in Questions : InboundRelease(b, p)
    PROVE  AdminAssign(r, q)
<1>0. r # NoRabbi /\ questions'[q] # questions[q]
  BY StoreAssumption DEF ChangesHands
<1>1. ASSUME NEW p \in Questions, NEW row, WritesRow(p, row)
      PROVE  p = q /\ row.owner = r
  <2>1. Write(p, row)
    BY <1>1 DEF WritesRow
  <2>2. p = q /\ questions'[q] = row
    BY <1>0, <2>1, RowAfter DEF DeskInv
  <2>3. QED
    BY <2>2 DEF ChangesHands
<1>2. ASSUME NEW p \in Questions,
             \/ WritesRow(p, MailReleased(questions[p]))
             \/ WritesRow(p, [questions[p] EXCEPT !.status = "pending", !.owner = NoRabbi])
             \/ \E status : WritesRow(p, [questions[p] EXCEPT !.status = status])
      PROVE  FALSE
  <2>1. questions[p] \in QuestionRow
    BY AdminRows DEF DeskInv
  <2>2. CASE WritesRow(p, MailReleased(questions[p]))
    <3>1. MailReleased(questions[p]).owner = r
      BY <1>1, <2>2
    <3>2. QED
      BY <1>0, <2>1, <3>1 DEF MailReleased, QuestionRow
  <2>3. CASE WritesRow(p, [questions[p] EXCEPT !.status = "pending", !.owner = NoRabbi])
    <3>1. [questions[p] EXCEPT !.status = "pending", !.owner = NoRabbi].owner = r
      BY <1>1, <2>3
    <3>2. QED
      BY <1>0, <2>1, <3>1 DEF QuestionRow
  <2>4. ASSUME NEW status, WritesRow(p, [questions[p] EXCEPT !.status = status])
        PROVE  FALSE
    <3>1. p = q /\ [questions[p] EXCEPT !.status = status].owner = r
      BY <1>1, <2>4
    <3>2. QED
      BY <2>1, <3>1 DEF QuestionRow, ChangesHands
  <2>5. QED
    BY <1>2, <2>2, <2>3, <2>4
<1>3. ASSUME NEW p \in Questions, NEW b \in Rabbis, AdminAssign(b, p)
      PROVE  AdminAssign(r, q)
  <2>1. p = q /\ Claimed(questions[p], b).owner = r
    BY <1>1, <1>3 DEF AdminAssign
  <2>2. b = r
    BY <2>1, AdminRows DEF Claimed, QuestionRow, DeskInv
  <2>3. QED
    BY <1>3, <2>1, <2>2
<1>4. ~RemoveWrite
  <2>1. [questions[q] EXCEPT !.owner = NoRabbi].owner = NoRabbi
    BY AdminRows DEF QuestionRow, DeskInv
  <2>2. QED
    BY <1>0, <2>1 DEF RemoveWrite, ChangesHands
<1>5. ASSUME NEW a \in Rabbis, NEW b \in Rabbis, RemoveCheck(a, b) PROVE FALSE
  BY <1>0, <1>5 DEF RemoveCheck, vars, store
<1>6. QED
  BY <1>2, <1>3, <1>4, <1>5
     DEF AdminStep, PatchStatus, PageAssign, PatchRelease, AdminRelease, InboundRelease

\* A question somebody works on goes to another rabbi by a transfer to him, by
\* an administrator, or in a race, however many mails, links and requests are
\* under way.
THEOREM TakenInRacesOnly == DeskSpec => TakenOnlyInRace
<1>1. ASSUME DeskInv, [DeskNext]_deskVars,
             NEW q \in Questions, NEW r \in Rabbis, ChangesHands(q, r)
      PROVE  HandingOver(q, r) \/ AdminAssign(r, q) \/ r \in Admins \/ raced[q]
  <2>1. ASSUME DashboardStep PROVE HandingOver(q, r)
    BY <1>1, <2>1, DashboardIsNext, TakingIsHanding
       DEF ChangesHands, DeskInv, WritersTypeOK
  <2>2. ~UNCHANGED deskVars
    BY <1>1 DEF deskVars, vars, store, ChangesHands
  <2>3. QED
    BY <1>1, <2>1, <2>2, MailTakes, OthersTake DEF DeskNext
<1>2. DeskInv /\ [DeskNext]_deskVars =>
        [\A q \in Questions, r \in Rabbis :
            /\ questions[q].status = "in_process"
            /\ questions[q].owner \notin {r, NoRabbi}
            /\ questions'[q].owner = r
            => \/ HandingOver(q, r)
               \/ AdminAssign(r, q)
               \/ r \in Admins
               \/ raced[q]]_deskVars
  BY <1>1 DEF ChangesHands
<1>3. QED
  BY <1>2, DeskInvHolds, PTL DEF DeskSpec, TakenOnlyInRace
=============================================================================
