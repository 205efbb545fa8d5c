------------------------- MODULE AnswerDelivery_proofs -------------------------
(***************************************************************************)
(* For any questions, slots, limits and faults, and whatever is offered:   *)
(* the mark is never ahead of the page, only a retry or a follow-up brings *)
(* a private answer to it, and only an edit that overlaps another loses a  *)
(* text of an answer.                                                      *)
(*                                                                         *)
(* All three rest on what is in flight: whatever waits for a push, and     *)
(* every row a push or an edit has read, is of an answered question.       *)
(***************************************************************************)
EXTENDS AnswerDelivery, FiniteSetTheorems, TLAPS

AnsweredHasContent ==
    \A q \in Questions : IsAnswered(q) => answers[q].content \in Contents

UnansweredIsBlank ==
    \A q \in Questions : ~IsAnswered(q) => site[q] = None

InFlightIsAnswered ==
    /\ \A trigger \in wanted : IsAnswered(trigger.q)
    /\ \A p \in Pushes : pushes[p] # NoPush =>
          \A row \in pushes[p].rows : IsAnswered(row.q)
    /\ \A e \in Editors : edits[e] # NoEdit => IsAnswered(edits[e].q)

\* a push that is about to set or clear a mark has the question in hand, and
\* sets it only after it published the text
MarkAfterText ==
    \A p \in Pushes : pushes[p] # NoPush =>
        /\ pushes[p].at # "post" => pushes[p].q \in Questions
        /\ pushes[p].at = "mark" => site[pushes[p].q] # None

IInv ==
    /\ TypeOK
    /\ AnsweredHasContent
    /\ UnansweredIsBlank
    /\ InFlightIsAnswered
    /\ MarkAfterText
    /\ SyncedIsShown

------------------------------------------------------------------------------
\* A new answer gets the next rank, which stays within the number of questions.
LEMMA NextRank ==
    ASSUME TypeOK, NEW q \in Questions, ~IsAnswered(q)
    PROVE  1 + Cardinality({p \in Questions : IsAnswered(p)})
               \in (0 .. Cardinality(Questions)) \ {0}
  <1> DEFINE A == {p \in Questions : IsAnswered(p)}
  <1>1. IsFiniteSet(Questions)
    BY DeliveryAssumption
  <1>2. IsFiniteSet(A) /\ A \subseteq Questions /\ q \notin A
    BY <1>1, FS_Subset
  <1>3. A # Questions
    BY <1>2
  <1>4. Cardinality(A) \in Nat /\ Cardinality(Questions) \in Nat
    BY <1>1, <1>2, FS_CardinalityType
  <1>5. Cardinality(A) < Cardinality(Questions)
    BY <1>1, <1>2, <1>3, <1>4, FS_Subset
  <1> QED
    BY <1>4, <1>5

\* The contents are the numbers from 1 on, and None is none of them.
LEMMA ContentsAreNotNone ==
    /\ None \notin Contents
    /\ \A n \in Contents \union {None} : n < MaxContent => n + 1 \in Contents
    /\ 1 \in Contents
  BY DeliveryAssumption DEF Contents, None

\* A push that starts: it has read rows of answered questions.
LEMMA StartKeeps ==
    ASSUME IInv, NEW p \in Pushes, NEW kind \in Kinds, NEW qs \in SUBSET Questions,
           \A q \in qs : IsAnswered(q),
           Starts(p, kind, qs), wanted' \subseteq wanted
    PROVE  IInv'
  <1> USE DEF Starts, IsAnswered
  <1>1. Rows(qs) \in SUBSET PushRow /\ \A row \in Rows(qs) : IsAnswered(row.q)
    BY DEF Rows, PushRow, IInv, AnsweredHasContent
  <1> DEFINE push == [kind |-> kind, at |-> "post", rows |-> Rows(qs), q |-> NoQuestion]
  <1>2. push \in Push
    BY <1>1 DEF Push
  <1>3. pushes' = [pushes EXCEPT ![p] = push] /\ UNCHANGED <<answers, site, edits, saved>>
    OBVIOUS
  <1>4. TypeOK'
    BY <1>2, <1>3 DEF IInv, TypeOK
  <1>5. InFlightIsAnswered'
    BY <1>1, <1>3 DEF IInv, InFlightIsAnswered, TypeOK
  <1>6. MarkAfterText'
    BY <1>3 DEF IInv, MarkAfterText, TypeOK
  <1> QED
    BY <1>3, <1>4, <1>5, <1>6
    DEF IInv, AnsweredHasContent, UnansweredIsBlank, SyncedIsShown

\* A push of any kind reads answered questions.
LEMMA StartsKeep ==
    ASSUME IInv, NEW p \in Pushes, PushStart(p)
    PROVE  IInv'
  <1>1. CASE SyncStart(p)
    <2> DEFINE qs == Oldest({q \in Questions : UnsyncedPublic(q)})
    <2>1. qs \in SUBSET Questions /\ \A q \in qs : IsAnswered(q)
      BY DEF Oldest, UnsyncedPublic
    <2> QED
      BY <1>1, <2>1, StartKeeps DEF SyncStart, Kinds
  <1>2. CASE RetryStart(p)
    <2> DEFINE qs == Oldest({q \in Questions : Unsynced(q)})
    <2>1. qs \in SUBSET Questions /\ \A q \in qs : IsAnswered(q)
      BY DEF Oldest, Unsynced
    <2> QED
      BY <1>2, <2>1, StartKeeps DEF RetryStart, Kinds
  <1>3. ASSUME NEW trigger \in wanted, OneStart(p, trigger)
        PROVE  IInv'
    <2>1. trigger \in Trigger /\ IsAnswered(trigger.q)
      BY <1>3 DEF IInv, TypeOK, InFlightIsAnswered
    <2>2. {trigger.q} \in SUBSET Questions /\ trigger.kind \in Kinds
      BY <2>1 DEF Trigger, Kinds, ByIdKinds
    <2> QED
      BY <1>3, <2>1, <2>2, StartKeeps DEF OneStart
  <1> QED
    BY <1>1, <1>2, <1>3 DEF PushStart

\* A push that goes on to another state, with no more rows than before, the
\* tables as they are, and perhaps a text on a page.
LEMMA MovePushes ==
    ASSUME IInv, NEW p \in Pushes, pushes[p] # NoPush,
           NEW push \in Push \union {NoPush}, Moves(p, push),
           push # NoPush => push.rows \subseteq pushes[p].rows,
           push # NoPush => (push.at # "post" => push.q \in Questions),
           push # NoPush => (push.at = "mark" => site'[push.q] # None),
           site' \in [Questions -> Contents \union {None}],
           \A q \in Questions : site[q] # None => site'[q] # None,
           \A q \in Questions : ~IsAnswered(q) => site'[q] = None,
           UNCHANGED <<answers, wanted, edits, saved>>
    PROVE  IInv'
  <1> USE DEF Moves, IsAnswered
  <1>1. TypeOK'
    BY DEF IInv, TypeOK
  <1>2. InFlightIsAnswered'
    BY DEF IInv, InFlightIsAnswered, TypeOK
  <1>3. MarkAfterText'
    BY DEF IInv, MarkAfterText, TypeOK
  <1> QED
    BY <1>1, <1>2, <1>3
    DEF IInv, AnsweredHasContent, UnansweredIsBlank, SyncedIsShown

\* What is left of a push after a row.
LEMMA NextRowIsPush ==
    ASSUME NEW push \in Push
    PROVE  /\ NextRow(push) \in Push \union {NoPush}
           /\ NextRow(push) # NoPush =>
                  NextRow(push).rows = push.rows /\ NextRow(push).at = "post"
  BY DEF NextRow, Push, NoPush

\* A call to WordPress publishes a text of an answered question, or nothing.
LEMMA CallKeeps ==
    ASSUME IInv, NEW p \in Pushes, Calling(p)
    PROVE  IInv'
  <1>1. PICK row \in pushes[p].rows :
            pushes[p] # NoPush /\ (Published(p, row) \/ Refused(p, row))
    BY DEF Calling
  <1> DEFINE push == pushes[p]
             rest == Called(push, row, "post")
             marks == Called(push, row, "mark")
             clears == Called(push, row, "unmark")
  <1>2. push \in Push /\ row \in PushRow /\ IsAnswered(row.q)
    BY <1>1 DEF IInv, TypeOK, Push, InFlightIsAnswered
  <1>3. row.q \in Questions /\ row.content \in Contents
    BY <1>2 DEF PushRow
  <1>4. site \in [Questions -> Contents \union {None}]
    BY DEF IInv, TypeOK
  <1>5. ASSUME Shows(row)
        PROVE  /\ site' \in [Questions -> Contents \union {None}]
               /\ site'[row.q] # None
               /\ \A q \in Questions : site[q] # None => site'[q] # None
               /\ \A q \in Questions : ~IsAnswered(q) => site'[q] = None
    <2>1. site' = [site EXCEPT ![row.q] = row.content]
      BY <1>5 DEF Shows
    <2> QED
      BY <2>1, <1>2, <1>3, <1>4, ContentsAreNotNone DEF IInv, UnansweredIsBlank
  <1>6. /\ rest \in Push /\ marks \in Push /\ clears \in Push
        /\ rest.rows \subseteq push.rows
        /\ marks.rows \subseteq push.rows /\ marks.at = "mark" /\ marks.q = row.q
        /\ clears.rows \subseteq push.rows /\ clears.at = "unmark" /\ clears.q = row.q
    BY <1>2, <1>3 DEF Push, Called
  <1>7. CASE Published(p, row)
    <2>1. Shows(row) /\ UNCHANGED <<answers, wanted, edits, saved>>
      BY <1>7 DEF Published
    <2>2. CASE push.kind = "followUp"
      <3>1. Moves(p, NoPush)
        BY <1>7, <2>2 DEF Published
      <3> QED
        BY <1>1, <1>5, <2>1, <3>1, MovePushes
    <2>3. CASE push.kind # "followUp"
      <3>1. Moves(p, marks)
        BY <1>7, <2>3 DEF Published
      <3> HIDE DEF marks, push, rest, clears
      <3> QED
        BY <1>1, <1>3, <1>5, <1>6, <2>1, <3>1, MovePushes DEF push
    <2> QED
      BY <2>2, <2>3
  <1>8. CASE Refused(p, row)
    <2>1. UNCHANGED <<answers, wanted, edits, saved>>
      BY <1>8 DEF Refused
    <2>2. /\ site' \in [Questions -> Contents \union {None}]
          /\ \A q \in Questions : site[q] # None => site'[q] # None
          /\ \A q \in Questions : ~IsAnswered(q) => site'[q] = None
      <3>1. CASE UNCHANGED site
        BY <3>1, <1>4 DEF IInv, UnansweredIsBlank
      <3>2. CASE Shows(row)
        BY <3>2, <1>5
      <3> QED
        BY <1>8, <3>1, <3>2 DEF Refused
    <2>3. CASE push.kind \in ByIdKinds
      <3>1. Moves(p, clears)
        BY <1>8, <2>3 DEF Refused
      <3> HIDE DEF marks, push, rest, clears
      <3> QED
        BY <1>1, <1>3, <1>6, <2>1, <2>2, <3>1, MovePushes DEF push
    <2>4. CASE push.kind \notin ByIdKinds
      <3>1. Moves(p, NextRow(rest))
        BY <1>8, <2>4 DEF Refused
      <3>2. /\ NextRow(rest) \in Push \union {NoPush}
            /\ NextRow(rest) # NoPush =>
                   NextRow(rest).rows = rest.rows /\ NextRow(rest).at = "post"
        BY <1>6, NextRowIsPush
      <3> HIDE DEF marks, push, rest, clears
      <3> QED
        BY <1>1, <1>6, <2>1, <2>2, <3>1, <3>2, MovePushes DEF push
    <2> QED
      BY <2>3, <2>4
  <1> QED
    BY <1>1, <1>7, <1>8

\* The mark follows a published text; clearing it, failing and stopping change
\* no page.
LEMMA AfterCallKeeps ==
    ASSUME IInv, NEW p \in Pushes,
           Mark(p) \/ Unmark(p) \/ MarkFails(p) \/ PushStops(p)
    PROVE  IInv'
  <1>1. pushes[p] # NoPush
    BY DEF Mark, Unmark, Sets, MarkFails, PushStops
  <1>2. pushes[p] \in Push
    BY <1>1 DEF IInv, TypeOK
  <1>3. /\ NextRow(pushes[p]) \in Push \union {NoPush}
        /\ NextRow(pushes[p]) # NoPush =>
               /\ NextRow(pushes[p]).rows = pushes[p].rows
               /\ NextRow(pushes[p]).at = "post"
    BY <1>2, NextRowIsPush
  <1>4. /\ site \in [Questions -> Contents \union {None}]
        /\ \A q \in Questions : ~IsAnswered(q) => site[q] = None
    BY DEF IInv, TypeOK, UnansweredIsBlank
  <1>5. ASSUME NEW at \in {"mark", "unmark"}, NEW synced \in BOOLEAN,
               Sets(p, at, synced), at = "mark" \/ ~synced
        PROVE  IInv'
    <2> DEFINE q0 == pushes[p].q
    <2>1. /\ q0 \in Questions
          /\ at = "mark" => site[q0] # None
      BY <1>1, <1>5 DEF Sets, IInv, MarkAfterText
    <2>2. /\ answers' = [answers EXCEPT ![q0].synced = synced]
          /\ pushes' = [pushes EXCEPT ![p] = NextRow(pushes[p])]
          /\ UNCHANGED <<site, wanted, edits, saved>>
      BY <1>5 DEF Sets, Moves
    <2> HIDE DEF q0
    <2>3. answers' \in [Questions -> AnswerRow]
      BY <2>1, <2>2 DEF IInv, TypeOK, AnswerRow
    <2>4. \A q \in Questions : /\ answers'[q].answered = answers[q].answered
                              /\ answers'[q].content = answers[q].content
      BY <2>1, <2>2 DEF IInv, TypeOK, AnswerRow
    <2>5. SyncedIsShown'
      BY <2>1, <2>2, <1>5 DEF IInv, TypeOK, AnswerRow, SyncedIsShown
    <2>6. TypeOK'
      BY <1>3, <2>2, <2>3 DEF IInv, TypeOK
    <2>7. InFlightIsAnswered'
      <3>1. \A q \in Questions : IsAnswered(q)' <=> IsAnswered(q)
        BY <2>4 DEF IsAnswered
      <3>2. /\ \A trigger \in wanted : trigger.q \in Questions
            /\ \A o \in Pushes : pushes[o] # NoPush =>
                  \A row \in pushes[o].rows : row.q \in Questions
            /\ \A e \in Editors : edits[e] # NoEdit => edits[e].q \in Questions
        BY DEF IInv, TypeOK, Trigger, Push, PushRow, Edit
      <3>3. \A o \in Pushes : pushes'[o] # NoPush =>
               pushes[o] # NoPush /\ pushes'[o].rows = pushes[o].rows
        BY <1>1, <1>3, <2>2 DEF IInv, TypeOK
      <3>4. \A o \in Pushes : pushes'[o] # NoPush =>
               \A row \in pushes'[o].rows : row.q \in Questions /\ IsAnswered(row.q)
        BY <3>2, <3>3 DEF IInv, InFlightIsAnswered
      <3> QED
        BY <2>2, <3>1, <3>2, <3>4 DEF IInv, InFlightIsAnswered
    <2>8. MarkAfterText'
      BY <1>3, <2>2 DEF IInv, MarkAfterText, TypeOK
    <2>9. AnsweredHasContent' /\ UnansweredIsBlank'
      BY <2>2, <2>4 DEF IInv, AnsweredHasContent, UnansweredIsBlank, IsAnswered
    <2> QED
      BY <2>5, <2>6, <2>7, <2>8, <2>9 DEF IInv
  <1>6. CASE Mark(p) \/ Unmark(p)
    BY <1>5, <1>6 DEF Mark, Unmark
  <1>7. CASE MarkFails(p)
    <2>1. UNCHANGED <<answers, site, wanted, edits, saved>>
      BY <1>7 DEF MarkFails
    <2>2. CASE pushes[p].kind \in ByIdKinds
      <3> DEFINE clears == [pushes[p] EXCEPT !.at = "unmark"]
      <3>1. Moves(p, clears)
        BY <1>7, <2>2 DEF MarkFails
      <3>2. clears \in Push /\ clears.q \in Questions
        BY <1>1, <1>2, <1>7 DEF Push, MarkFails, IInv, MarkAfterText
      <3>3. clears.rows = pushes[p].rows /\ clears.at = "unmark"
        BY <1>2 DEF Push
      <3> HIDE DEF clears
      <3> QED
        BY <1>1, <1>4, <2>1, <3>1, <3>2, <3>3, MovePushes
    <2>3. CASE pushes[p].kind \notin ByIdKinds
      <3>1. Moves(p, NextRow(pushes[p]))
        BY <1>7, <2>3 DEF MarkFails
      <3> QED
        BY <1>1, <1>3, <1>4, <2>1, <3>1, MovePushes
    <2> QED
      BY <2>2, <2>3
  <1>8. CASE PushStops(p)
    BY <1>1, <1>4, <1>8, MovePushes DEF PushStops
  <1> QED
    BY <1>6, <1>7, <1>8

\* Storing an answer, editing it, and triggering a push.
LEMMA EditorialKeeps ==
    ASSUME IInv, NEW q \in Questions,
           \/ \E private \in BOOLEAN : Answer(q, private)
           \/ FollowUpAnswered(q)
           \/ \E e \in Editors : EditRead(e, q)
    PROVE  IInv'
  <1> USE DEF IInv, IsAnswered
  <1>1. ASSUME NEW private \in BOOLEAN, Answer(q, private)
        PROVE  IInv'
    <2> DEFINE rank == 1 + Cardinality({p \in Questions : IsAnswered(p)})
               row == [content |-> 1, versions |-> {1}, private |-> private,
                       answered |-> rank, synced |-> FALSE]
    <2>1. rank \in (0 .. Cardinality(Questions)) \ {0}
      BY <1>1, NextRank DEF Answer
    <2>2. row \in AnswerRow /\ row.answered # 0 /\ row.content \in Contents /\ ~row.synced
      BY <2>1, ContentsAreNotNone DEF AnswerRow
    <2>3. /\ answers' = [answers EXCEPT ![q] = row]
          /\ saved' = [saved EXCEPT ![q] = 1]
          /\ UNCHANGED <<site, pushes, edits>>
          /\ wanted' \subseteq wanted \union {[q |-> q, kind |-> "own"]}
      BY <1>1 DEF Answer
    <2> HIDE DEF row, rank
    <2>4. TypeOK'
      BY <2>2, <2>3, ContentsAreNotNone DEF TypeOK, Trigger, ByIdKinds
    <2>5. \A p \in Questions : IsAnswered(p) => IsAnswered(p)'
      BY <2>2, <2>3 DEF TypeOK
    <2>6. InFlightIsAnswered'
      <3>1. IsAnswered(q)'
        BY <2>2, <2>3 DEF TypeOK
      <3>2. /\ \A trigger \in wanted : trigger.q \in Questions
            /\ \A p \in Pushes : pushes[p] # NoPush =>
                  \A r \in pushes[p].rows : r.q \in Questions
            /\ \A e \in Editors : edits[e] # NoEdit => edits[e].q \in Questions
        BY DEF TypeOK, Trigger, Push, PushRow, Edit
      <3> HIDE DEF IsAnswered
      <3> QED
        BY <2>3, <2>5, <3>1, <3>2 DEF InFlightIsAnswered
    <2>7. /\ AnsweredHasContent' /\ UnansweredIsBlank'
          /\ MarkAfterText' /\ SyncedIsShown'
      BY <2>2, <2>3
      DEF TypeOK, AnsweredHasContent, UnansweredIsBlank, MarkAfterText, SyncedIsShown
    <2> QED
      BY <2>4, <2>6, <2>7
  <1>2. CASE FollowUpAnswered(q)
    BY <1>2
    DEF FollowUpAnswered, TypeOK, Trigger, AnsweredHasContent, UnansweredIsBlank,
        InFlightIsAnswered, MarkAfterText, SyncedIsShown
  <1>3. ASSUME NEW e \in Editors, EditRead(e, q)
        PROVE  IInv'
    <2> DEFINE edit == [q |-> q, content |-> answers[q].content, versions |-> answers[q].versions]
    <2>1. edit \in Edit
      BY <1>3 DEF EditRead, TypeOK, AnswerRow, Edit, AnsweredHasContent
    <2>2. edits' = [edits EXCEPT ![e] = edit] /\ UNCHANGED <<answers, site, wanted, pushes, saved>>
      BY <1>3 DEF EditRead
    <2>3. IsAnswered(q) /\ edit.q = q
      BY <1>3 DEF EditRead
    <2> HIDE DEF edit
    <2> QED
      BY <2>1, <2>2, <2>3
      DEF TypeOK, AnsweredHasContent, UnansweredIsBlank,
          InFlightIsAnswered, MarkAfterText, SyncedIsShown
  <1> QED
    BY <1>1, <1>2, <1>3

\* The text of an answer is replaced, an edit ends, and triggers come and go.
LEMMA OthersKeep ==
    ASSUME IInv,
           \/ \E e \in Editors : EditWrite(e) \/ EditFails(e)
           \/ ManualRetry
           \/ \E trigger \in wanted : TriggerLost(trigger)
    PROVE  IInv'
  <1> USE DEF IInv, IsAnswered
  <1>1. ASSUME NEW e \in Editors, EditWrite(e)
        PROVE  IInv'
    <2> DEFINE q == edits[e].q
               versions == VersionsAfterEdit(edits[e])
               row == Edited(edits[e], answers[q], saved[q] + 1)
    <2>1. edits[e] \in Edit /\ edits[e] # NoEdit
      BY <1>1 DEF EditWrite, TypeOK
    <2>2. q \in Questions /\ versions \in SUBSET Contents
      BY <2>1 DEF Edit, VersionsAfterEdit
    <2>3. saved[q] + 1 \in Contents /\ saved[q] + 1 # None
      BY <1>1, <2>2, ContentsAreNotNone DEF EditWrite, TypeOK
    <2>4. /\ answers' = [answers EXCEPT ![q] = row]
          /\ saved' = [saved EXCEPT ![q] = @ + 1]
          /\ edits' = [edits EXCEPT ![e] = NoEdit]
          /\ UNCHANGED <<site, wanted, pushes>>
      BY <1>1 DEF EditWrite
    <2>5. /\ row \in AnswerRow
          /\ row.answered = answers[q].answered
          /\ row.synced = answers[q].synced
          /\ row.content = saved[q] + 1
      <3>1. answers[q] \in AnswerRow
        BY <2>2 DEF TypeOK
      <3> QED
        BY <2>2, <2>3, <3>1 DEF Edited, AnswerRow
    <2> HIDE DEF q, versions, row
    <2>6. \A p \in Questions : /\ answers'[p].answered = answers[p].answered
                              /\ answers'[p].synced = answers[p].synced
                              /\ answers'[p].content \in {answers[p].content, saved[q] + 1}
      BY <2>2, <2>4, <2>5 DEF TypeOK
    <2>7. TypeOK'
      BY <2>2, <2>3, <2>4, <2>5 DEF TypeOK
    <2>8. InFlightIsAnswered'
      <3>1. /\ \A trigger \in wanted : trigger.q \in Questions
            /\ \A p \in Pushes : pushes[p] # NoPush =>
                  \A r \in pushes[p].rows : r.q \in Questions
            /\ \A f \in Editors : edits[f] # NoEdit => edits[f].q \in Questions
        BY DEF TypeOK, Trigger, Push, PushRow, Edit
      <3> QED
        BY <2>4, <2>6, <3>1 DEF InFlightIsAnswered, TypeOK
    <2> QED
      BY <2>3, <2>4, <2>6, <2>7, <2>8
      DEF AnsweredHasContent, UnansweredIsBlank, MarkAfterText, SyncedIsShown
  <1>2. ASSUME NEW e \in Editors, EditFails(e)
        PROVE  IInv'
    BY <1>2
    DEF EditFails, TypeOK, AnsweredHasContent, UnansweredIsBlank,
        InFlightIsAnswered, MarkAfterText, SyncedIsShown
  <1>3. CASE ManualRetry
    <2> DEFINE qs == Oldest({q \in Questions : Unsynced(q)})
               new == {[q |-> q, kind |-> "manual"] : q \in qs}
    <2>0. qs \in SUBSET Questions /\ \A q \in qs : IsAnswered(q)
      BY DEF Oldest, Unsynced
    <2>1. new \in SUBSET Trigger /\ \A trigger \in new : IsAnswered(trigger.q)
      <3> HIDE DEF qs, IInv
      <3> QED
        BY <2>0 DEF Trigger, ByIdKinds
    <2>2. wanted' = wanted \union new /\ UNCHANGED <<answers, site, pushes, edits, saved>>
      BY <1>3 DEF ManualRetry
    <2> HIDE DEF new
    <2> QED
      BY <2>1, <2>2
      DEF TypeOK, AnsweredHasContent, UnansweredIsBlank,
          InFlightIsAnswered, MarkAfterText, SyncedIsShown
  <1>4. CASE \E trigger \in wanted : TriggerLost(trigger)
    BY <1>4
    DEF TriggerLost, TypeOK, AnsweredHasContent, UnansweredIsBlank,
        InFlightIsAnswered, MarkAfterText, SyncedIsShown
  <1> QED
    BY <1>1, <1>2, <1>3, <1>4

\* Nothing is published and no push runs at first.
LEMMA InitEstablishes == Init => IInv
  <1> SUFFICES ASSUME Init PROVE IInv
    OBVIOUS
  <1>1. TypeOK
    <2>1. Cardinality(Questions) \in Nat
      BY DeliveryAssumption, FS_CardinalityType
    <2> QED
      BY <2>1 DEF Init, TypeOK, AnswerRow
  <1> QED
    BY <1>1
    DEF Init, IInv, AnsweredHasContent, UnansweredIsBlank, IsAnswered,
        InFlightIsAnswered, MarkAfterText, SyncedIsShown

\* Every statement, call and failure keeps the invariant.
LEMMA StepKeeps == IInv /\ [Next]_vars => IInv'
  <1> SUFFICES ASSUME IInv, [Next]_vars PROVE IInv'
    OBVIOUS
  <1>1. CASE UNCHANGED vars
    BY <1>1
    DEF vars, IInv, TypeOK, AnsweredHasContent, UnansweredIsBlank, IsAnswered,
        InFlightIsAnswered, MarkAfterText, SyncedIsShown
  <1>2. CASE \E p \in Pushes : PushStart(p) \/ PushStep(p)
    BY <1>2, StartsKeep, CallKeeps, AfterCallKeeps DEF PushStep
  <1>3. CASE \E q \in Questions :
               \/ \E private \in BOOLEAN : Answer(q, private)
               \/ FollowUpAnswered(q)
               \/ \E e \in Editors : EditRead(e, q)
    BY <1>3, EditorialKeeps
  <1>4. CASE \/ \E e \in Editors : EditWrite(e) \/ EditFails(e)
             \/ ManualRetry
             \/ \E trigger \in wanted : TriggerLost(trigger)
    BY <1>4, OthersKeep
  <1> QED
    BY <1>1, <1>2, <1>3, <1>4 DEF Next

\* The inductive invariant.
THEOREM Invariance == Spec => []IInv
  BY InitEstablishes, StepKeeps, PTL DEF Spec

\* Whatever fails, and however many pushes and edits overlap, the tables and
\* everything in flight keep their types (SQL rows, batches, triggers).
THEOREM TypeCorrect == Spec => []TypeOK
  <1>1. IInv => TypeOK
    BY DEF IInv
  <1> QED
    BY <1>1, Invariance, PTL

\* wp_synced_at is never set on a question whose page shows nothing: no job
\* ever takes an unpublished answer for a published one.
THEOREM MarksAreTrue == Spec => []SyncedIsShown
  <1>1. IInv => SyncedIsShown
    BY DEF IInv
  <1> QED
    BY <1>1, Invariance, PTL

------------------------------------------------------------------------------
(* Private answers.                                                        *)

\* the pushes that are meant for public answers
PublicKinds == {"own", "sync"}

\* What these have in hand is public: the push of a new answer is triggered for
\* public ones only, and the job of the two minutes selects no others.
OrdinaryIsPublic ==
    /\ \A trigger \in wanted : trigger.kind = "own" => ~answers[trigger.q].private
    /\ \A p \in Pushes : pushes[p] # NoPush /\ pushes[p].kind \in PublicKinds =>
          \A row \in pushes[p].rows : ~answers[row.q].private

\* Whatever is in flight is of one of the questions.
LEMMA InFlightIsQuestion ==
    ASSUME TypeOK
    PROVE  /\ \A trigger \in wanted : trigger.q \in Questions
           /\ \A p \in Pushes : pushes[p] # NoPush =>
                 \A row \in pushes[p].rows : row.q \in Questions
  BY DEF TypeOK, Trigger, Push, PushRow

\* A step that leaves an answer private or public, and that gives nothing
\* private to an ordinary push.
LEMMA PublicFrame ==
    ASSUME IInv, OrdinaryIsPublic,
           \A q \in Questions : IsAnswered(q) => answers'[q].private = answers[q].private,
           \A trigger \in wanted' :
               \/ trigger \in wanted
               \/ trigger.kind # "own"
               \/ ~answers'[trigger.q].private,
           \A p \in Pushes : pushes'[p] # NoPush /\ pushes'[p].kind \in PublicKinds =>
               \A row \in pushes'[p].rows :
                   \/ /\ pushes[p] # NoPush
                      /\ pushes[p].kind \in PublicKinds
                      /\ row \in pushes[p].rows
                   \/ ~answers'[row.q].private
    PROVE  OrdinaryIsPublic'
  <1>1. /\ \A trigger \in wanted : trigger.q \in Questions /\ IsAnswered(trigger.q)
        /\ \A p \in Pushes : pushes[p] # NoPush =>
              \A row \in pushes[p].rows : row.q \in Questions /\ IsAnswered(row.q)
    BY InFlightIsQuestion DEF IInv, InFlightIsAnswered
  <1> QED
    BY <1>1 DEF OrdinaryIsPublic

\* An ordinary push starts with public answers.
LEMMA PublicStart ==
    ASSUME IInv, OrdinaryIsPublic, NEW p \in Pushes, PushStart(p)
    PROVE  OrdinaryIsPublic'
  <1>1. ASSUME NEW kind, NEW qs \in SUBSET Questions,
               kind \in PublicKinds => \A q \in qs : ~answers[q].private,
               Starts(p, kind, qs), wanted' \subseteq wanted
        PROVE  OrdinaryIsPublic'
    <2> DEFINE push == [kind |-> kind, at |-> "post", rows |-> Rows(qs), q |-> NoQuestion]
    <2>1. UNCHANGED answers /\ pushes' = [pushes EXCEPT ![p] = push]
      BY <1>1 DEF Starts
    <2>2. kind \in PublicKinds => \A row \in Rows(qs) : ~answers[row.q].private
      BY <1>1 DEF Rows
    <2>3. push.kind = kind /\ push.rows = Rows(qs)
      OBVIOUS
    <2> HIDE DEF push
    <2>4. \A o \in Pushes : pushes'[o] = IF o = p THEN push ELSE pushes[o]
      BY <2>1 DEF IInv, TypeOK
    <2>5. \A o \in Pushes : pushes'[o] # NoPush /\ pushes'[o].kind \in PublicKinds =>
              \A row \in pushes'[o].rows :
                  \/ /\ pushes[o] # NoPush
                     /\ pushes[o].kind \in PublicKinds
                     /\ row \in pushes[o].rows
                  \/ ~answers'[row.q].private
      BY <2>1, <2>2, <2>3, <2>4
    <2> QED
      BY <1>1, <2>1, <2>5, PublicFrame
  <1>2. CASE SyncStart(p)
    <2> DEFINE qs == Oldest({q \in Questions : UnsyncedPublic(q)})
    <2>1. qs \in SUBSET Questions /\ \A q \in qs : ~answers[q].private
      BY DEF Oldest, UnsyncedPublic
    <2> QED
      BY <1>1, <1>2, <2>1 DEF SyncStart
  <1>3. CASE RetryStart(p)
    <2> DEFINE qs == Oldest({q \in Questions : Unsynced(q)})
    <2>1. qs \in SUBSET Questions
      BY DEF Oldest
    <2>2. "retry" \notin PublicKinds
      BY DEF PublicKinds
    <2> QED
      BY <1>1, <1>3, <2>1, <2>2 DEF RetryStart
  <1>4. ASSUME NEW trigger \in wanted, OneStart(p, trigger)
        PROVE  OrdinaryIsPublic'
    <2>1. trigger \in Trigger /\ {trigger.q} \in SUBSET Questions
      BY InFlightIsQuestion DEF IInv, TypeOK
    <2>2. trigger.kind \in PublicKinds => ~answers[trigger.q].private
      BY <2>1 DEF Trigger, ByIdKinds, PublicKinds, OrdinaryIsPublic
    <2> QED
      BY <1>1, <1>4, <2>1, <2>2 DEF OneStart
  <1> QED
    BY <1>2, <1>3, <1>4 DEF PushStart

\* A push keeps its kind, and has no more rows after a step than before.
LEMMA PublicPush ==
    ASSUME IInv, OrdinaryIsPublic, NEW p \in Pushes, PushStep(p)
    PROVE  OrdinaryIsPublic'
  <1>1. PICK push :
          /\ Moves(p, push)
          /\ push # NoPush => /\ pushes[p] # NoPush
                              /\ push.kind = pushes[p].kind
                              /\ push.rows \subseteq pushes[p].rows
    <2>1. ASSUME NEW row \in pushes[p].rows, Published(p, row) \/ Refused(p, row)
          PROVE  \E push : /\ Moves(p, push)
                           /\ push # NoPush => /\ pushes[p] # NoPush
                                               /\ push.kind = pushes[p].kind
                                               /\ push.rows \subseteq pushes[p].rows
      BY <2>1 DEF Published, Refused, Calls, Called, NextRow
    <2>2. CASE Mark(p) \/ Unmark(p) \/ PushStops(p)
      BY <2>2 DEF Mark, Unmark, Sets, PushStops, NextRow
    <2>3. CASE MarkFails(p)
      <3>1. pushes[p] # NoPush /\ pushes[p] \in Push
        BY <2>3 DEF MarkFails, IInv, TypeOK
      <3> DEFINE clears == [pushes[p] EXCEPT !.at = "unmark"]
      <3>2. clears.kind = pushes[p].kind /\ clears.rows = pushes[p].rows
        BY <3>1 DEF Push
      <3> HIDE DEF clears
      <3>3. Moves(p, clears) \/ Moves(p, NextRow(pushes[p]))
        BY <2>3 DEF MarkFails, clears
      <3> QED
        BY <3>1, <3>2, <3>3 DEF NextRow
    <2> QED
      BY <2>1, <2>2, <2>3 DEF PushStep, Calling
  <1>2. UNCHANGED wanted
    BY DEF PushStep, Calling, Published, Refused, Mark, Unmark, Sets, MarkFails, PushStops
  <1>3. \A q \in Questions : answers'[q].private = answers[q].private
    <2>1. CASE UNCHANGED answers
      BY <2>1
    <2>2. ASSUME NEW at, NEW synced, Sets(p, at, synced)
          PROVE  \A q \in Questions : answers'[q].private = answers[q].private
      <3> DEFINE q0 == pushes[p].q
      <3>1. answers' = [answers EXCEPT ![q0].synced = synced]
        BY <2>2 DEF Sets
      <3> HIDE DEF q0
      <3> QED
        BY <3>1 DEF IInv, TypeOK, AnswerRow
    <2> QED
      BY <2>1, <2>2
      DEF PushStep, Calling, Published, Refused, Mark, Unmark, MarkFails, PushStops
  <1>4. \A o \in Pushes : pushes'[o] # NoPush =>
            /\ pushes[o] # NoPush
            /\ pushes'[o].kind = pushes[o].kind
            /\ pushes'[o].rows \subseteq pushes[o].rows
    BY <1>1 DEF Moves, IInv, TypeOK
  <1> QED
    BY <1>2, <1>3, <1>4, PublicFrame

\* No step gives a private answer to an ordinary push.
LEMMA PublicStep == IInv /\ OrdinaryIsPublic /\ [Next]_vars => OrdinaryIsPublic'
  <1> SUFFICES ASSUME IInv, OrdinaryIsPublic, [Next]_vars PROVE OrdinaryIsPublic'
    OBVIOUS
  <1>1. ASSUME \A q \in Questions :
                   IsAnswered(q) => answers'[q].private = answers[q].private,
               \A trigger \in wanted' :
                   \/ trigger \in wanted
                   \/ trigger.kind # "own"
                   \/ ~answers'[trigger.q].private,
               UNCHANGED pushes
        PROVE  OrdinaryIsPublic'
    BY <1>1, PublicFrame
  <1>2. ASSUME NEW q \in Questions, NEW private \in BOOLEAN, Answer(q, private)
        PROVE  OrdinaryIsPublic'
    <2>1. UNCHANGED pushes
      BY <1>2 DEF Answer
    <2>2. \A o \in Questions : IsAnswered(o) => answers'[o].private = answers[o].private
      BY <1>2 DEF Answer, IsAnswered, IInv, TypeOK
    <2>3. \A trigger \in wanted' : trigger \in wanted \/ ~answers'[trigger.q].private
      BY <1>2 DEF Answer, IInv, TypeOK
    <2> QED
      BY <1>1, <2>1, <2>2, <2>3
  <1>3. ASSUME NEW e \in Editors, EditWrite(e)
        PROVE  OrdinaryIsPublic'
    <2>1. UNCHANGED <<wanted, pushes>>
      BY <1>3 DEF EditWrite
    <2>2. \A q \in Questions : answers'[q].private = answers[q].private
      <3> DEFINE q0 == edits[e].q
      <3>1. answers' = [answers EXCEPT ![q0] = Edited(edits[e], answers[q0], saved[q0] + 1)]
        BY <1>3 DEF EditWrite
      <3>2. \A q \in Questions : answers[q] \in AnswerRow
        BY DEF IInv, TypeOK
      <3>3. \A q \in Questions :
               Edited(edits[e], answers[q], saved[q] + 1).private = answers[q].private
        BY <3>2 DEF Edited, AnswerRow
      <3> HIDE DEF q0
      <3> QED
        BY <3>1, <3>3 DEF IInv, TypeOK
    <2> QED
      BY <1>1, <2>1, <2>2
  <1>4. CASE ManualRetry \/ \E q \in Questions : FollowUpAnswered(q)
    <2>1. UNCHANGED <<answers, pushes>>
      BY <1>4 DEF FollowUpAnswered, ManualRetry
    <2>2. \A trigger \in wanted' : trigger \in wanted \/ trigger.kind # "own"
      <3> DEFINE qs == Oldest({q \in Questions : Unsynced(q)})
      <3>1. ASSUME ManualRetry, NEW trigger \in wanted'
            PROVE  trigger \in wanted \/ trigger.kind # "own"
        <4>1. wanted' = wanted \union {[q |-> q, kind |-> "manual"] : q \in qs}
          BY <3>1 DEF ManualRetry
        <4> HIDE DEF qs
        <4> QED
          BY <3>1, <4>1
      <3>2. ASSUME NEW q \in Questions, FollowUpAnswered(q), NEW trigger \in wanted'
            PROVE  trigger \in wanted \/ trigger.kind # "own"
        BY <3>2 DEF FollowUpAnswered
      <3> QED
        BY <1>4, <3>1, <3>2
    <2> QED
      BY <1>1, <2>1, <2>2
  <1>5. CASE \E p \in Pushes : PushStart(p) \/ PushStep(p)
    BY <1>5, PublicStart, PublicPush
  <1>6. CASE \/ \E q \in Questions, e \in Editors : EditRead(e, q)
             \/ \E e \in Editors : EditFails(e)
             \/ \E trigger \in wanted : TriggerLost(trigger)
             \/ UNCHANGED vars
    <2>1. UNCHANGED <<answers, pushes>> /\ wanted' \subseteq wanted
      BY <1>6 DEF EditRead, EditFails, TriggerLost, vars
    <2> QED
      BY <1>1, <2>1
  <1> QED
    BY <1>2, <1>3, <1>4, <1>5, <1>6 DEF Next

\* A page changes by the call of a push for one of its rows.
LEMMA PageChanges ==
    ASSUME IInv, [Next]_vars, NEW q \in Questions, site'[q] # site[q]
    PROVE  \E p \in Pushes : /\ pushes[p] # NoPush
                             /\ Calling(p)
                             /\ \E row \in pushes[p].rows : row.q = q
  <1>1. ~UNCHANGED site
    OBVIOUS
  <1>2. PICK p \in Pushes : PushStep(p)
    BY <1>1
    DEF Next, Answer, FollowUpAnswered, EditRead, EditWrite, EditFails, ManualRetry,
        TriggerLost, PushStart, SyncStart, RetryStart, OneStart, Starts, vars
  <1>3. PICK row \in pushes[p].rows :
            pushes[p] # NoPush /\ Shows(row) /\ (Published(p, row) \/ Refused(p, row))
    BY <1>1, <1>2
    DEF PushStep, Calling, Published, Refused, Mark, Unmark, Sets, MarkFails, PushStops
  <1>4. row.q = q
    BY <1>3 DEF Shows, IInv, TypeOK
  <1> QED
    BY <1>3, <1>4 DEF Calling

\* submitAnswer: "skip for private answers".  Whatever retries and follow-ups
\* do, and with any number of pushes at once, neither the push of a new answer
\* nor the job of the two minutes ever changes the page of a private one.
THEOREM PrivateOnlyByOthers == Spec => PrivateShownByOthers
  <1>1. Init => OrdinaryIsPublic
    BY DEF Init, OrdinaryIsPublic
  <1>2. ASSUME IInv, OrdinaryIsPublic, [Next]_vars, NEW q \in Questions,
               answers[q].private, site'[q] # site[q]
        PROVE  \E p \in Pushes : /\ pushes[p] # NoPush
                                 /\ pushes[p].kind \in {"retry", "manual", "followUp"}
                                 /\ Calling(p)
    <2>1. PICK p \in Pushes : /\ pushes[p] # NoPush
                              /\ Calling(p)
                              /\ \E row \in pushes[p].rows : row.q = q
      BY <1>2, PageChanges
    <2>2. pushes[p].kind \notin PublicKinds
      BY <1>2, <2>1 DEF OrdinaryIsPublic
    <2>3. pushes[p].kind \in Kinds
      BY <1>2, <2>1 DEF IInv, TypeOK, Push
    <2>4. pushes[p].kind \in {"retry", "manual", "followUp"}
      BY <2>2, <2>3 DEF Kinds, ByIdKinds, PublicKinds
    <2> QED
      BY <2>1, <2>4
  <1>3. IInv /\ OrdinaryIsPublic /\ [Next]_vars
          => [\A q \in Questions :
                answers[q].private /\ site'[q] # site[q]
                    => \E p \in Pushes :
                          /\ pushes[p] # NoPush
                          /\ pushes[p].kind \in {"retry", "manual", "followUp"}
                          /\ Calling(p)]_vars
    BY <1>2
  <1> QED
    BY <1>1, <1>3, PublicStep, Invariance, PTL DEF Spec, PrivateShownByOthers

------------------------------------------------------------------------------
(* The texts of an answer.                                                 *)

\* Contents are numbered as they are saved, so the present one is the last; a
\* question that is not answered has none, now or before.
ContentIsLast ==
    \A q \in Questions :
        /\ answers[q].content = saved[q]
        /\ ~IsAnswered(q) => answers[q].content = None /\ answers[q].versions = {}

\* Unless the text an edit has read was replaced, the versions it has read are
\* those of the row.
EditKnowsVersions ==
    \A e \in Editors : edits[e] # NoEdit =>
        /\ edits[e].content <= saved[edits[e].q]
        /\ edits[e].content = answers[edits[e].q].content
              => edits[e].versions = answers[edits[e].q].versions

TextInv == ContentIsLast /\ EditKnowsVersions

\* A step that changes the mark of an answer at most.
LEMMA TextFrame ==
    ASSUME IInv, TextInv, UNCHANGED saved,
           \A q \in Questions : /\ answers'[q].content = answers[q].content
                                /\ answers'[q].versions = answers[q].versions
                                /\ answers'[q].answered = answers[q].answered,
           \A e \in Editors : edits'[e] # NoEdit => edits'[e] = edits[e]
    PROVE  TextInv' /\ \A q \in Questions : Texts(q)' = Texts(q)
  <1>1. \A e \in Editors : edits[e] # NoEdit => edits[e].q \in Questions
    BY DEF IInv, TypeOK, Edit
  <1>2. EditKnowsVersions'
    BY <1>1 DEF TextInv, EditKnowsVersions
  <1>3. ContentIsLast'
    BY DEF TextInv, ContentIsLast, IsAnswered
  <1> QED
    BY <1>2, <1>3 DEF TextInv, Texts

\* An edit that writes: it loses a text only if the one it had read was
\* replaced, and none of the edits in flight has read the text it stores.
LEMMA EditWriteTexts ==
    ASSUME IInv, TextInv, NEW e \in Editors, EditWrite(e)
    PROVE  /\ TextInv'
           /\ \A q \in Questions : ~(Texts(q) \subseteq Texts(q)') =>
                 edits[e].q = q /\ edits[e].content # answers[q].content
  <1>0. /\ answers \in [Questions -> AnswerRow]
        /\ \A f \in Editors : edits[f] # NoEdit => edits[f].q \in Questions /\ edits[f] \in Edit
    BY DEF IInv, TypeOK, Edit
  <1>1. PICK q \in Questions : q = edits[e].q
    BY <1>0 DEF EditWrite
  <1> DEFINE row == Edited(edits[e], answers[q], saved[q] + 1)
  <1>2. edits[e] # NoEdit /\ q \in Questions /\ answers[q] \in AnswerRow /\ edits[e] \in Edit
    BY <1>1, <1>0 DEF EditWrite
  <1>3. /\ answers' = [answers EXCEPT ![q] = row]
        /\ saved' = [saved EXCEPT ![q] = @ + 1]
        /\ edits' = [edits EXCEPT ![e] = NoEdit]
    BY <1>1 DEF EditWrite
  <1>4. /\ row.content = saved[q] + 1
        /\ row.versions = edits[e].versions \union {edits[e].content}
        /\ row.answered = answers[q].answered
    BY <1>2 DEF Edited, VersionsAfterEdit, AnswerRow
  <1>5. IsAnswered(q)
    BY <1>1, <1>2 DEF IInv, InFlightIsAnswered
  <1>6. edits[e].content = answers[q].content => edits[e].versions = answers[q].versions
    BY <1>1, <1>2 DEF TextInv, EditKnowsVersions
  <1>7. \A o \in Questions : saved[o] \in Nat
    BY DEF IInv, TypeOK, Contents, None
  <1> HIDE DEF row
  <1>9. /\ answers'[q] = row
        /\ saved'[q] = saved[q] + 1
        /\ \A o \in Questions \ {q} : answers'[o] = answers[o] /\ saved'[o] = saved[o]
    BY <1>2, <1>3 DEF IInv, TypeOK
  <1>10. ContentIsLast'
    BY <1>4, <1>5, <1>9 DEF TextInv, ContentIsLast, IsAnswered
  <1>11. EditKnowsVersions'
    <2> SUFFICES ASSUME NEW f \in Editors, edits'[f] # NoEdit
                 PROVE  /\ edits'[f].content <= saved'[edits'[f].q]
                        /\ edits'[f].content = answers'[edits'[f].q].content
                             => edits'[f].versions = answers'[edits'[f].q].versions
      BY DEF EditKnowsVersions
    <2>1. /\ edits'[f] = edits[f]
          /\ edits[f] # NoEdit
          /\ edits[f].q \in Questions
          /\ edits[f].content \in Nat
      BY <1>0, <1>3 DEF IInv, TypeOK, Edit, Contents
    <2>2. edits[f].content <= saved[edits[f].q]
      BY <2>1 DEF TextInv, EditKnowsVersions
    <2>3. CASE edits[f].q = q
      BY <1>4, <1>7, <1>9, <2>1, <2>2, <2>3
    <2>4. CASE edits[f].q # q
      BY <1>9, <2>1, <2>2, <2>4 DEF TextInv, EditKnowsVersions
    <2> QED
      BY <2>3, <2>4
  <1>12. edits[e].content = answers[q].content => Texts(q) \subseteq Texts(q)'
    <2> SUFFICES ASSUME edits[e].content = answers[q].content
                 PROVE  Texts(q) \subseteq Texts(q)'
      OBVIOUS
    <2>1. row.versions = answers[q].versions \union {answers[q].content}
      BY <1>4, <1>6
    <2> QED
      BY <1>9, <2>1 DEF Texts
  <1>13. \A o \in Questions \ {q} : Texts(o)' = Texts(o)
    BY <1>9 DEF Texts
  <1> QED
    BY <1>1, <1>10, <1>11, <1>12, <1>13 DEF TextInv

\* Every step keeps the invariant, and all texts unless it is such an edit.
LEMMA TextStep ==
    ASSUME IInv, TextInv, [Next]_vars
    PROVE  /\ TextInv'
           /\ \A q \in Questions : ~(Texts(q) \subseteq Texts(q)') =>
                 \E e \in Editors : /\ edits[e].q = q
                                    /\ edits[e].content # answers[q].content
                                    /\ EditWrite(e)
  <1> DEFINE Goal == /\ TextInv'
                     /\ \A q \in Questions : ~(Texts(q) \subseteq Texts(q)') =>
                           \E e \in Editors : /\ edits[e].q = q
                                              /\ edits[e].content # answers[q].content
                                              /\ EditWrite(e)
  <1>1. answers \in [Questions -> AnswerRow]
    BY DEF IInv, TypeOK
  <1>2. ASSUME TextInv', \A q \in Questions : Texts(q) \subseteq Texts(q)'
        PROVE  Goal
    BY <1>2
  <1>3. CASE /\ UNCHANGED <<answers, saved>>
             /\ \A e \in Editors : edits'[e] # NoEdit => edits'[e] = edits[e]
    BY <1>2, <1>3, TextFrame
  <1>4. ASSUME NEW q \in Questions, NEW private \in BOOLEAN, Answer(q, private)
        PROVE  Goal
    <2>1. /\ ~IsAnswered(q) /\ UNCHANGED edits
          /\ saved' = [saved EXCEPT ![q] = 1]
          /\ answers'[q].content = 1 /\ answers'[q].versions = {1}
          /\ \A o \in Questions \ {q} : answers'[o] = answers[o]
      BY <1>1, <1>4 DEF Answer
    <2>2. IsAnswered(q)'
      BY <1>1, <1>4, NextRank DEF Answer, IsAnswered, IInv
    <2>3. \A e \in Editors : edits[e] # NoEdit => edits[e].q \in Questions \ {q}
      BY <2>1 DEF IInv, InFlightIsAnswered, TypeOK, Edit
    <2>4. /\ saved'[q] = 1
          /\ \A o \in Questions \ {q} : saved'[o] = saved[o]
      BY <2>1 DEF IInv, TypeOK
    <2>5. EditKnowsVersions'
      BY <2>1, <2>3, <2>4 DEF TextInv, EditKnowsVersions
    <2>6. ContentIsLast'
      BY <2>1, <2>2, <2>4 DEF TextInv, ContentIsLast, IsAnswered
    <2>7. Texts(q) = {}
      BY <2>1 DEF TextInv, ContentIsLast, Texts
    <2>8. \A o \in Questions : Texts(o) \subseteq Texts(o)'
      BY <2>1, <2>7 DEF Texts
    <2> QED
      BY <1>2, <2>5, <2>6, <2>8 DEF TextInv
  <1>5. ASSUME NEW q \in Questions, NEW e \in Editors, EditRead(e, q)
        PROVE  Goal
    <2> DEFINE edit == [q |-> q, content |-> answers[q].content, versions |-> answers[q].versions]
    <2>1. UNCHANGED <<answers, saved>> /\ edits' = [edits EXCEPT ![e] = edit]
      BY <1>5 DEF EditRead
    <2>2. edit.q = q /\ edit.content = answers[q].content /\ edit.versions = answers[q].versions
      OBVIOUS
    <2>3. answers[q].content <= saved[q]
      BY DEF TextInv, ContentIsLast, IInv, TypeOK, Contents, None
    <2> HIDE DEF edit
    <2>4. \A f \in Editors : edits'[f] = IF f = e THEN edit ELSE edits[f]
      BY <2>1 DEF IInv, TypeOK
    <2>5. EditKnowsVersions'
      BY <2>1, <2>2, <2>3, <2>4 DEF TextInv, EditKnowsVersions
    <2>6. ContentIsLast' /\ \A o \in Questions : Texts(o)' = Texts(o)
      BY <2>1 DEF TextInv, ContentIsLast, IsAnswered, Texts
    <2> QED
      BY <1>2, <2>5, <2>6 DEF TextInv
  <1>6. ASSUME NEW e \in Editors, EditWrite(e)
        PROVE  Goal
    BY <1>6, EditWriteTexts
  <1>7. ASSUME NEW p \in Pushes, Mark(p) \/ Unmark(p)
        PROVE  Goal
    <2>1. PICK synced : Sets(p, "mark", synced) \/ Sets(p, "unmark", synced)
      BY <1>7 DEF Mark, Unmark
    <2> DEFINE q0 == pushes[p].q
    <2>2. answers' = [answers EXCEPT ![q0].synced = synced] /\ UNCHANGED <<edits, saved>>
      BY <2>1 DEF Sets
    <2> HIDE DEF q0
    <2>3. \A q \in Questions : /\ answers'[q].content = answers[q].content
                              /\ answers'[q].versions = answers[q].versions
                              /\ answers'[q].answered = answers[q].answered
      BY <1>1, <2>2 DEF AnswerRow
    <2> QED
      BY <1>2, <2>2, <2>3, TextFrame
  <1>8. ASSUME NEW e \in Editors, EditFails(e)
        PROVE  Goal
    BY <1>3, <1>8 DEF EditFails, IInv, TypeOK
  <1>9. CASE \/ \E q \in Questions : FollowUpAnswered(q)
             \/ ManualRetry
             \/ \E trigger \in wanted : TriggerLost(trigger)
             \/ \E p \in Pushes :
                   PushStart(p) \/ Calling(p) \/ MarkFails(p) \/ PushStops(p)
             \/ UNCHANGED vars
    <2>1. UNCHANGED <<answers, saved, edits>>
      BY <1>9
      DEF FollowUpAnswered, ManualRetry, TriggerLost, PushStart, SyncStart, RetryStart,
          OneStart, Starts, Calling, Published, Refused, MarkFails, PushStops, vars
    <2> QED
      BY <1>3, <2>1
  <1> QED
    BY <1>4, <1>5, <1>6, <1>7, <1>8, <1>9 DEF Next, PushStep

\* editAnswer: "Push old content to content_versions".  However many edits and
\* pushes interleave, every text an answer ever had stays in its row, but for
\* those that an edit which had read an older text writes over.
THEOREM TextsLostToOverlapOnly == Spec => TextLostToOverlap
  <1>1. Init => TextInv
    BY DEF Init, TextInv, ContentIsLast, EditKnowsVersions, None, IsAnswered
  <1>2. IInv /\ TextInv /\ [Next]_vars => TextInv'
    BY TextStep
  <1>3. IInv /\ TextInv /\ [Next]_vars
          => [\A q \in Questions :
                ~(Texts(q) \subseteq Texts(q)')
                    => \E e \in Editors : /\ edits[e].q = q
                                          /\ edits[e].content # answers[q].content
                                          /\ EditWrite(e)]_vars
    BY TextStep
  <1> QED
    BY <1>1, <1>2, <1>3, Invariance, PTL DEF Spec, TextLostToOverlap
==============================================================================
