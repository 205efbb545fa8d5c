------------------------------ MODULE AnswerOnce ------------------------------
(***************************************************************************)
(* What the desk promises the person who asked: a question goes from rabbi *)
(* to rabbi and back to the queue as often as it must and is answered at   *)
(* most once, by one author.  It stays answered, unless a recall that was  *)
(* granted while it was still in process comes into effect late.           *)
(***************************************************************************)
CONSTANTS Questions, Rabbis, NoRabbi

VARIABLES
    phase,   \* the status of each question
    holder,  \* the rabbi it is with, or NoRabbi
    author,  \* the rabbi who answered it, or NoRabbi
    recalled \* the questions whose recall is granted and not yet in effect

desk == <<phase, holder, author, recalled>>

Init ==
    /\ phase = [q \in Questions |-> "pending"]
    /\ holder = [q \in Questions |-> NoRabbi]
    /\ author = [q \in Questions |-> NoRabbi]
    /\ recalled = {}

\* a rabbi takes a waiting question
Take(q, r) ==
    /\ phase[q] = "pending"
    /\ phase' = [phase EXCEPT ![q] = "in_process"]
    /\ holder' = [holder EXCEPT ![q] = r]
    /\ UNCHANGED <<author, recalled>>

\* questions in process return to the queue, several at a time
Return(qs) ==
    /\ \A q \in qs : phase[q] = "in_process"
    /\ phase' = [q \in Questions |-> IF q \in qs THEN "pending" ELSE phase[q]]
    /\ holder' = [q \in Questions |-> IF q \in qs THEN NoRabbi ELSE holder[q]]
    /\ UNCHANGED <<author, recalled>>

\* a question in process is to return to the queue
GrantRecall(q) ==
    /\ phase[q] = "in_process"
    /\ recalled' = recalled \union {q}
    /\ UNCHANGED <<phase, holder, author>>

\* it does, whatever became of it since; another recall of it may be pending
Recall(q) ==
    /\ q \in recalled
    /\ phase' = [phase EXCEPT ![q] = "pending"]
    /\ holder' = [holder EXCEPT ![q] = NoRabbi]
    /\ recalled' \in {recalled, recalled \ {q}}
    /\ UNCHANGED author

\* a recall comes to nothing
DropRecall(q) ==
    /\ recalled' = recalled \ {q}
    /\ UNCHANGED <<phase, holder, author>>

\* a question is handed to a rabbi, whatever its phase
HandOver(q, r) ==
    /\ holder' = [holder EXCEPT ![q] = r]
    /\ UNCHANGED <<phase, author, recalled>>

\* the one answer; its author need not be the holder
Publish(q, r) ==
    /\ phase[q] # "answered"
    /\ author[q] = NoRabbi
    /\ phase' = [phase EXCEPT ![q] = "answered"]
    /\ author' = [author EXCEPT ![q] = r]
    /\ holder' \in {holder, [holder EXCEPT ![q] = r]}
    /\ UNCHANGED recalled

Next ==
    \/ \E q \in Questions, r \in Rabbis :
          Take(q, r) \/ HandOver(q, r) \/ Publish(q, r)
    \/ \E q \in Questions : GrantRecall(q) \/ Recall(q) \/ DropRecall(q)
    \/ \E qs \in SUBSET Questions : Return(qs)

Spec == Init /\ [][Next]_desk
==============================================================================
