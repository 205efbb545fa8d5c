---------------------------- MODULE AskerFeedback ----------------------------
(***************************************************************************)
(* What the readers of one answer send back: thanks, counted once for a    *)
(* visitor and once for an address with the help of keys in Redis, and a   *)
(* follow-up question, of which there may be one.  The post on the site    *)
(* shows the number of thanks that the last call of syncThankCount brought *)
(* it.  The keys are lost when they expire, when Redis needs the room      *)
(* (allkeys-lru), or with the last second of its log.                      *)
(*                                                                         *)
(* A call stays until what its handler leaves running after the answer is  *)
(* done; every step of it is one statement.                                *)
(***************************************************************************)
EXTENDS Integers, FiniteSets

CONSTANTS
    Visitors,      \* visitor_id of a browser
    Addresses,     \* IP addresses; visitors share them and change them
    Slots,         \* calls that can be under way at once
    MaxThanks,     \* bound: thanks counted
    MaxFollowUps,  \* bound: follow-up questions stored
    Faults         \* whether statements fail and the server restarts

ASSUME FeedbackAssumption ==
    /\ MaxThanks \in Nat
    /\ MaxFollowUps \in Nat
    /\ Faults \in BOOLEAN
    /\ "nobody" \notin Visitors \union Addresses

VARIABLES
    question,    \* its row: answered or not, thank_count, follow_up_count
    keys,        \* addresses with a key in Redis
    remembered,  \* visitors with a key in Redis
    shown,       \* thank_count of the post
    calls,       \* the call in each slot
    counted,     \* history: thanks of an address since its key was set or lost
    thanked,     \* history: visitors one of whose thanks was counted
    wasted,      \* history: addresses whose key was set for a thank that failed
    raced,       \* history: addresses two calls of which passed the check at
                 \* once, or whose key was lost under a call
    missed,      \* history: a count did not reach the post, or came too late
    crowded      \* history: two follow-ups passed the check at once

redis   == <<keys, remembered>>
history == <<counted, thanked, wasted, raced, missed, crowded>>
vars    == <<question, redis, shown, calls, history>>

Nobody == "nobody"
NoCall == [kind |-> "none"]

\* wpThank checks the visitor first, thank only the address; hook, the call of
\* the site itself, checks nothing
ThankKinds == {"wpThank", "thank", "hook"}
Numbers    == 0 .. MaxThanks
WpCall     == [kind : {"wpThank"},
               at : {"visitor", "address", "key", "count", "remember", "push"},
               by : Visitors, from : Addresses, number : Numbers]
PlainCall  == [kind : {"thank"}, at : {"address", "key", "count", "push"},
               by : {Nobody}, from : Addresses, number : Numbers]
HookCall   == [kind : {"hook"}, at : {"count", "push"},
               by : {Nobody}, from : {Nobody}, number : Numbers]
FollowCall == [kind : {"followUp"}, at : {"check", "insert"}]
Call       == WpCall \union PlainCall \union HookCall \union FollowCall

TypeOK ==
    /\ question \in [answered : BOOLEAN, thanks : Numbers,
                     followUps : 0 .. MaxFollowUps]
    /\ keys \in SUBSET Addresses
    /\ remembered \in SUBSET Visitors
    /\ shown \in Numbers
    /\ calls \in [Slots -> Call \union {NoCall}]
    /\ counted \in [Addresses -> Numbers]
    /\ thanked \in SUBSET Visitors
    /\ wasted \in SUBSET Addresses
    /\ raced \in SUBSET Addresses
    /\ missed \in BOOLEAN
    /\ crowded \in BOOLEAN

Init ==
    /\ question = [answered |-> TRUE, thanks |-> 0, followUps |-> 0]
    /\ keys = {}
    /\ remembered = {}
    /\ shown = 0
    /\ calls = [c \in Slots |-> NoCall]
    /\ counted = [a \in Addresses |-> 0]
    /\ thanked = {}
    /\ wasted = {}
    /\ raced = {}
    /\ missed = FALSE
    /\ crowded = FALSE

------------------------------------------------------------------------------
(* Calls.                                                                  *)

Thanking(c) == calls[c].kind \in ThankKinds

At(c, at) == Thanking(c) /\ calls[c].at = at

Starts(c, call) ==
    /\ calls[c] = NoCall
    /\ calls' = [calls EXCEPT ![c] = call]

Moves(c, at) == calls' = [calls EXCEPT ![c].at = at]

Ends(c) == calls' = [calls EXCEPT ![c] = NoCall]

\* calls of an address that have found no key
Past(a) == {c \in Slots : (At(c, "key") \/ At(c, "count")) /\ calls[c].from = a}

\* calls that have the number of thanks for the post
Numbered == {c \in Slots : At(c, "remember") \/ At(c, "push")}

------------------------------------------------------------------------------
(* Thanks.                                                                 *)

Thank(c, v, a) ==
    /\ \/ Starts(c, [kind |-> "wpThank", at |-> "visitor", by |-> v, from |-> a, number |-> 0])
       \/ Starts(c, [kind |-> "thank", at |-> "address", by |-> Nobody, from |-> a, number |-> 0])
    /\ UNCHANGED <<question, redis, shown, history>>

\* the lookup of /thank-click reads the number of thanks, too
Hook(c) ==
    /\ Starts(c, [kind |-> "hook", at |-> "count", by |-> Nobody, from |-> Nobody,
                  number |-> question.thanks])
    /\ UNCHANGED <<question, redis, shown, history>>

\* the key of the visitor; an error of Redis lets the call go on
VisitorCheck(c) ==
    /\ At(c, "visitor")
    /\ \/ /\ calls[c].by \in remembered
          /\ Ends(c)
       \/ /\ calls[c].by \notin remembered \/ Faults
          /\ Moves(c, "address")
    /\ UNCHANGED <<question, redis, shown, history>>

\* redis.exists
AddressCheck(c) ==
    /\ At(c, "address")
    /\ IF calls[c].from \in keys
       THEN Ends(c) /\ UNCHANGED raced
       ELSE /\ Moves(c, "key")
            /\ raced' = IF Past(calls[c].from) # {} THEN raced \union {calls[c].from}
                        ELSE raced
    /\ UNCHANGED <<question, redis, shown, counted, thanked, wasted, missed, crowded>>

\* mutant: the call is counted without a key
SetNoKey(c) ==
    /\ At(c, "key")
    /\ Moves(c, "count")
    /\ UNCHANGED <<question, redis, shown, history>>

\* redis.setEx, for 30 days
SetKey(c) ==
    /\ At(c, "key")
    /\ keys' = keys \union {calls[c].from}
    /\ Moves(c, "count")
    /\ UNCHANGED <<question, remembered, shown, history>>

\* mutant: a key for a call without visitor_id, too
RemembersAll(kind) == "remember"

\* only /wp-thank keeps a key of the visitor
Afterwards(kind) == IF kind = "wpThank" THEN "remember" ELSE "push"

\* what counting one thank more does to its history
Counts(c) ==
    /\ question' = [question EXCEPT !.thanks = @ + 1]
    /\ counted' = IF calls[c].from = Nobody THEN counted
                  ELSE [counted EXCEPT ![calls[c].from] = @ + 1]
    /\ thanked' = IF calls[c].by = Nobody THEN thanked ELSE thanked \union {calls[c].by}

\* mutant: the number the handler read at first goes to the post
CountStale(c) ==
    /\ At(c, "count")
    /\ question.thanks < MaxThanks
    /\ Counts(c)
    /\ Moves(c, Afterwards(calls[c].kind))
    /\ UNCHANGED <<redis, shown, wasted, raced, missed, crowded>>

\* UPDATE questions SET thank_count = thank_count + 1 RETURNING thank_count
Count(c) ==
    /\ At(c, "count")
    /\ question.thanks < MaxThanks
    /\ Counts(c)
    /\ calls' = [calls EXCEPT ![c].at = Afterwards(calls[c].kind),
                              ![c].number = question.thanks + 1]
    /\ UNCHANGED <<redis, shown, wasted, raced, missed, crowded>>

\* mutant: a failed UPDATE goes on as if it had counted
CountFailsUnseen(c) ==
    /\ Faults
    /\ At(c, "count")
    /\ Moves(c, Afterwards(calls[c].kind))
    /\ UNCHANGED <<question, redis, shown, history>>

\* The UPDATE fails: the site's call still tells the post the number it had
\* read; the others end, and their key stays.
CountFails(c) ==
    /\ Faults
    /\ At(c, "count")
    /\ IF calls[c].kind = "hook"
       THEN Moves(c, "push") /\ UNCHANGED wasted
       ELSE Ends(c) /\ wasted' = wasted \union {calls[c].from}
    /\ UNCHANGED <<question, redis, shown, counted, thanked, raced, missed, crowded>>

\* setEx of the visitor, for a day; its error is swallowed
Remember(c) ==
    /\ At(c, "remember")
    /\ \/ remembered' = remembered \union {calls[c].by}
       \/ Faults /\ UNCHANGED remembered
    /\ Moves(c, "push")
    /\ UNCHANGED <<question, keys, shown, history>>

\* syncThankCount, which nothing orders
Push(c) ==
    /\ At(c, "push")
    /\ shown' = calls[c].number
    /\ missed' = (calls[c].number # question.thanks /\ (missed \/ calls[c].number < shown))
    /\ Ends(c)
    /\ UNCHANGED <<question, redis, counted, thanked, wasted, raced, crowded>>

------------------------------------------------------------------------------
(* Follow-up questions.                                                    *)

\* from the page of the site, its webhook, or the portal
AskFollowUp(c) ==
    /\ Starts(c, [kind |-> "followUp", at |-> "check"])
    /\ UNCHANGED <<question, redis, shown, history>>

Following(c, at) == calls[c].kind = "followUp" /\ calls[c].at = at

\* mutant: the limit is one more
MayFollowUpTwice == question.answered /\ question.followUps <= 1

\* checkFollowUpAllowed
MayFollowUp == question.answered /\ question.followUps < 1

FollowUpCheck(c) ==
    /\ Following(c, "check")
    /\ IF MayFollowUp
       THEN /\ Moves(c, "insert")
            /\ crowded' = (crowded \/ \E d \in Slots : Following(d, "insert"))
       ELSE Ends(c) /\ UNCHANGED crowded
    /\ UNCHANGED <<question, redis, shown, counted, thanked, wasted, raced, missed>>

\* the row and follow_up_count, in one transaction
FollowUpInsert(c) ==
    /\ Following(c, "insert")
    /\ question.followUps < MaxFollowUps
    /\ question' = [question EXCEPT !.followUps = @ + 1]
    /\ Ends(c)
    /\ UNCHANGED <<redis, shown, history>>

\* the desk opens the question again, or answers it again
Reopened ==
    /\ question' = [question EXCEPT !.answered = ~ @]
    /\ UNCHANGED <<redis, shown, calls, history>>

------------------------------------------------------------------------------
(* Failure.                                                                *)

\* a failed statement, or a restart of the server
Breaks(c) ==
    /\ Faults
    /\ calls[c] # NoCall
    /\ Ends(c)
    /\ wasted' = IF At(c, "count") /\ calls[c].from # Nobody
                 THEN wasted \union {calls[c].from} ELSE wasted
    /\ missed' = (missed \/ c \in Numbered)
    /\ UNCHANGED <<question, redis, shown, counted, thanked, raced, crowded>>

\* The key of an address is gone, and a new count begins.
KeyLost(a) ==
    /\ a \in keys
    /\ keys' = keys \ {a}
    /\ counted' = [counted EXCEPT ![a] = 0]
    /\ wasted' = wasted \ {a}
    /\ raced' = IF Past(a) # {} THEN raced \union {a} ELSE raced \ {a}
    /\ UNCHANGED <<question, remembered, shown, calls, thanked, missed, crowded>>

VisitorLost(v) ==
    /\ v \in remembered
    /\ remembered' = remembered \ {v}
    /\ UNCHANGED <<question, keys, shown, calls, history>>

------------------------------------------------------------------------------
CallStep(c) ==
    \/ \E v \in Visitors, a \in Addresses : Thank(c, v, a)
    \/ Hook(c) \/ AskFollowUp(c)
    \/ VisitorCheck(c) \/ AddressCheck(c) \/ SetKey(c)
    \/ Count(c) \/ CountFails(c) \/ Remember(c) \/ Push(c)
    \/ FollowUpCheck(c) \/ FollowUpInsert(c)
    \/ Breaks(c)

Next ==
    \/ \E c \in Slots : CallStep(c)
    \/ \E a \in Addresses : KeyLost(a)
    \/ \E v \in Visitors : VisitorLost(v)
    \/ Reopened

Spec == Init /\ [][Next]_vars

------------------------------------------------------------------------------
(* What the code guarantees.                                               *)

\* As long as the key of an address lives, one thank from it is counted,
\* unless two calls of the address were past the check at once.
OneThankPerAddress == \A a \in Addresses : counted[a] <= 1 \/ a \in raced

\* Whoever is told that he has thanked already was counted, he or somebody at
\* his address; or is being counted; or that UPDATE failed.
KeyMeansThank ==
    /\ \A a \in keys : counted[a] > 0 \/ a \in wasted \/ Past(a) # {}
    /\ remembered \subseteq thanked

\* The limit of one follow-up is passed only by calls that checked it at once.
OneFollowUp == question.followUps <= 1 \/ crowded

\* With no call on its way the post shows the number of the database, unless
\* a call to the site failed or came after a later one.
ShownIsCounted == Numbered = {} /\ ~missed => shown = question.thanks
==============================================================================
