------------------------- MODULE AskerFeedback_proofs -------------------------
(***************************************************************************)
(* Proofs about AskerFeedback: what its runs check, for any visitors,      *)
(* addresses, slots and bounds.                                            *)
(***************************************************************************)
EXTENDS AskerFeedback, FiniteSetTheorems, TLAPS

------------------------------------------------------------------------------
(* What a step does to its call.                                           *)

Others(c) == \A d \in Slots : d # c => calls'[d] = calls[d]

\* A call that moves on keeps what it carries.
LEMMA MoveFacts ==
    ASSUME TypeOK, NEW c \in Slots, Thanking(c), NEW at, Moves(c, at)
    PROVE  /\ calls'[c] = [calls[c] EXCEPT !.at = at]
           /\ calls'[c].kind = calls[c].kind
           /\ calls'[c].at = at
           /\ calls'[c].by = calls[c].by
           /\ calls'[c].from = calls[c].from
           /\ calls'[c].number = calls[c].number
           /\ Others(c)
<1>1. calls[c] \in WpCall \union PlainCall \union HookCall
  BY DEF TypeOK, Thanking, ThankKinds, Call, FollowCall, NoCall, WpCall, PlainCall, HookCall
<1>2. /\ calls'[c] = [calls[c] EXCEPT !.at = at]
      /\ Others(c)
  BY DEF TypeOK, Moves, Others
<1> QED
  BY <1>1, <1>2 DEF WpCall, PlainCall, HookCall

\* A call that ends leaves its slot empty.
LEMMA EndFacts ==
    ASSUME TypeOK, NEW c \in Slots, Ends(c)
    PROVE  /\ calls'[c] = NoCall
           /\ Others(c)
BY DEF TypeOK, Ends, Others

\* A call starts in an empty slot.
LEMMA StartFacts ==
    ASSUME TypeOK, NEW c \in Slots, NEW call, Starts(c, call)
    PROVE  /\ calls[c] = NoCall
           /\ calls'[c] = call
           /\ Others(c)
BY DEF TypeOK, Starts, Others

\* A call that counted has the new number.
LEMMA CountFacts ==
    ASSUME TypeOK, NEW c \in Slots, Count(c)
    PROVE  /\ calls'[c].kind = calls[c].kind
           /\ calls'[c].at = Afterwards(calls[c].kind)
           /\ calls'[c].by = calls[c].by
           /\ calls'[c].from = calls[c].from
           /\ calls'[c].number = question.thanks + 1
           /\ Others(c)
           /\ calls' \in [Slots -> Call \union {NoCall}]
           /\ question' = [question EXCEPT !.thanks = question.thanks + 1]
           /\ question.thanks + 1 \in Numbers
<1>1. calls[c] \in WpCall \union PlainCall \union HookCall
  BY DEF Count, At, TypeOK, Thanking, ThankKinds, Call, FollowCall, NoCall, WpCall, PlainCall, HookCall
<1>2. /\ calls' = [calls EXCEPT ![c] = [[calls[c] EXCEPT !.at = Afterwards(calls[c].kind)]
                                               EXCEPT !.number = question.thanks + 1]]
      /\ question' = [question EXCEPT !.thanks = question.thanks + 1]
  BY DEF Count, Counts
<1>3. question.thanks + 1 \in Numbers
  BY FeedbackAssumption DEF Count, TypeOK, Numbers
<1>4. /\ calls'[c] = [[calls[c] EXCEPT !.at = Afterwards(calls[c].kind)]
                               EXCEPT !.number = question.thanks + 1]
      /\ Others(c)
  BY <1>2 DEF TypeOK, Others
<1>5. calls' \in [Slots -> Call \union {NoCall}]
  <2>1. calls'[c] \in Call
    BY <1>1, <1>3, <1>4 DEF Call, WpCall, PlainCall, HookCall, Afterwards
  <2> QED
    BY <1>2, <1>4, <2>1 DEF TypeOK
<1>6. /\ calls'[c].kind = calls[c].kind
      /\ calls'[c].at = Afterwards(calls[c].kind)
      /\ calls'[c].by = calls[c].by
      /\ calls'[c].from = calls[c].from
      /\ calls'[c].number = question.thanks + 1
  <2> DEFINE moved == [calls[c] EXCEPT !.at = Afterwards(calls[c].kind)]
  <2>1. /\ moved.kind = calls[c].kind
        /\ moved.at = Afterwards(calls[c].kind)
        /\ moved.by = calls[c].by
        /\ moved.from = calls[c].from
        /\ DOMAIN moved = {"kind", "at", "by", "from", "number"}
    BY <1>1 DEF WpCall, PlainCall, HookCall
  <2>2. calls'[c] = [moved EXCEPT !.number = question.thanks + 1]
    BY <1>4
  <2> HIDE DEF moved
  <2> QED
    BY <2>1, <2>2
<1> QED
  BY <1>2, <1>3, <1>4, <1>5, <1>6

------------------------------------------------------------------------------
(* Types.                                                                  *)

\* What a step leaves alone keeps its type.
LEMMA TypeMoves ==
    ASSUME TypeOK, NEW c \in Slots, Thanking(c), NEW at, Moves(c, at),
           [calls[c] EXCEPT !.at = at] \in Call
    PROVE  calls' \in [Slots -> Call \union {NoCall}]
BY DEF TypeOK, Moves

\* A slot may be emptied.
LEMMA TypeEnds ==
    ASSUME TypeOK, NEW c \in Slots, Ends(c)
    PROVE  calls' \in [Slots -> Call \union {NoCall}]
BY DEF TypeOK, Ends

\* A slot may take a call.
LEMMA TypeStarts ==
    ASSUME TypeOK, NEW c \in Slots, NEW call \in Call, Starts(c, call)
    PROVE  calls' \in [Slots -> Call \union {NoCall}]
BY DEF TypeOK, Starts

\* A call of one kind is at one of the places of that kind.
LEMMA Places ==
    ASSUME TypeOK, NEW c \in Slots, Thanking(c)
    PROVE  /\ calls[c] \in WpCall \union PlainCall \union HookCall
           /\ At(c, "visitor") \/ At(c, "remember") => calls[c] \in WpCall
           /\ At(c, "address") \/ At(c, "key") => calls[c] \in WpCall \union PlainCall
           /\ calls[c] \in WpCall <=> calls[c].kind = "wpThank"
           /\ calls[c] \in HookCall <=> calls[c].kind = "hook"
           /\ calls[c].number \in Numbers
<1>1. calls[c] \in WpCall \union PlainCall \union HookCall
  BY DEF TypeOK, Thanking, ThankKinds, Call, FollowCall, NoCall, WpCall, PlainCall, HookCall
<1> QED
  BY <1>1 DEF At, WpCall, PlainCall, HookCall

\* No address has more thanks than the question.
CountedBound == \A a \in Addresses : counted[a] <= question.thanks
TypeInv == TypeOK /\ CountedBound

\* Every step of a call, of Redis and of the desk keeps the types.
LEMMA TypeStep == TypeInv /\ [Next]_vars => TypeInv'
<1> SUFFICES ASSUME TypeOK, CountedBound, [Next]_vars PROVE TypeInv'
  BY DEF TypeInv
<1> USE FeedbackAssumption
<1>1. ASSUME NEW c \in Slots, NEW v \in Visitors, NEW a \in Addresses, Thank(c, v, a)
      PROVE  TypeInv'
  <2>1. PICK call \in WpCall \union PlainCall : Starts(c, call)
    BY <1>1 DEF Thank, WpCall, PlainCall, Numbers
  <2>2. calls' \in [Slots -> Call \union {NoCall}]
    BY <2>1, TypeStarts DEF Call
  <2> QED
    BY <1>1, <2>2 DEF Thank, TypeOK, TypeInv, CountedBound, redis, history
<1>2. ASSUME NEW c \in Slots, Hook(c) PROVE TypeInv'
  <2>1. PICK call \in HookCall : Starts(c, call)
    BY <1>2 DEF Hook, HookCall, TypeOK
  <2>2. calls' \in [Slots -> Call \union {NoCall}]
    BY <2>1, TypeStarts DEF Call
  <2> QED
    BY <1>2, <2>2 DEF Hook, TypeOK, TypeInv, CountedBound, redis, history
<1>3. ASSUME NEW c \in Slots, AskFollowUp(c) PROVE TypeInv'
  <2>1. calls' \in [Slots -> Call \union {NoCall}]
    BY <1>3, TypeStarts DEF AskFollowUp, Call, FollowCall
  <2> QED
    BY <1>3, <2>1 DEF AskFollowUp, TypeOK, TypeInv, CountedBound, redis, history
<1>4. ASSUME NEW c \in Slots, VisitorCheck(c) PROVE TypeInv'
  <2>1. calls[c] \in WpCall /\ Thanking(c)
    BY <1>4, Places DEF VisitorCheck, At
  <2>2. [calls[c] EXCEPT !.at = "address"] \in Call
    BY <2>1 DEF WpCall, Call
  <2>3. calls' \in [Slots -> Call \union {NoCall}]
    BY <1>4, <2>1, <2>2, TypeMoves, TypeEnds DEF VisitorCheck
  <2> QED
    BY <1>4, <2>3 DEF VisitorCheck, TypeOK, TypeInv, CountedBound, redis, history
<1>5. ASSUME NEW c \in Slots, AddressCheck(c) PROVE TypeInv'
  <2>1. calls[c] \in WpCall \union PlainCall /\ Thanking(c)
    BY <1>5, Places DEF AddressCheck, At
  <2>2. [calls[c] EXCEPT !.at = "key"] \in Call /\ calls[c].from \in Addresses
    BY <2>1 DEF WpCall, PlainCall, Call
  <2>3. calls' \in [Slots -> Call \union {NoCall}]
    BY <1>5, <2>1, <2>2, TypeMoves, TypeEnds DEF AddressCheck
  <2> QED
    BY <1>5, <2>2, <2>3 DEF AddressCheck, TypeOK, TypeInv, CountedBound, redis, history
<1>6. ASSUME NEW c \in Slots, SetKey(c) PROVE TypeInv'
  <2>1. calls[c] \in WpCall \union PlainCall /\ Thanking(c)
    BY <1>6, Places DEF SetKey, At
  <2>2. [calls[c] EXCEPT !.at = "count"] \in Call /\ calls[c].from \in Addresses
    BY <2>1 DEF WpCall, PlainCall, Call
  <2>3. calls' \in [Slots -> Call \union {NoCall}]
    BY <1>6, <2>1, <2>2, TypeMoves DEF SetKey
  <2>4. keys' \in SUBSET Addresses
    BY <1>6, <2>2 DEF SetKey, TypeOK
  <2>5. UNCHANGED <<question, remembered, shown, counted, thanked, wasted, raced, missed, crowded>>
    BY <1>6 DEF SetKey, history
  <2> QED
    BY <2>3, <2>4, <2>5 DEF TypeOK, TypeInv, CountedBound
<1>7. ASSUME NEW c \in Slots, Count(c) PROVE TypeInv'
  <2>1. calls' \in [Slots -> Call \union {NoCall}]
    BY <1>7, CountFacts
  <2>2. question' \in [answered : BOOLEAN, thanks : Numbers, followUps : 0 .. MaxFollowUps]
    BY <1>7, CountFacts DEF TypeOK
  <2>3. /\ counted' \in [Addresses -> Numbers]
        /\ CountedBound'
    <3>1. question'.thanks = question.thanks + 1 /\ question'.thanks \in Numbers
      BY <1>7, CountFacts DEF TypeOK
    <3>2. CASE calls[c].from = Nobody
      BY <1>7, <3>1, <3>2 DEF Count, Counts, TypeOK, Numbers, CountedBound
    <3>3. CASE calls[c].from # Nobody
      <4>1. calls[c].from \in Addresses
        BY <1>7, <3>3, Places DEF Count, At, WpCall, PlainCall, HookCall
      <4>2. counted' = [counted EXCEPT ![calls[c].from] = counted[calls[c].from] + 1]
        BY <1>7, <3>3 DEF Count, Counts
      <4> QED
        BY <3>1, <4>1, <4>2 DEF TypeOK, Numbers, CountedBound
    <3> QED
      BY <3>2, <3>3
  <2>4. thanked' \in SUBSET Visitors
    BY <1>7, Places DEF Count, Counts, At, WpCall, PlainCall, HookCall, TypeOK
  <2> QED
    BY <1>7, <2>1, <2>2, <2>3, <2>4 DEF Count, TypeOK, TypeInv, redis
<1>8. ASSUME NEW c \in Slots, CountFails(c) PROVE TypeInv'
  <2>1. Thanking(c) /\ At(c, "count")
    BY <1>8 DEF CountFails, At
  <2>2. calls' \in [Slots -> Call \union {NoCall}]
    <3>1. CASE calls[c].kind = "hook"
      <4>1. [calls[c] EXCEPT !.at = "push"] \in Call
        BY <2>1, <3>1, Places DEF HookCall, Call
      <4> QED
        BY <1>8, <2>1, <3>1, <4>1, TypeMoves DEF CountFails
    <3>2. CASE calls[c].kind # "hook"
      BY <1>8, <3>2, TypeEnds DEF CountFails
    <3> QED
      BY <3>1, <3>2
  <2>3. wasted' \in SUBSET Addresses
    <3>1. calls[c].kind # "hook" => calls[c].from \in Addresses
      BY <2>1, Places DEF WpCall, PlainCall, HookCall
    <3> QED
      BY <1>8, <3>1 DEF CountFails, TypeOK
  <2> QED
    BY <1>8, <2>2, <2>3 DEF CountFails, TypeOK, TypeInv, CountedBound, redis
<1>9. ASSUME NEW c \in Slots, Remember(c) PROVE TypeInv'
  <2>1. calls[c] \in WpCall /\ Thanking(c)
    BY <1>9, Places DEF Remember, At
  <2>2. [calls[c] EXCEPT !.at = "push"] \in Call /\ calls[c].by \in Visitors
    BY <2>1 DEF WpCall, Call
  <2>3. calls' \in [Slots -> Call \union {NoCall}]
    BY <1>9, <2>1, <2>2, TypeMoves DEF Remember
  <2> QED
    BY <1>9, <2>2, <2>3 DEF Remember, TypeOK, TypeInv, CountedBound, history
<1>10. ASSUME NEW c \in Slots, Push(c) PROVE TypeInv'
  <2>1. calls[c].number \in Numbers
    BY <1>10, Places DEF Push, At
  <2>2. calls' \in [Slots -> Call \union {NoCall}]
    BY <1>10, TypeEnds DEF Push
  <2>3. missed' \in BOOLEAN
    BY <1>10 DEF Push
  <2>4. shown' \in Numbers
    BY <1>10, <2>1 DEF Push
  <2> QED
    BY <1>10, <2>2, <2>3, <2>4 DEF Push, TypeOK, TypeInv, CountedBound, redis
<1>11. ASSUME NEW c \in Slots, FollowUpCheck(c) PROVE TypeInv'
  <2>1. calls' \in [Slots -> Call \union {NoCall}]
    <3>1. CASE Ends(c)
      BY <3>1, TypeEnds
    <3>2. CASE Moves(c, "insert")
      BY <1>11, <3>2 DEF FollowUpCheck, Following, Moves, TypeOK, Call, FollowCall,
                         WpCall, PlainCall, HookCall, NoCall
    <3> QED
      BY <1>11, <3>1, <3>2 DEF FollowUpCheck
  <2>2. crowded' \in BOOLEAN
    BY <1>11 DEF FollowUpCheck, TypeOK
  <2> QED
    BY <1>11, <2>1, <2>2 DEF FollowUpCheck, TypeOK, TypeInv, CountedBound, redis
<1>12. ASSUME NEW c \in Slots, FollowUpInsert(c) PROVE TypeInv'
  <2>1. calls' \in [Slots -> Call \union {NoCall}]
    BY <1>12, TypeEnds DEF FollowUpInsert
  <2>2. question' = [question EXCEPT !.followUps = question.followUps + 1]
    BY <1>12 DEF FollowUpInsert
  <2> QED
    BY <1>12, <2>1, <2>2 DEF FollowUpInsert, TypeOK, TypeInv, CountedBound, redis, history
<1>13. ASSUME NEW c \in Slots, Breaks(c) PROVE TypeInv'
  <2>1. calls' \in [Slots -> Call \union {NoCall}]
    BY <1>13, TypeEnds DEF Breaks
  <2>2. wasted' \in SUBSET Addresses
    <3>1. At(c, "count") /\ calls[c].from # Nobody => calls[c].from \in Addresses
      BY Places DEF At, WpCall, PlainCall, HookCall
    <3> QED
      BY <1>13, <3>1 DEF Breaks, TypeOK
  <2>3. missed' \in BOOLEAN
    BY <1>13 DEF Breaks, TypeOK
  <2> QED
    BY <1>13, <2>1, <2>2, <2>3 DEF Breaks, TypeOK, TypeInv, CountedBound, redis
<1>14. ASSUME NEW a \in Addresses, KeyLost(a) PROVE TypeInv'
  <2>1. /\ counted' \in [Addresses -> Numbers]
        /\ CountedBound'
    BY <1>14 DEF KeyLost, TypeOK, CountedBound, Numbers
  <2> QED
    BY <1>14, <2>1 DEF KeyLost, TypeOK, TypeInv
<1>15. ASSUME NEW v \in Visitors, VisitorLost(v) PROVE TypeInv'
  BY <1>15 DEF VisitorLost, TypeOK, TypeInv, CountedBound, history
<1>16. ASSUME Reopened PROVE TypeInv'
  <2>1. question' = [question EXCEPT !.answered = ~ question.answered]
    BY <1>16 DEF Reopened
  <2> QED
    BY <1>16, <2>1 DEF Reopened, TypeOK, TypeInv, CountedBound, redis, history
<1>17. ASSUME UNCHANGED vars PROVE TypeInv'
  BY <1>17 DEF TypeOK, TypeInv, CountedBound, vars, redis, history
<1> QED
  BY <1>1, <1>2, <1>3, <1>4, <1>5, <1>6, <1>7, <1>8, <1>9, <1>10, <1>11, <1>12, <1>13,
     <1>14, <1>15, <1>16, <1>17 DEF Next, CallStep

\* The tables and Redis start empty.
LEMMA InitTyped == Init => TypeInv
<1> SUFFICES ASSUME Init PROVE TypeInv
  OBVIOUS
<1>1. 0 \in Numbers /\ 0 \in 0 .. MaxFollowUps
  BY FeedbackAssumption DEF Numbers
<1>2. \A a \in Addresses : counted[a] = 0
  BY DEF Init
<1>3. TypeOK
  BY <1>1 DEF Init, TypeOK
<1> QED
  BY <1>2, <1>3 DEF Init, TypeInv, CountedBound

\* The question, the keys, the calls and their history keep their types.
THEOREM FeedbackTyped == Spec => []TypeOK
<1>1. TypeInv => TypeOK
  BY DEF TypeInv
<1> QED
  BY <1>1, InitTyped, TypeStep, PTL DEF Spec

------------------------------------------------------------------------------
(* One thank of an address.                                                *)

InPast(c, a) == (At(c, "key") \/ At(c, "count")) /\ calls[c].from = a

\* What a call of the address finds as long as no other one is with it.
KeyFollows(c, a) ==
    calls[c].from = a =>
        /\ At(c, "key") => a \notin keys /\ counted[a] = 0
        /\ At(c, "count") => a \in keys /\ counted[a] = 0

\* the address a, while it is not raced
AddressFollows(a) ==
    a \notin raced =>
        /\ \A c, d \in Slots : InPast(c, a) /\ InPast(d, a) => c = d
        /\ \A c \in Slots : KeyFollows(c, a)
        /\ counted[a] <= 1
        /\ counted[a] > 0 => a \in keys

\* A key whose thank is neither counted nor lost has a call that counts.
KeyHasSource(a) ==
    a \in keys =>
        counted[a] > 0 \/ a \in wasted \/ \E c \in Slots : At(c, "count") /\ calls[c].from = a

\* Calls that are past the count of a visitor's thank.
VisitorFollows(c) == At(c, "remember") => calls[c].by \in thanked

ThankInv ==
    /\ \A a \in Addresses : AddressFollows(a) /\ KeyHasSource(a)
    /\ \A c \in Slots : VisitorFollows(c)
    /\ remembered \subseteq thanked

\* An address is left alone by a step of a call that is not past its check.
LEMMA AddressKept ==
    ASSUME ThankInv, NEW c \in Slots, Others(c), NEW b \in Addresses,
           ~ InPast(c, b), ~ InPast(c, b)',
           b \in keys' <=> b \in keys, counted'[b] = counted[b],
           b \in wasted => b \in wasted', b \in raced' <=> b \in raced
    PROVE  AddressFollows(b)' /\ KeyHasSource(b)'
<1>1. AddressFollows(b) /\ KeyHasSource(b)
  BY DEF ThankInv
<1>2. \A d \in Slots : /\ InPast(d, b)' => InPast(d, b)
                       /\ KeyFollows(d, b) => KeyFollows(d, b)'
                       /\ At(d, "count") /\ calls[d].from = b
                          => At(d, "count")' /\ calls'[d].from = b
  BY DEF Others, InPast, KeyFollows, At, Thanking
<1> QED
  BY <1>1, <1>2 DEF AddressFollows, KeyHasSource

\* A step of a call that is past the check of no address, before and after it,
\* changes nothing about the addresses.
LEMMA ThankKept ==
    ASSUME ThankInv, NEW c \in Slots, Others(c),
           UNCHANGED <<keys, counted, wasted, raced>>,
           \A a \in Addresses : ~ InPast(c, a) /\ ~ InPast(c, a)',
           thanked \subseteq thanked', remembered' \subseteq thanked', VisitorFollows(c)'
    PROVE  ThankInv'
<1>1. ASSUME NEW a \in Addresses PROVE AddressFollows(a)' /\ KeyHasSource(a)'
  <2>1. AddressFollows(a) /\ KeyHasSource(a)
    BY DEF ThankInv
  <2>2. \A d \in Slots : /\ InPast(d, a)' => InPast(d, a)
                         /\ KeyFollows(d, a) => KeyFollows(d, a)'
                         /\ At(d, "count") /\ calls[d].from = a
                            => At(d, "count")' /\ calls'[d].from = a
    BY DEF Others, InPast, KeyFollows, At, Thanking
  <2> QED
    BY <2>1, <2>2 DEF AddressFollows, KeyHasSource
<1>2. ASSUME NEW d \in Slots PROVE VisitorFollows(d)'
  BY DEF ThankInv, VisitorFollows, Others, At, Thanking
<1> QED
  BY <1>1, <1>2 DEF ThankInv

\* Every step keeps what is known of addresses and visitors.
LEMMA ThankStep == TypeInv /\ ThankInv /\ [Next]_vars => ThankInv'
<1> SUFFICES ASSUME TypeOK, TypeInv, ThankInv, [Next]_vars PROVE ThankInv'
  BY DEF TypeInv
<1>0. Nobody \notin Visitors \union Addresses
  BY FeedbackAssumption DEF Nobody
<1>1. ASSUME NEW c \in Slots, NEW v \in Visitors, NEW a \in Addresses, Thank(c, v, a)
      PROVE  ThankInv'
  <2>1. PICK call : Starts(c, call) /\ call.at \in {"visitor", "address"}
    BY <1>1 DEF Thank
  <2>2. calls[c] = NoCall /\ calls'[c] = call /\ Others(c)
    BY <2>1, StartFacts
  <2>3. UNCHANGED <<keys, remembered, counted, thanked, wasted, raced>>
    BY <1>1 DEF Thank, redis, history
  <2>4. /\ \A b \in Addresses : ~ InPast(c, b) /\ ~ InPast(c, b)'
        /\ VisitorFollows(c)'
    BY <2>1, <2>2 DEF InPast, VisitorFollows, At, Thanking, ThankKinds, NoCall
  <2> QED
    BY <2>2, <2>3, <2>4, ThankKept DEF ThankInv
<1>2. ASSUME NEW c \in Slots, Hook(c) PROVE ThankInv'
  <2>1. PICK call : Starts(c, call) /\ call.at = "count" /\ call.from = Nobody
    BY <1>2 DEF Hook
  <2>2. calls[c] = NoCall /\ calls'[c] = call /\ Others(c)
    BY <2>1, StartFacts
  <2>3. UNCHANGED <<keys, remembered, counted, thanked, wasted, raced>>
    BY <1>2 DEF Hook, redis, history
  <2>4. /\ \A b \in Addresses : ~ InPast(c, b) /\ ~ InPast(c, b)'
        /\ VisitorFollows(c)'
    BY <1>0, <2>1, <2>2 DEF InPast, VisitorFollows, At, Thanking, ThankKinds, NoCall
  <2> QED
    BY <2>2, <2>3, <2>4, ThankKept DEF ThankInv
<1>3. ASSUME NEW c \in Slots, AskFollowUp(c) \/ FollowUpCheck(c) \/ FollowUpInsert(c)
      PROVE  ThankInv'
  <2>1. Others(c) /\ ~ Thanking(c) /\ ~ Thanking(c)'
    <3>1. CASE AskFollowUp(c)
      BY <3>1, StartFacts DEF AskFollowUp, Thanking, ThankKinds, NoCall
    <3>2. CASE FollowUpCheck(c)
      <4>1. calls[c] \in FollowCall
        BY <3>2 DEF FollowUpCheck, Following, TypeOK, Call, WpCall, PlainCall, HookCall, NoCall
      <4>2. CASE Ends(c)
        BY <4>1, <4>2, EndFacts DEF Thanking, ThankKinds, NoCall, FollowCall
      <4>3. CASE Moves(c, "insert")
        BY <4>1, <4>3 DEF Moves, Others, Thanking, ThankKinds, FollowCall, TypeOK
      <4> QED
        BY <3>2, <4>2, <4>3 DEF FollowUpCheck
    <3>3. CASE FollowUpInsert(c)
      BY <3>3, EndFacts DEF FollowUpInsert, Following, Thanking, ThankKinds, NoCall
    <3> QED
      BY <1>3, <3>1, <3>2, <3>3
  <2>2. UNCHANGED <<keys, remembered, counted, thanked, wasted, raced>>
    BY <1>3 DEF AskFollowUp, FollowUpCheck, FollowUpInsert, redis, history
  <2>3. /\ \A b \in Addresses : ~ InPast(c, b) /\ ~ InPast(c, b)'
        /\ VisitorFollows(c)'
    BY <2>1 DEF InPast, VisitorFollows, At
  <2> QED
    BY <2>1, <2>2, <2>3, ThankKept DEF ThankInv
<1>4. ASSUME NEW c \in Slots, VisitorCheck(c) PROVE ThankInv'
  <2>1. Others(c) /\ (Moves(c, "address") \/ Ends(c)) /\ Thanking(c) /\ At(c, "visitor")
    BY <1>4, EndFacts, MoveFacts DEF VisitorCheck, At
  <2>2. calls'[c] = NoCall \/ calls'[c].at = "address"
    BY <2>1, EndFacts, MoveFacts
  <2>3. UNCHANGED <<keys, remembered, counted, thanked, wasted, raced>>
    BY <1>4 DEF VisitorCheck, redis, history
  <2>4. /\ \A b \in Addresses : ~ InPast(c, b) /\ ~ InPast(c, b)'
        /\ VisitorFollows(c)'
    BY <2>1, <2>2 DEF InPast, VisitorFollows, At, Thanking, ThankKinds, NoCall
  <2> QED
    BY <2>1, <2>3, <2>4, ThankKept DEF ThankInv
<1>5. ASSUME NEW c \in Slots, Remember(c) \/ Push(c) PROVE ThankInv'
  <2>1. Others(c) /\ (Moves(c, "push") \/ Ends(c)) /\ Thanking(c)
        /\ (At(c, "remember") \/ At(c, "push"))
    BY <1>5, EndFacts, MoveFacts DEF Remember, Push, At
  <2>2. calls'[c] = NoCall \/ calls'[c].at = "push"
    BY <2>1, EndFacts, MoveFacts
  <2>3. UNCHANGED <<keys, counted, thanked, wasted, raced>>
    BY <1>5 DEF Remember, Push, redis, history
  <2>4. /\ \A b \in Addresses : ~ InPast(c, b) /\ ~ InPast(c, b)'
        /\ VisitorFollows(c)'
    BY <2>1, <2>2 DEF InPast, VisitorFollows, At, Thanking, ThankKinds, NoCall
  <2>5. remembered' \subseteq thanked
    BY <1>5 DEF Remember, Push, redis, ThankInv, VisitorFollows
  <2> QED
    BY <2>1, <2>3, <2>4, <2>5, ThankKept
<1>6. ASSUME NEW c \in Slots, AddressCheck(c) PROVE ThankInv'
  <2>1. At(c, "address") /\ Thanking(c) /\ calls[c].from \in Addresses
    BY <1>6, Places DEF AddressCheck, At, WpCall, PlainCall
  <2>2. UNCHANGED <<keys, remembered, counted, thanked, wasted>>
    BY <1>6 DEF AddressCheck, redis
  <2>3. CASE calls[c].from \in keys
    <3>1. calls'[c] = NoCall /\ Others(c) /\ UNCHANGED raced
      BY <1>6, <2>3, EndFacts DEF AddressCheck
    <3>2. /\ \A b \in Addresses : ~ InPast(c, b) /\ ~ InPast(c, b)'
          /\ VisitorFollows(c)'
      BY <2>1, <3>1 DEF InPast, VisitorFollows, At, Thanking, ThankKinds, NoCall
    <3> QED
      BY <2>2, <3>1, <3>2, ThankKept DEF ThankInv
  <2>4. CASE calls[c].from \notin keys
    <3>1. /\ Others(c)
          /\ calls'[c].kind = calls[c].kind
          /\ calls'[c].from = calls[c].from
          /\ calls'[c].at = "key"
      BY <1>6, <2>1, <2>4, MoveFacts DEF AddressCheck
    <3>2. raced' = IF \E d \in Slots : InPast(d, calls[c].from)
                   THEN raced \union {calls[c].from} ELSE raced
      BY <1>6, <2>4 DEF AddressCheck, Past, InPast
    <3>3. ASSUME NEW a \in Addresses PROVE AddressFollows(a)' /\ KeyHasSource(a)'
      <4>1. AddressFollows(a) /\ KeyHasSource(a)
        BY DEF ThankInv
      <4>2. KeyHasSource(a)'
        BY <2>1, <2>2, <3>1, <4>1 DEF KeyHasSource, At, Thanking, Others
      <4>3. CASE a = calls[c].from /\ a \notin raced'
        <5>1. \A d \in Slots : ~ InPast(d, a)
          BY <2>1, <3>2, <4>3
        <5>2. counted[a] = 0 /\ a \notin keys
          BY <2>1, <2>4, <3>2, <4>1, <4>3 DEF AddressFollows, TypeOK, Numbers
        <5>3. \A d \in Slots : d # c => ~ InPast(d, a)'
          BY <3>1, <5>1 DEF InPast, At, Thanking, Others
        <5> QED
          BY <2>2, <3>1, <4>2, <5>2, <5>3 DEF AddressFollows, KeyFollows, InPast, At
      <4>4. CASE a # calls[c].from
        <5>1. ~ InPast(c, a) /\ ~ InPast(c, a)'
          BY <3>1, <4>4 DEF InPast
        <5>2. \A d \in Slots : /\ InPast(d, a)' => InPast(d, a)
                               /\ KeyFollows(d, a) => KeyFollows(d, a)'
          BY <2>2, <3>1, <4>4, <5>1 DEF Others, InPast, KeyFollows, At, Thanking
        <5> QED
          BY <2>2, <3>2, <4>1, <4>2, <4>4, <5>2 DEF AddressFollows
      <4> QED
        BY <4>2, <4>3, <4>4 DEF AddressFollows
    <3>4. ASSUME NEW d \in Slots PROVE VisitorFollows(d)'
      BY <2>2, <3>1 DEF ThankInv, VisitorFollows, Others, At, Thanking
    <3> QED
      BY <2>2, <3>3, <3>4 DEF ThankInv
  <2> QED
    BY <2>3, <2>4
<1>7. ASSUME NEW c \in Slots, SetKey(c) PROVE ThankInv'
  <2>1. At(c, "key") /\ Thanking(c) /\ calls[c].from \in Addresses
    BY <1>7, Places DEF SetKey, At, WpCall, PlainCall
  <2>2. /\ UNCHANGED <<remembered, counted, thanked, wasted, raced>>
        /\ keys' = keys \union {calls[c].from}
    BY <1>7 DEF SetKey, history
  <2>3. /\ Others(c)
        /\ calls'[c].kind = calls[c].kind
        /\ calls'[c].from = calls[c].from
        /\ calls'[c].at = "count"
    BY <1>7, <2>1, MoveFacts DEF SetKey
  <2>4. ASSUME NEW a \in Addresses PROVE AddressFollows(a)' /\ KeyHasSource(a)'
    <3>1. CASE a # calls[c].from
      BY <2>2, <2>3, <3>1, AddressKept DEF InPast
    <3>2. CASE a = calls[c].from
      <4>1. AddressFollows(a) /\ InPast(c, a) /\ At(c, "count")'
        BY <2>1, <2>3, <3>2 DEF ThankInv, InPast, At, Thanking
      <4>2. KeyHasSource(a)'
        BY <2>3, <3>2, <4>1 DEF KeyHasSource
      <4>3. ASSUME a \notin raced
            PROVE  /\ \A d \in Slots : d # c => ~ InPast(d, a) /\ ~ InPast(d, a)'
                   /\ counted[a] = 0
        BY <2>1, <2>3, <3>2, <4>1, <4>3 DEF AddressFollows, KeyFollows, Others, InPast, At, Thanking
      <4> QED
        BY <2>2, <2>3, <3>2, <4>2, <4>3 DEF AddressFollows, KeyFollows, InPast, At
    <3> QED
      BY <3>1, <3>2
  <2>5. ASSUME NEW d \in Slots PROVE VisitorFollows(d)'
    BY <2>2, <2>3 DEF ThankInv, VisitorFollows, Others, At, Thanking
  <2> QED
    BY <2>2, <2>4, <2>5 DEF ThankInv
<1>8. ASSUME NEW c \in Slots, Count(c) PROVE ThankInv'
  <2>1. At(c, "count") /\ Thanking(c)
    BY <1>8 DEF Count, At
  <2>2. UNCHANGED <<keys, remembered, wasted, raced>>
    BY <1>8 DEF Count, redis
  <2>3. /\ Others(c)
        /\ calls'[c].kind = calls[c].kind
        /\ calls'[c].by = calls[c].by
        /\ calls'[c].at = "push" \/ (calls'[c].at = "remember" /\ calls[c].kind = "wpThank")
    BY <1>8, CountFacts DEF Afterwards
  <2>4. /\ thanked \subseteq thanked'
        /\ calls[c].kind = "wpThank" => calls[c].by \in thanked'
    BY <1>0, <1>8, <2>1, Places DEF Count, Counts, WpCall
  <2>5. ASSUME NEW a \in Addresses PROVE AddressFollows(a)' /\ KeyHasSource(a)'
    <3>1. ~ InPast(c, a)'
      BY <2>3 DEF InPast, At
    <3>2. CASE a # calls[c].from
      <4>1. counted'[a] = counted[a]
        BY <1>8, <3>2 DEF Count, Counts, TypeOK
      <4> QED
        BY <2>2, <2>3, <3>1, <3>2, <4>1, AddressKept DEF InPast
    <3>3. CASE a = calls[c].from
      <4>1. counted'[a] = counted[a] + 1 /\ counted[a] \in Nat
        BY <1>0, <1>8, <3>3 DEF Count, Counts, TypeOK, Numbers
      <4>2. AddressFollows(a) /\ InPast(c, a)
        BY <2>1, <3>3 DEF ThankInv, InPast, At
      <4>3. ASSUME a \notin raced
            PROVE  /\ \A d \in Slots : ~ InPast(d, a)'
                   /\ counted[a] = 0 /\ a \in keys
        BY <2>1, <2>3, <3>1, <3>3, <4>2, <4>3 DEF AddressFollows, KeyFollows, Others, InPast, At, Thanking
      <4> QED
        BY <2>2, <4>1, <4>3 DEF AddressFollows, KeyFollows, KeyHasSource, InPast, At
    <3> QED
      BY <3>2, <3>3
  <2>6. ASSUME NEW d \in Slots PROVE VisitorFollows(d)'
    BY <2>3, <2>4 DEF ThankInv, VisitorFollows, Others, At, Thanking
  <2> QED
    BY <2>2, <2>4, <2>5, <2>6 DEF ThankInv
<1>9. ASSUME NEW c \in Slots, CountFails(c) \/ Breaks(c) PROVE ThankInv'
  <2>1. UNCHANGED <<keys, remembered, counted, thanked, raced>>
    BY <1>9 DEF CountFails, Breaks, redis
  <2>2. CASE CountFails(c) /\ calls[c].kind = "hook"
    <3>1. /\ Others(c) /\ UNCHANGED wasted
          /\ calls'[c].from = calls[c].from /\ calls'[c].at = "push"
      BY <2>2, MoveFacts DEF CountFails, At
    <3>2. calls[c].from = Nobody
      BY <2>2, Places DEF CountFails, At, HookCall
    <3>3. /\ \A b \in Addresses : ~ InPast(c, b) /\ ~ InPast(c, b)'
          /\ VisitorFollows(c)'
      BY <1>0, <3>1, <3>2 DEF InPast, VisitorFollows, At
    <3> QED
      BY <2>1, <3>1, <3>3, ThankKept DEF ThankInv
  <2>3. CASE Breaks(c) \/ (CountFails(c) /\ calls[c].kind # "hook")
    <3>1. calls'[c] = NoCall /\ Others(c)
      BY <2>3, EndFacts DEF CountFails, Breaks
    <3>2. /\ wasted \subseteq wasted'
          /\ At(c, "count") /\ calls[c].from # Nobody => calls[c].from \in wasted'
      BY <2>3 DEF CountFails, Breaks
    <3>3. ~ Thanking(c)'
      BY <3>1 DEF Thanking, ThankKinds, NoCall
    <3>4. ASSUME NEW a \in Addresses PROVE AddressFollows(a)' /\ KeyHasSource(a)'
      <4>1. AddressFollows(a) /\ KeyHasSource(a)
        BY DEF ThankInv
      <4>2. \A d \in Slots : d # c =>
                /\ InPast(d, a)' <=> InPast(d, a)
                /\ KeyFollows(d, a) => KeyFollows(d, a)'
                /\ At(d, "count") => At(d, "count")' /\ calls'[d].from = calls[d].from
        BY <2>1, <3>1 DEF Others, InPast, KeyFollows, At, Thanking
      <4>3. ~ InPast(c, a)' /\ KeyFollows(c, a)'
        BY <3>3 DEF InPast, KeyFollows, At
      <4>4. AddressFollows(a)'
        BY <2>1, <4>1, <4>2, <4>3 DEF AddressFollows
      <4>5. KeyHasSource(a)'
        BY <1>0, <2>1, <3>2, <4>1, <4>2 DEF KeyHasSource
      <4> QED
        BY <4>4, <4>5
    <3>5. ASSUME NEW d \in Slots PROVE VisitorFollows(d)'
      BY <2>1, <3>1, <3>3 DEF ThankInv, VisitorFollows, Others, At, Thanking
    <3> QED
      BY <2>1, <3>4, <3>5 DEF ThankInv
  <2> QED
    BY <1>9, <2>2, <2>3
<1>10. ASSUME NEW b \in Addresses, KeyLost(b) PROVE ThankInv'
  <2>1. UNCHANGED <<remembered, calls, thanked>>
    BY <1>10 DEF KeyLost
  <2>2. ASSUME NEW a \in Addresses PROVE AddressFollows(a)' /\ KeyHasSource(a)'
    <3>1. AddressFollows(a) /\ KeyHasSource(a)
      BY DEF ThankInv
    <3>2. \A d \in Slots : InPast(d, a)' <=> InPast(d, a)
      BY <2>1 DEF InPast, At, Thanking
    <3>3. CASE a = b
      <4>1. a \notin keys' /\ counted'[a] = 0
        BY <1>10, <3>3 DEF KeyLost, TypeOK
      <4>2. a \notin raced' => \A d \in Slots : ~ InPast(d, a)'
        BY <1>10, <3>2, <3>3 DEF KeyLost, Past, InPast
      <4> QED
        BY <4>1, <4>2 DEF AddressFollows, KeyHasSource, KeyFollows, InPast
    <3>4. CASE a # b
      <4>1. /\ a \in keys' <=> a \in keys
            /\ counted'[a] = counted[a]
            /\ a \in wasted' <=> a \in wasted
            /\ a \in raced' <=> a \in raced
        BY <1>10, <3>4 DEF KeyLost, TypeOK
      <4> QED
        BY <2>1, <3>1, <3>2, <4>1 DEF AddressFollows, KeyHasSource, KeyFollows, At, Thanking
    <3> QED
      BY <3>3, <3>4
  <2>3. ASSUME NEW d \in Slots PROVE VisitorFollows(d)'
    BY <2>1 DEF ThankInv, VisitorFollows, At, Thanking
  <2> QED
    BY <2>1, <2>2, <2>3 DEF ThankInv
<1>11. ASSUME UNCHANGED <<keys, calls, counted, thanked, wasted, raced>>, remembered' \subseteq remembered
       PROVE  ThankInv'
  BY <1>11 DEF ThankInv, AddressFollows, KeyHasSource, KeyFollows, VisitorFollows, InPast, At, Thanking
<1>12. (\E v \in Visitors : VisitorLost(v)) \/ Reopened \/ UNCHANGED vars => ThankInv'
  BY <1>11 DEF VisitorLost, Reopened, vars, redis, history
<1> QED
  BY <1>1, <1>2, <1>3, <1>4, <1>5, <1>6, <1>7, <1>8, <1>9, <1>10, <1>12 DEF Next, CallStep

\* One thank of an address is counted while its key lives, unless two of its
\* calls were past the check of incrementThankCount at once.
THEOREM ThanksCountOnce == Spec => []OneThankPerAddress
<1>1. Init => TypeInv /\ ThankInv
  BY InitTyped DEF Init, ThankInv, AddressFollows, KeyHasSource, KeyFollows, VisitorFollows,
                   InPast, At, Thanking, ThankKinds, NoCall
<1>2. ThankInv => OneThankPerAddress
  BY DEF ThankInv, AddressFollows, OneThankPerAddress
<1> QED
  BY <1>1, <1>2, TypeStep, ThankStep, PTL DEF Spec

\* Who is told that he has thanked was counted, is being counted, or shares
\* his address with a thank whose UPDATE failed.
THEOREM KeysAreHonest == Spec => []KeyMeansThank
<1>1. Init => TypeInv /\ ThankInv
  BY InitTyped DEF Init, ThankInv, AddressFollows, KeyHasSource, KeyFollows, VisitorFollows,
                   InPast, At, Thanking, ThankKinds, NoCall
<1>2. TypeInv /\ ThankInv => KeyMeansThank
  BY DEF TypeInv, TypeOK, ThankInv, KeyHasSource, KeyMeansThank, Past
<1> QED
  BY <1>1, <1>2, TypeStep, ThankStep, PTL DEF Spec

------------------------------------------------------------------------------
(* One follow-up.                                                          *)

FollowInv ==
    ~ crowded =>
        /\ question.followUps <= 1
        /\ \A c, d \in Slots : Following(c, "insert") /\ Following(d, "insert") => c = d
        /\ \A c \in Slots : Following(c, "insert") => question.followUps = 0

\* A step that lets no call reach the INSERT and stores no follow-up.
LEMMA FollowKept ==
    ASSUME FollowInv, question'.followUps = question.followUps, UNCHANGED crowded,
           \A d \in Slots : Following(d, "insert")' => Following(d, "insert")
    PROVE  FollowInv'
BY DEF FollowInv

\* A call that starts elsewhere, moves on with its thanks or ends is not at
\* the INSERT of a follow-up.
LEMMA QuietCall ==
    ASSUME TypeOK, NEW c \in Slots,
           \/ \E call : Starts(c, call) /\ ~ (call.kind = "followUp" /\ call.at = "insert")
           \/ \E at : Moves(c, at) /\ Thanking(c)
           \/ Ends(c)
    PROVE  Others(c) /\ ~ Following(c, "insert")'
<1>1. CASE \E call : Starts(c, call) /\ ~ (call.kind = "followUp" /\ call.at = "insert")
  BY <1>1, StartFacts DEF Following
<1>2. CASE \E at : Moves(c, at) /\ Thanking(c)
  BY <1>2, MoveFacts DEF Following, Thanking, ThankKinds
<1>3. CASE Ends(c)
  BY <1>3, EndFacts DEF Following, NoCall
<1> QED
  BY <1>1, <1>2, <1>3

\* Every step keeps the limit.
LEMMA FollowStep == TypeInv /\ FollowInv /\ [Next]_vars => FollowInv'
<1> SUFFICES ASSUME TypeOK, FollowInv, [Next]_vars PROVE FollowInv'
  BY DEF TypeInv
<1>1. ASSUME NEW c \in Slots, FollowUpCheck(c) PROVE FollowInv'
  <2>1. UNCHANGED question
    BY <1>1 DEF FollowUpCheck
  <2>2. CASE MayFollowUp
    <3>1. Others(c) /\ crowded' = (crowded \/ \E d \in Slots : Following(d, "insert"))
      BY <1>1, <2>2 DEF FollowUpCheck, Moves, Others, TypeOK
    <3>2. question.followUps = 0
      BY <2>2 DEF MayFollowUp, TypeOK
    <3>3. ~ crowded' => ~ crowded /\ \A d \in Slots : d # c => ~ Following(d, "insert")'
      BY <3>1 DEF Others, Following
    <3> QED
      BY <2>1, <3>2, <3>3 DEF FollowInv
  <2>3. CASE ~ MayFollowUp
    <3>1. calls'[c] = NoCall /\ Others(c) /\ UNCHANGED crowded
      BY <1>1, <2>3, EndFacts DEF FollowUpCheck
    <3> QED
      BY <2>1, <3>1, FollowKept DEF Others, Following, NoCall
  <2> QED
    BY <2>2, <2>3
<1>2. ASSUME NEW c \in Slots, FollowUpInsert(c) PROVE FollowInv'
  <2>1. /\ Following(c, "insert") /\ UNCHANGED crowded
        /\ question'.followUps = question.followUps + 1
    BY <1>2 DEF FollowUpInsert, history, TypeOK
  <2>2. calls'[c] = NoCall /\ Others(c)
    BY <1>2, EndFacts DEF FollowUpInsert
  <2>3. ~ crowded => question.followUps = 0 /\ \A d \in Slots : ~ Following(d, "insert")'
    BY <2>1, <2>2 DEF FollowInv, Others, Following, NoCall
  <2> QED
    BY <2>1, <2>3 DEF FollowInv
<1>3. ASSUME NEW c \in Slots, UNCHANGED crowded, question'.followUps = question.followUps,
             \/ \E call : Starts(c, call) /\ ~ (call.kind = "followUp" /\ call.at = "insert")
             \/ \E at : Moves(c, at) /\ Thanking(c)
             \/ Ends(c)
      PROVE  FollowInv'
  <2>1. Others(c) /\ ~ Following(c, "insert")'
    BY <1>3, QuietCall
  <2> QED
    BY <1>3, <2>1, FollowKept DEF Others, Following
<1>4. ASSUME NEW c \in Slots, NEW v \in Visitors, NEW a \in Addresses, Thank(c, v, a)
      PROVE  FollowInv'
  BY <1>3, <1>4 DEF Thank, history
<1>5. ASSUME NEW c \in Slots, Hook(c) \/ AskFollowUp(c) PROVE FollowInv'
  BY <1>3, <1>5 DEF Hook, AskFollowUp, history
<1>6. ASSUME NEW c \in Slots,
             VisitorCheck(c) \/ AddressCheck(c) \/ SetKey(c) \/ CountFails(c) \/ Remember(c)
                 \/ Push(c) \/ Breaks(c)
      PROVE  FollowInv'
  <2>1. UNCHANGED <<question, crowded>>
    BY <1>6 DEF VisitorCheck, AddressCheck, SetKey, CountFails, Remember, Push, Breaks, history
  <2>2. (\E at : Moves(c, at) /\ Thanking(c)) \/ Ends(c)
    BY <1>6 DEF VisitorCheck, AddressCheck, SetKey, CountFails, Remember, Push, Breaks, At
  <2> QED
    BY <1>3, <2>1, <2>2
<1>7. ASSUME NEW c \in Slots, Count(c) PROVE FollowInv'
  <2>1. question'.followUps = question.followUps /\ UNCHANGED crowded
    BY <1>7, CountFacts DEF Count, TypeOK
  <2>2. Others(c) /\ ~ Following(c, "insert")'
    BY <1>7, CountFacts DEF Count, At, Thanking, ThankKinds, Following
  <2> QED
    BY <2>1, <2>2, FollowKept DEF Others, Following
<1>8. ASSUME UNCHANGED <<calls, crowded>>, question'.followUps = question.followUps
      PROVE  FollowInv'
  BY <1>8, FollowKept DEF Following
<1>9. ASSUME NEW a \in Addresses, KeyLost(a) PROVE FollowInv'
  BY <1>8, <1>9 DEF KeyLost
<1>10. ASSUME Reopened PROVE FollowInv'
  <2>1. question' = [question EXCEPT !.answered = ~ question.answered]
    BY <1>10 DEF Reopened
  <2> QED
    BY <1>8, <1>10, <2>1 DEF Reopened, history, TypeOK
<1>11. (\E v \in Visitors : VisitorLost(v)) \/ UNCHANGED vars => FollowInv'
  BY <1>8 DEF VisitorLost, vars, history
<1> QED
  BY <1>1, <1>2, <1>4, <1>5, <1>6, <1>7, <1>9, <1>10, <1>11 DEF Next, CallStep

\* A question has one follow-up, unless two calls were past the check of
\* submitFollowUp at once.
THEOREM FollowUpsAreLimited == Spec => []OneFollowUp
<1>1. Init => TypeInv /\ FollowInv
  BY InitTyped DEF Init, FollowInv, Following, NoCall
<1>2. TypeInv /\ FollowInv => OneFollowUp
  BY DEF TypeInv, TypeOK, FollowInv, OneFollowUp
<1> QED
  BY <1>1, <1>2, TypeStep, FollowStep, PTL DEF Spec

\* Where OneFollowUp gives way the excess is still bounded: there are never
\* more follow-ups than calls that can be under way at once, for nobody passes
\* the check of submitFollowUp after the first one is stored.
FollowUpsWithinCalls == question.followUps <= Cardinality(Slots)

\* the calls that may still store a follow-up
Pending == {c \in Slots : Following(c, "insert")}

PendingInv == question.followUps + Cardinality(Pending) <= Cardinality(Slots)

\* The calls that may still store one can be counted.
LEMMA PendingFinite ==
    ASSUME IsFiniteSet(Slots), NEW S \in SUBSET Slots
    PROVE  /\ IsFiniteSet(S) /\ Cardinality(S) \in Nat /\ Cardinality(Slots) \in Nat
           /\ Cardinality(S) <= Cardinality(Slots)
BY FS_Subset, FS_CardinalityType

\* A step that lets no call reach the INSERT and stores no follow-up keeps the
\* sum, or lowers it.
LEMMA PendingKept ==
    ASSUME IsFiniteSet(Slots), TypeOK, PendingInv,
           question'.followUps = question.followUps, Pending' \subseteq Pending
    PROVE  PendingInv'
<1>1. Pending \in SUBSET Slots /\ Pending' \in SUBSET Slots
  BY DEF Pending
<1>2. /\ Cardinality(Pending) \in Nat /\ Cardinality(Pending') \in Nat
      /\ Cardinality(Pending') <= Cardinality(Pending) /\ Cardinality(Slots) \in Nat
  BY <1>1, PendingFinite, FS_Subset
<1>3. question.followUps \in Nat
  BY FeedbackAssumption DEF TypeOK
<1>4. QED
  BY <1>2, <1>3 DEF PendingInv

\* Every step keeps the sum.
LEMMA PendingStep ==
    ASSUME IsFiniteSet(Slots), TypeOK, PendingInv, [Next]_vars
    PROVE  PendingInv'
<1>0. question.followUps \in Nat
  BY FeedbackAssumption DEF TypeOK
<1>1. ASSUME NEW c \in Slots, FollowUpCheck(c) PROVE PendingInv'
  <2>1. UNCHANGED question
    BY <1>1 DEF FollowUpCheck
  <2>2. CASE MayFollowUp
    <3>1. question'.followUps = 0
      BY <2>1, <2>2, <1>0 DEF MayFollowUp
    <3>2. Pending' \in SUBSET Slots
      BY DEF Pending
    <3>3. /\ Cardinality(Pending') \in Nat /\ Cardinality(Slots) \in Nat
          /\ Cardinality(Pending') <= Cardinality(Slots)
      BY <3>2, PendingFinite
    <3>4. QED
      BY <3>1, <3>3 DEF PendingInv
  <2>3. CASE ~ MayFollowUp
    <3>1. calls'[c] = NoCall /\ Others(c)
      BY <1>1, <2>3, EndFacts DEF FollowUpCheck
    <3>2. Pending' \subseteq Pending
      BY <3>1 DEF Others, Pending, Following, NoCall
    <3>3. QED
      BY <2>1, <3>2, PendingKept
  <2>4. QED
    BY <2>2, <2>3
<1>2. ASSUME NEW c \in Slots, FollowUpInsert(c) PROVE PendingInv'
  <2>1. c \in Pending /\ question'.followUps = question.followUps + 1
    BY <1>2 DEF FollowUpInsert, Pending, TypeOK
  <2>2. calls'[c] = NoCall /\ Others(c)
    BY <1>2, EndFacts DEF FollowUpInsert
  <2>3. Pending' = Pending \ {c}
    BY <2>2 DEF Others, Pending, Following, NoCall
  <2>4. IsFiniteSet(Pending) /\ Cardinality(Pending) \in Nat /\ Cardinality(Slots) \in Nat
    BY PendingFinite DEF Pending
  <2>5. Cardinality(Pending') = Cardinality(Pending) - 1
    BY <2>1, <2>3, <2>4, FS_RemoveElement
  <2>6. QED
    BY <1>0, <2>1, <2>4, <2>5 DEF PendingInv
<1>3. ASSUME NEW c \in Slots, question'.followUps = question.followUps,
             \/ \E call : Starts(c, call) /\ ~ (call.kind = "followUp" /\ call.at = "insert")
             \/ \E at : Moves(c, at) /\ Thanking(c)
             \/ Ends(c)
      PROVE  PendingInv'
  <2>1. Others(c) /\ ~ Following(c, "insert")'
    BY <1>3, QuietCall
  <2>2. QED
    BY <1>3, <2>1, PendingKept DEF Others, Pending, Following
<1>4. ASSUME NEW c \in Slots, NEW v \in Visitors, NEW a \in Addresses, Thank(c, v, a)
      PROVE  PendingInv'
  BY <1>3, <1>4 DEF Thank
<1>5. ASSUME NEW c \in Slots, Hook(c) \/ AskFollowUp(c) PROVE PendingInv'
  BY <1>3, <1>5 DEF Hook, AskFollowUp
<1>6. ASSUME NEW c \in Slots,
             VisitorCheck(c) \/ AddressCheck(c) \/ SetKey(c) \/ CountFails(c) \/ Remember(c)
                 \/ Push(c) \/ Breaks(c)
      PROVE  PendingInv'
  <2>1. UNCHANGED question
    BY <1>6 DEF VisitorCheck, AddressCheck, SetKey, CountFails, Remember, Push, Breaks
  <2>2. (\E at : Moves(c, at) /\ Thanking(c)) \/ Ends(c)
    BY <1>6 DEF VisitorCheck, AddressCheck, SetKey, CountFails, Remember, Push, Breaks, At
  <2>3. QED
    BY <1>3, <2>1, <2>2
<1>7. ASSUME NEW c \in Slots, Count(c) PROVE PendingInv'
  <2>1. question'.followUps = question.followUps
    BY <1>7, CountFacts DEF TypeOK
  <2>2. Others(c) /\ ~ Following(c, "insert")'
    BY <1>7, CountFacts DEF Count, At, Thanking, ThankKinds, Following
  <2>3. QED
    BY <2>1, <2>2, PendingKept DEF Others, Pending, Following
<1>8. ASSUME UNCHANGED calls, question'.followUps = question.followUps
      PROVE  PendingInv'
  BY <1>8, PendingKept DEF Pending, Following
<1>9. ASSUME NEW a \in Addresses, KeyLost(a) PROVE PendingInv'
  BY <1>8, <1>9 DEF KeyLost
<1>10. ASSUME Reopened PROVE PendingInv'
  <2>1. question' = [question EXCEPT !.answered = ~ question.answered]
    BY <1>10 DEF Reopened
  <2>2. QED
    BY <1>8, <1>10, <2>1 DEF Reopened, TypeOK
<1>11. (\E v \in Visitors : VisitorLost(v)) \/ UNCHANGED vars => PendingInv'
  BY <1>8 DEF VisitorLost, vars
<1> QED
  BY <1>1, <1>2, <1>4, <1>5, <1>6, <1>7, <1>9, <1>10, <1>11 DEF Next, CallStep

\* For any number of readers who ask again at once, the answer gets no more
\* follow-ups than there are calls at once (checkFollowUpAllowed).
THEOREM FollowUpsAreBounded ==
    ASSUME IsFiniteSet(Slots) PROVE Spec => []FollowUpsWithinCalls
<1>1. Init => PendingInv
  <2> SUFFICES ASSUME Init PROVE PendingInv
    OBVIOUS
  <2>1. Pending \in SUBSET Slots /\ question.followUps = 0
    BY DEF Init, Pending
  <2>2. QED
    BY <2>1, PendingFinite DEF PendingInv
<1>2. TypeInv /\ PendingInv /\ [Next]_vars => PendingInv'
  BY PendingStep DEF TypeInv
<1>3. TypeInv /\ PendingInv => FollowUpsWithinCalls
  <2> SUFFICES ASSUME TypeOK, PendingInv PROVE FollowUpsWithinCalls
    BY DEF TypeInv
  <2>1. Cardinality(Pending) \in Nat /\ Cardinality(Slots) \in Nat
    BY PendingFinite DEF Pending
  <2>2. question.followUps \in Nat
    BY FeedbackAssumption DEF TypeOK
  <2>3. QED
    BY <2>1, <2>2 DEF PendingInv, FollowUpsWithinCalls
<1> QED
  BY <1>1, <1>2, <1>3, InitTyped, TypeStep, PTL DEF Spec

------------------------------------------------------------------------------
(* The number on the post.                                                 *)

HasNumber(c) == At(c, "remember") \/ At(c, "push")

ShownInv ==
    /\ \A c \in Slots : Thanking(c) => calls[c].number <= question.thanks
    /\ ~ missed => \/ shown = question.thanks
                   \/ \E c \in Slots : HasNumber(c) /\ calls[c].number = question.thanks

\* A step that neither counts nor pushes, and loses no number.
LEMMA ShownKept ==
    ASSUME ShownInv, NEW c \in Slots, Others(c),
           question'.thanks = question.thanks, UNCHANGED shown,
           missed => missed',
           Thanking(c)' => calls'[c].number <= question.thanks,
           HasNumber(c) => missed' \/ (HasNumber(c)' /\ calls'[c].number = calls[c].number)
    PROVE  ShownInv'
<1>1. \A d \in Slots : d # c => /\ Thanking(d)' <=> Thanking(d)
                                /\ HasNumber(d)' <=> HasNumber(d)
                                /\ calls'[d].number = calls[d].number
  BY DEF Others, HasNumber, At, Thanking
<1>2. ASSUME NEW d \in Slots, Thanking(d)' PROVE calls'[d].number <= question'.thanks
  <2>1. CASE d = c
    BY <1>2, <2>1
  <2>2. CASE d # c
    <3>1. Thanking(d) /\ calls'[d].number = calls[d].number
      BY <1>1, <1>2, <2>2 DEF Thanking, HasNumber, At
    <3> QED
      BY <3>1 DEF ShownInv
  <2> QED
    BY <2>1, <2>2
<1>3. ASSUME ~ missed'
      PROVE  \/ shown' = question'.thanks
             \/ \E d \in Slots : HasNumber(d)' /\ calls'[d].number = question'.thanks
  <2>1. CASE shown = question.thanks
    BY <2>1
  <2>2. CASE \E d \in Slots : HasNumber(d) /\ calls[d].number = question.thanks
    <3>1. PICK d \in Slots : HasNumber(d) /\ calls[d].number = question.thanks
      BY <2>2
    <3>2. HasNumber(d)' /\ calls'[d].number = question.thanks
      <4>1. CASE d = c
        BY <1>3, <3>1, <4>1
      <4>2. CASE d # c
        BY <1>1, <3>1, <4>2 DEF Thanking, HasNumber, At
      <4> QED
        BY <4>1, <4>2
    <3> QED
      BY <3>2
  <2> QED
    BY <1>3, <2>1, <2>2 DEF ShownInv
<1> QED
  BY <1>2, <1>3 DEF ShownInv

\* Every step keeps the number of the post explained.
LEMMA ShownStep == TypeInv /\ ShownInv /\ [Next]_vars => ShownInv'
<1> SUFFICES ASSUME TypeOK, ShownInv, [Next]_vars PROVE ShownInv'
  BY DEF TypeInv
<1>1. ASSUME NEW c \in Slots,
             (\E v \in Visitors, a \in Addresses : Thank(c, v, a)) \/ Hook(c) \/ AskFollowUp(c)
      PROVE  ShownInv'
  <2>1. PICK call : /\ Starts(c, call)
                    /\ call.kind \in ThankKinds => call.number \in {0, question.thanks}
    <3>1. CASE \E v \in Visitors, a \in Addresses : Thank(c, v, a)
      BY <3>1 DEF Thank
    <3>2. CASE Hook(c)
      BY <3>2 DEF Hook
    <3>3. CASE AskFollowUp(c)
      BY <3>3 DEF AskFollowUp, ThankKinds
    <3> QED
      BY <1>1, <3>1, <3>2, <3>3
  <2>2. calls[c] = NoCall /\ calls'[c] = call /\ Others(c)
    BY <2>1, StartFacts
  <2>3. question.thanks \in Nat /\ ~ HasNumber(c)
    BY <2>2, FeedbackAssumption DEF TypeOK, Numbers, HasNumber, At, Thanking, ThankKinds, NoCall
  <2>4. UNCHANGED <<question, shown, missed>>
    BY <1>1 DEF Thank, Hook, AskFollowUp, history
  <2>5. Thanking(c)' => calls'[c].number <= question.thanks
    BY <2>1, <2>2, <2>3 DEF Thanking
  <2> QED
    BY <2>2, <2>3, <2>4, <2>5, ShownKept
<1>2. ASSUME NEW c \in Slots,
             VisitorCheck(c) \/ AddressCheck(c) \/ SetKey(c) \/ CountFails(c) \/ Remember(c)
      PROVE  ShownInv'
  <2>1. UNCHANGED <<question, shown, missed>>
    BY <1>2 DEF VisitorCheck, AddressCheck, SetKey, CountFails, Remember, history
  <2>2. Thanking(c) /\ (HasNumber(c) => Moves(c, "push")) /\ ((\E at : Moves(c, at)) \/ Ends(c))
    BY <1>2 DEF VisitorCheck, AddressCheck, SetKey, CountFails, Remember, At, HasNumber
  <2>3. CASE \E at : Moves(c, at)
    <3>1. /\ Others(c) /\ calls'[c].number = calls[c].number
          /\ HasNumber(c) => HasNumber(c)'
      BY <2>2, <2>3, MoveFacts DEF HasNumber, At, Thanking
    <3> QED
      BY <2>1, <2>2, <3>1, ShownKept DEF ShownInv
  <2>4. CASE ~ (\E at : Moves(c, at)) /\ Ends(c)
    <3>1. Others(c) /\ ~ Thanking(c)'
      BY <2>4, EndFacts DEF Thanking, ThankKinds, NoCall
    <3> QED
      BY <2>1, <2>2, <2>4, <3>1, ShownKept
  <2> QED
    BY <2>2, <2>3, <2>4
<1>3. ASSUME NEW c \in Slots, Count(c) PROVE ShownInv'
  <2>1. question'.thanks = question.thanks + 1 /\ question.thanks \in Nat
    BY <1>3, CountFacts, FeedbackAssumption DEF TypeOK, Numbers
  <2>2. /\ Others(c) /\ calls'[c].number = question.thanks + 1
        /\ HasNumber(c)'
    BY <1>3, CountFacts DEF Count, At, HasNumber, Thanking, Afterwards
  <2>3. \A d \in Slots : Thanking(d)' => calls'[d].number <= question.thanks + 1
    <3> SUFFICES ASSUME NEW d \in Slots, Thanking(d)'
                 PROVE  calls'[d].number <= question.thanks + 1
      OBVIOUS
    <3>1. CASE d = c
      BY <2>1, <2>2, <3>1
    <3>2. CASE d # c
      <4>1. Thanking(d) /\ calls'[d].number = calls[d].number
        BY <2>2, <3>2 DEF Others, Thanking
      <4>2. calls[d].number \in Nat /\ calls[d].number <= question.thanks
        BY <4>1, Places, FeedbackAssumption DEF ShownInv, Numbers
      <4> QED
        BY <2>1, <4>1, <4>2
    <3> QED
      BY <3>1, <3>2
  <2> QED
    BY <2>1, <2>2, <2>3 DEF ShownInv
<1>4. ASSUME NEW c \in Slots, Push(c) PROVE ShownInv'
  <2>1. /\ Thanking(c) /\ HasNumber(c) /\ UNCHANGED question
        /\ shown' = calls[c].number
        /\ ~ missed' => \/ calls[c].number = question.thanks
                        \/ ~ missed /\ ~ (calls[c].number < shown)
    <3>1. missed' = (calls[c].number # question.thanks /\ (missed \/ calls[c].number < shown))
      BY <1>4 DEF Push
    <3>2. ~ missed' => \/ calls[c].number = question.thanks
                       \/ ~ missed /\ ~ (calls[c].number < shown)
      BY <3>1, Zenon
    <3>3. At(c, "push") /\ UNCHANGED question /\ shown' = calls[c].number
      BY <1>4 DEF Push
    <3> QED
      BY <3>2, <3>3 DEF At, HasNumber
  <2>2. Others(c) /\ ~ Thanking(c)'
    BY <1>4, EndFacts DEF Push, Thanking, ThankKinds, NoCall
  <2>3. \A d \in Slots : d # c => /\ Thanking(d)' <=> Thanking(d)
                                  /\ HasNumber(d)' <=> HasNumber(d)
                                  /\ calls'[d].number = calls[d].number
    BY <2>2 DEF Others, HasNumber, At, Thanking
  <2>4. /\ calls[c].number \in Nat /\ question.thanks \in Nat
        /\ calls[c].number <= question.thanks
    BY <2>1, Places, FeedbackAssumption DEF ShownInv, TypeOK, Numbers
  <2>5. ASSUME ~ missed', calls[c].number # question.thanks
        PROVE  \E d \in Slots : HasNumber(d)' /\ calls'[d].number = question'.thanks
    <3>1. shown # question.thanks
      BY <2>1, <2>4, <2>5
    <3>2. PICK d \in Slots : HasNumber(d) /\ calls[d].number = question.thanks
      BY <2>1, <2>5, <3>1 DEF ShownInv
    <3>3. d # c
      BY <2>5, <3>2
    <3>4. HasNumber(d)' /\ calls'[d].number = calls[d].number
      BY <2>3, <3>2, <3>3 DEF Thanking, HasNumber, At
    <3> QED
      BY <2>1, <3>2, <3>4
  <2>6. ASSUME NEW d \in Slots, Thanking(d)' PROVE calls'[d].number <= question'.thanks
    <3>1. d # c
      BY <2>2, <2>6
    <3>2. Thanking(d) /\ calls'[d].number = calls[d].number
      BY <2>3, <2>6, <3>1 DEF Thanking, HasNumber, At
    <3> QED
      BY <2>1, <3>2 DEF ShownInv
  <2> QED
    BY <2>1, <2>5, <2>6 DEF ShownInv
<1>5. ASSUME NEW c \in Slots, FollowUpCheck(c) \/ FollowUpInsert(c) PROVE ShownInv'
  <2>1. /\ question'.thanks = question.thanks /\ UNCHANGED <<shown, missed>>
    BY <1>5 DEF FollowUpCheck, FollowUpInsert, history, TypeOK
  <2>2. calls[c] \in FollowCall
    BY <1>5 DEF FollowUpCheck, FollowUpInsert, Following, TypeOK, Call, WpCall, PlainCall, HookCall, NoCall
  <2>3. Others(c) /\ ~ Thanking(c) /\ ~ Thanking(c)'
    <3>1. CASE Ends(c)
      BY <2>2, <3>1, EndFacts DEF Thanking, ThankKinds, NoCall, FollowCall
    <3>2. CASE Moves(c, "insert")
      BY <2>2, <3>2 DEF Moves, Others, Thanking, ThankKinds, FollowCall, TypeOK
    <3> QED
      BY <1>5, <3>1, <3>2 DEF FollowUpCheck, FollowUpInsert
  <2> QED
    BY <2>1, <2>3, ShownKept DEF HasNumber, At
<1>6. ASSUME NEW c \in Slots, Breaks(c) PROVE ShownInv'
  <2>1. UNCHANGED <<question, shown>> /\ missed' = (missed \/ HasNumber(c))
    BY <1>6 DEF Breaks, Numbered, HasNumber
  <2>2. Others(c) /\ ~ Thanking(c)'
    BY <1>6, EndFacts DEF Breaks, Thanking, ThankKinds, NoCall
  <2> QED
    BY <2>1, <2>2, ShownKept
<1>7. ASSUME UNCHANGED <<calls, shown, missed>>, question'.thanks = question.thanks
      PROVE  ShownInv'
  BY <1>7 DEF ShownInv, HasNumber, At, Thanking
<1>8. ASSUME NEW a \in Addresses, KeyLost(a) PROVE ShownInv'
  BY <1>7, <1>8 DEF KeyLost
<1>9. ASSUME Reopened PROVE ShownInv'
  <2>1. question' = [question EXCEPT !.answered = ~ question.answered]
    BY <1>9 DEF Reopened
  <2> QED
    BY <1>7, <1>9, <2>1 DEF Reopened, history, TypeOK
<1>10. (\E v \in Visitors : VisitorLost(v)) \/ UNCHANGED vars => ShownInv'
  BY <1>7 DEF VisitorLost, vars, history
<1> QED
  BY <1>1, <1>2, <1>3, <1>4, <1>5, <1>6, <1>8, <1>9, <1>10 DEF Next, CallStep

\* With no call on its way the post has the number of the table, unless a call
\* of syncThankCount failed or came after a later one.
THEOREM PostHasTheNumber == Spec => []ShownIsCounted
<1>1. Init => TypeInv /\ ShownInv
  BY InitTyped DEF Init, ShownInv, Thanking, ThankKinds, NoCall
<1>2. ShownInv => ShownIsCounted
  BY DEF ShownInv, ShownIsCounted, Numbered, HasNumber
<1> QED
  BY <1>1, <1>2, TypeStep, ShownStep, PTL DEF Spec
==============================================================================
