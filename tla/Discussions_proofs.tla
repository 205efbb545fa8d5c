-------------------------- MODULE Discussions_proofs --------------------------
(***************************************************************************)
(* Discussions, for any rabbis, calls, sizes of a page and numbers of      *)
(* messages and retries.                                                   *)
(*                                                                         *)
(* Four arguments: a send owns its number, so that a second row of it can  *)
(* only come from its own second try; every row of it uses up a try; a     *)
(* call past its check is in late as soon as the gate is shut, and leaves  *)
(* late when it has to ask again; and whoever may be marked as read is     *)
(* present, so that a new message is met, and his first page brings or     *)
(* excuses the older ones.                                                 *)
(***************************************************************************)
EXTENDS Discussions, WellFoundedInduction, FiniteSetTheorems, TLAPS

SendCall == [kind : {"send"}, at : {"check", "insert", "tail"}, by : Rabbis,
             of : 1 .. MaxSends, tries : 0 .. MaxRetries]
LoadCall == [kind : Loads, at : {"select", "mark"}, by : Rabbis,
             of : SUBSET Places, next : Places \union {None}]
MarkCall == [kind : {"mark"}, at : {"mark"}, by : Rabbis]
JoinCall == [kind : {"join"}, at : {"check", "insert"}, by : Rabbis]

Sending(c) == calls[c].kind = "send"

SendInv ==
    /\ \A i \in Stored : messages[i].send <= sent
    /\ \A c \in Slots : Sending(c) => calls[c].of <= sent
    /\ \A c, d \in Slots : Sending(c) /\ Sending(d) /\ calls[c].of = calls[d].of => c = d
    /\ \A c \in Slots, i \in Stored :
         Sending(c) /\ calls[c].at # "tail" /\ messages[i].send = calls[c].of
           => calls[c].of \in repeated
    /\ OneCopyPerSend

GateInv ==
    /\ disc.locked => PastCheck("send") \subseteq late
    /\ ~disc.open => PastCheck("join") \subseteq late

Covered(r) == Stored \subseteq met[r]

ReadInv ==
    /\ \A r \in Rabbis : lastRead[r] <= Len(messages)
    /\ \A r \in Rabbis : Present(r) => CallOf(r, "load") \/ Covered(r)
    /\ \A c \in Slots :
         calls[c].kind = "load" /\ calls[c].at = "mark" /\ calls[c].next = None
           => Stored \subseteq calls[c].of \union met[calls[c].by]
    /\ ReadIsSeen

IInv == TypeOK /\ SendInv /\ GateInv /\ ReadInv

------------------------------------------------------------------------------
(* Calls.                                                                  *)

\* The kind of a call tells its fields.
LEMMA Kinds ==
    ASSUME NEW x \in Call \union {NoCall}
    PROVE  /\ x.kind \in {"none", "send", "mark", "join"} \union Loads
           /\ x.kind = "none" <=> x = NoCall
           /\ x.kind = "send" => x \in SendCall
           /\ x.kind \in Loads => x \in LoadCall
           /\ x.kind = "mark" => x \in MarkCall
           /\ x.kind = "join" => x \in JoinCall
BY DEF Call, NoCall, SendCall, LoadCall, MarkCall, JoinCall, Loads

\* And fields of their types make a call.
LEMMA CallUnion ==
    /\ SendCall \subseteq Call
    /\ LoadCall \subseteq Call
    /\ MarkCall \subseteq Call
    /\ JoinCall \subseteq Call
BY DEF Call, SendCall, LoadCall, MarkCall, JoinCall

\* A slot holds a call of one of the kinds, with the fields of that kind.
LEMMA KindsOfAll ==
    ASSUME TypeOK, NEW c \in Slots
    PROVE  /\ calls[c] \in Call \union {NoCall}
           /\ calls[c].kind \in {"none", "send", "mark", "join"} \union Loads
           /\ calls[c].kind = "none" <=> calls[c] = NoCall
           /\ Sending(c) => calls[c] \in SendCall
           /\ Loading(c) => calls[c] \in LoadCall
           /\ calls[c].kind = "mark" => calls[c] \in MarkCall
           /\ calls[c].kind = "join" => calls[c] \in JoinCall
<1>1. calls[c] \in Call \union {NoCall}
  BY DEF TypeOK
<1>2. QED
  BY <1>1, Kinds DEF Sending, Loading

\* The call of one slot changes.
LEMMA OneSlot ==
    ASSUME TypeOK, NEW c \in Slots, NEW x \in Call \union {NoCall},
           calls' = [calls EXCEPT ![c] = x]
    PROVE  /\ calls' \in [Slots -> Call \union {NoCall}]
           /\ calls'[c] = x
           /\ \A d \in Slots \ {c} : calls'[d] = calls[d]
BY DEF TypeOK

\* A send or a join that goes on.
LEMMA SendMoves ==
    ASSUME TypeOK, NEW c \in Slots, Sending(c),
           NEW at \in {"check", "insert", "tail"}, Moves(c, at)
    PROVE  /\ calls' \in [Slots -> Call \union {NoCall}]
           /\ calls'[c] \in SendCall
           /\ calls'[c].kind = "send" /\ calls'[c].at = at
           /\ calls'[c].of = calls[c].of /\ calls'[c].by = calls[c].by
           /\ calls'[c].tries = calls[c].tries
           /\ \A d \in Slots \ {c} : calls'[d] = calls[d]
<1>1. calls[c] \in SendCall
  BY KindsOfAll
<1> DEFINE x == [calls[c] EXCEPT !.at = at]
<1>2. /\ x \in SendCall /\ x.kind = "send" /\ x.at = at
      /\ x.of = calls[c].of /\ x.by = calls[c].by /\ x.tries = calls[c].tries
  BY <1>1 DEF SendCall
<1>3. calls' = [calls EXCEPT ![c] = x]
  BY DEF Moves
<1>4. x \in Call \union {NoCall}
  BY <1>2, CallUnion
<1> HIDE DEF x
<1>5. QED
  BY <1>2, <1>3, <1>4, OneSlot

\* A join that has been allowed goes on to its INSERT.
LEMMA JoinMoves ==
    ASSUME TypeOK, NEW c \in Slots, calls[c].kind = "join", Moves(c, "insert")
    PROVE  /\ calls' \in [Slots -> Call \union {NoCall}]
           /\ calls'[c].kind = "join" /\ calls'[c].at = "insert"
           /\ calls'[c].by = calls[c].by
           /\ \A d \in Slots \ {c} : calls'[d] = calls[d]
<1>1. calls[c] \in JoinCall
  BY KindsOfAll
<1> DEFINE x == [calls[c] EXCEPT !.at = "insert"]
<1>2. x \in JoinCall /\ x.kind = "join" /\ x.at = "insert" /\ x.by = calls[c].by
  BY <1>1 DEF JoinCall
<1>3. calls' = [calls EXCEPT ![c] = x]
  BY DEF Moves
<1>4. x \in Call \union {NoCall}
  BY <1>2, CallUnion
<1> HIDE DEF x
<1>5. QED
  BY <1>2, <1>3, <1>4, OneSlot

\* A call that is over.
LEMMA EndsCall ==
    ASSUME TypeOK, NEW c \in Slots, Ends(c)
    PROVE  /\ calls' \in [Slots -> Call \union {NoCall}]
           /\ calls'[c] = NoCall
           /\ calls'[c].kind = "none"
           /\ \A d \in Slots \ {c} : calls'[d] = calls[d]
<1>1. NoCall.kind = "none"
  BY DEF NoCall
<1>2. calls' = [calls EXCEPT ![c] = NoCall]
  BY DEF Ends
<1>3. QED
  BY <1>1, <1>2, OneSlot

Before == {ss \in Nat \X Nat : ss[1] < ss[2]}

\* A set of numbers that is not empty has a least one.
LEMMA HasLeast ==
    ASSUME NEW T \in SUBSET Nat, T # {}
    PROVE  \E x \in T : \A y \in T : ~(y < x)
<1>1. IsWellFoundedOn(Before, Nat)
  <2>1. Before = OpToRel(<, Nat)
    BY Zenon DEF Before, OpToRel
  <2>2. QED
    BY <2>1, NatLessThanWellFounded, Zenon
<1>2. PICK x \in T : \A y \in T : ~(<<y, x>> \in Before)
  BY <1>1, WFMin
<1>3. \A y \in T : y < x => <<y, x>> \in Before
  BY DEF Before
<1>4. QED
  BY <1>2, <1>3

\* A set of places that is not empty has a newest one.
LEMMA HasNewest ==
    ASSUME NEW n \in Nat, NEW S \in SUBSET (1 .. n), S # {}
    PROVE  \E i \in S : \A j \in S : ~(j > i)
<1> DEFINE T == {n - i : i \in S}
<1>1. T \subseteq Nat /\ T # {}
  <2>1. PICK i \in S : TRUE
    OBVIOUS
  <2>2. n - i \in T
    BY <2>1
  <2>3. \A j \in S : n - j \in Nat
    OBVIOUS
  <2>4. QED
    BY <2>2, <2>3
<1>2. PICK x \in T : \A y \in T : ~(y < x)
  <2> HIDE DEF T
  <2>1. QED
    BY <1>1, HasLeast
<1>4. PICK i \in S : x = n - i
  OBVIOUS
<1>5. \A j \in S : ~(j > i)
  <2>1. TAKE j \in S
  <2>2. n - j \in T
    OBVIOUS
  <2>3. ~(n - j < n - i)
    BY <1>2, <1>4, <2>2
  <2>4. i \in Int /\ j \in Int
    OBVIOUS
  <2>5. QED
    BY <2>3, <2>4
<1>6. QED
  BY <1>5

\* A page that is not empty has an oldest message.
LEMMA HasOldest ==
    ASSUME NEW S \in SUBSET Nat, S # {}
    PROVE  Oldest(S) \in S
<1>1. PICK x \in S : \A y \in S : ~(y < x)
  BY HasLeast
<1>2. \A y \in S : x <= y
  BY <1>1
<1>3. QED
  BY <1>2 DEF Oldest

\* A page out of some messages is never empty, unless there are none.
LEMMA NewestOfSome ==
    ASSUME NEW n \in Nat, NEW S \in SUBSET (1 .. n)
    PROVE  /\ Newest(S) \subseteq S
           /\ S # {} => Newest(S) # {}
<1>1. ASSUME S # {} PROVE Newest(S) # {}
  <2>1. PICK i \in S : \A j \in S : ~(j > i)
    BY <1>1, HasNewest
  <2>2. {j \in S : j > i} = {}
    BY <2>1
  <2>3. Cardinality({j \in S : j > i}) = 0
    BY <2>2, FS_EmptySet
  <2>4. i \in Newest(S)
    BY <2>3, DiscussionsAssumption DEF Newest
  <2>5. QED
    BY <2>4
<1>2. QED
  BY <1>1 DEF Newest

\* A load that has selected its page.
LEMMA LoadSelects ==
    ASSUME TypeOK, NEW c \in Slots, Loading(c), NEW S \in SUBSET Stored, Selects(c, S)
    PROVE  /\ calls' \in [Slots -> Call \union {NoCall}]
           /\ calls'[c].kind = calls[c].kind /\ calls'[c].by = calls[c].by
           /\ calls'[c].at = "mark"
           /\ calls'[c].of \subseteq S
           /\ calls'[c].next = None => calls'[c].of = S
           /\ \A d \in Slots \ {c} : calls'[d] = calls[d]
<1>1. calls[c] \in LoadCall
  BY KindsOfAll
<1> DEFINE next == IF Newest(S) = S THEN None ELSE Oldest(Newest(S))
           x == [calls[c] EXCEPT !.at = "mark", !.of = Newest(S), !.next = next]
<1>2. Len(messages) \in Nat /\ Stored \subseteq Places
  BY DEF TypeOK, Stored, Places
<1>3. Newest(S) \subseteq S /\ (S # {} => Newest(S) # {})
  BY <1>2, NewestOfSome DEF Stored
<1>4. next \in Places \union {None} /\ (next = None => Newest(S) = S)
  <2>1. CASE Newest(S) = S
    BY <2>1
  <2>2. CASE Newest(S) # S
    <3>1. Newest(S) # {}
      BY <1>3, <2>2
    <3>2. Newest(S) \in SUBSET Nat
      BY <1>2, <1>3 DEF Places
    <3>3. Oldest(Newest(S)) \in Newest(S)
      BY <3>1, <3>2, HasOldest
    <3>4. Oldest(Newest(S)) \in Places
      BY <1>2, <1>3, <3>3
    <3>5. QED
      BY <2>2, <3>4 DEF Places, None
  <2>3. QED
    BY <2>1, <2>2
<1> HIDE DEF next
<1>5. Newest(S) \in SUBSET Places
  BY <1>2, <1>3
<1>6. /\ x \in LoadCall
      /\ x.kind = calls[c].kind /\ x.by = calls[c].by /\ x.at = "mark"
      /\ x.of = Newest(S) /\ x.next = next
  BY <1>1, <1>4, <1>5 DEF LoadCall
<1>7. calls' = [calls EXCEPT ![c] = x]
  BY DEF Selects, next
<1>8. x \in Call \union {NoCall}
  BY <1>6, CallUnion
<1> HIDE DEF x
<1>9. QED
  BY <1>3, <1>4, <1>6, <1>7, <1>8, OneSlot
------------------------------------------------------------------------------
(* Types.                                                                  *)

\* what a step may add to the history keeps its type
Sets == [Rabbis -> SUBSET Places]

\* What a reader meets is added to his own set.
LEMMA MeetsType ==
    ASSUME TypeOK, NEW r \in Rabbis, NEW S \in SUBSET Places, Meets(r, S)
    PROVE  /\ met' \in Sets
           /\ met'[r] = met[r] \union S
           /\ \A x \in Rabbis \ {r} : met'[x] = met[x]
           /\ \A x \in Rabbis : met[x] \subseteq met'[x]
<1>1. met \in Sets
  BY DEF TypeOK, Sets
<1>2. QED
  BY <1>1 DEF Meets, Sets

\* The messages are at places.
LEMMA StoredPlaces == TypeOK => Stored \subseteq Places
BY DEF TypeOK, Stored, Places

\* The discussion starts with no message and no call.
LEMMA TypeInit == Init => TypeOK
<1> SUFFICES ASSUME Init PROVE TypeOK
  OBVIOUS
<1>1. NoCall \in Call \union {NoCall} /\ ClosedPage \in Page
  BY DEF ClosedPage, Page
<1>2. lastRead \in [Rabbis -> Places \union {None, Outside}]
  BY DEF Init
<1>3. messages \in Seq(Message)
  BY DEF Init
<1>4. QED
  BY <1>1, <1>2, <1>3, DiscussionsAssumption DEF Init, TypeOK

\* A row more.
LEMMA AppendsType ==
    ASSUME TypeOK, NEW by \in Rabbis, NEW send \in 1 .. MaxSends,
           Appends([by |-> by, send |-> send])
    PROVE  /\ messages' \in Seq(Message)
           /\ Len(messages') = Len(messages) + 1
           /\ \A i \in Stored : messages'[i] = messages[i]
           /\ messages'[Len(messages) + 1].send = send
           /\ met' \in Sets
           /\ \A r \in Rabbis : /\ met[r] \subseteq met'[r]
                                /\ Present(r) => Len(messages) + 1 \in met'[r]
<1> DEFINE m == [by |-> by, send |-> send]
<1>1. m \in Message /\ m.send = send
  BY DEF Message
<1>2. messages \in Seq(Message) /\ met \in Sets
  BY DEF TypeOK, Sets
<1>3. messages' = Append(messages, m)
  BY DEF Appends
<1> HIDE DEF m
<1>4. /\ messages' \in Seq(Message)
      /\ Len(messages') = Len(messages) + 1
      /\ \A i \in 1 .. Len(messages) : messages'[i] = messages[i]
      /\ messages'[Len(messages) + 1] = m
  BY <1>1, <1>2, <1>3
<1>5. Len(messages) + 1 \in Places
  BY <1>2 DEF Places
<1>6. QED
  BY <1>1, <1>2, <1>4, <1>5 DEF Appends, Sets, Stored

\* What changes nothing but calls and late.
Idle == UNCHANGED <<table, pages, sent, met, repeated>>

\* A step of the calls alone keeps the types of the rest.
LEMMA IdleType ==
    ASSUME TypeOK, calls' \in [Slots -> Call \union {NoCall}],
           late' \in SUBSET Slots, Idle
    PROVE  TypeOK'
BY DEF TypeOK, Idle, table

\* The statements of sendMessage keep the types.
LEMMA TypeSend ==
    ASSUME TypeOK, NEW c \in Slots, SendCheck(c) \/ SendInsert(c) \/ SendTail(c)
    PROVE  TypeOK'
<1>0. late \in SUBSET Slots
  BY DEF TypeOK
<1>1. Sending(c)
  BY DEF SendCheck, SendInsert, SendTail, At, Sending
<1>2. calls[c] \in SendCall
  BY <1>1, KindsOfAll
<1>3. calls[c].by \in Rabbis /\ calls[c].of \in 1 .. MaxSends
  BY <1>2 DEF SendCall
<1>4. CASE SendCheck(c)
  <2>1. CASE Moves(c, "insert") /\ UNCHANGED late
    <3>1. calls' \in [Slots -> Call \union {NoCall}]
      BY <1>1, <2>1, SendMoves
    <3>2. QED
      BY <1>0, <1>4, <2>1, <3>1, IdleType DEF SendCheck, Idle
  <2>2. CASE Ends(c)
    <3>1. calls' \in [Slots -> Call \union {NoCall}]
      BY <2>2, EndsCall
    <3>2. QED
      BY <1>0, <1>4, <2>2, <3>1, IdleType DEF SendCheck, Idle, Ends
  <2>3. QED
    BY <1>4, <2>1, <2>2 DEF SendCheck
<1>5. CASE SendInsert(c)
  <2>1. calls' \in [Slots -> Call \union {NoCall}]
    BY <1>1, <1>5, SendMoves DEF SendInsert
  <2>2. messages' \in Seq(Message) /\ met' \in Sets
    BY <1>3, <1>5, AppendsType DEF SendInsert
  <2>3. late' \in SUBSET Slots
    BY <1>0, <1>5 DEF SendInsert
  <2>4. QED
    BY <1>5, <2>1, <2>2, <2>3 DEF SendInsert, TypeOK, Sets
<1>6. CASE SendTail(c)
  <2>1. calls' \in [Slots -> Call \union {NoCall}]
    BY <1>6, EndsCall DEF SendTail
  <2>2. late' \in SUBSET Slots
    BY <1>0, <1>6 DEF SendTail, Ends
  <2>3. Stored \subseteq Places
    BY DEF TypeOK, Stored, Places
  <2>4. met' \in [Rabbis -> SUBSET Places]
    BY <1>6, <2>3 DEF SendTail, TypeOK
  <2>5. QED
    BY <1>6, <2>1, <2>2, <2>4 DEF SendTail, TypeOK, table
<1>7. QED
  BY <1>4, <1>5, <1>6

\* A call begins.
LEMMA StartsCall ==
    ASSUME TypeOK, NEW c \in Slots, NEW x \in Call, Starts(c, x)
    PROVE  /\ calls' \in [Slots -> Call \union {NoCall}]
           /\ calls[c] = NoCall /\ calls[c].kind = "none"
           /\ calls'[c] = x
           /\ \A d \in Slots \ {c} : calls'[d] = calls[d]
<1>1. NoCall.kind = "none"
  BY DEF NoCall
<1>2. calls[c] = NoCall /\ calls' = [calls EXCEPT ![c] = x]
  BY DEF Starts
<1>3. QED
  BY <1>1, <1>2, OneSlot

\* The calls that a page or a rabbi begins.
LEMMA NewCalls ==
    ASSUME NEW r \in Rabbis
    PROVE  /\ \A n \in 1 .. MaxSends :
                [kind |-> "send", at |-> "check", by |-> r, of |-> n, tries |-> 0] \in Call
           /\ \A kind \in Loads :
                [kind |-> kind, at |-> "select", by |-> r, of |-> {}, next |-> None] \in Call
           /\ [kind |-> "mark", at |-> "mark", by |-> r] \in Call
           /\ [kind |-> "join", at |-> "check", by |-> r] \in Call
<1>1. \A n \in 1 .. MaxSends :
         [kind |-> "send", at |-> "check", by |-> r, of |-> n, tries |-> 0] \in SendCall
  BY DiscussionsAssumption DEF SendCall
<1>2. \A kind \in Loads :
         [kind |-> kind, at |-> "select", by |-> r, of |-> {}, next |-> None] \in LoadCall
  BY DEF LoadCall
<1>3. /\ [kind |-> "mark", at |-> "mark", by |-> r] \in MarkCall
      /\ [kind |-> "join", at |-> "check", by |-> r] \in JoinCall
  BY DEF MarkCall, JoinCall
<1>4. QED
  BY <1>1, <1>2, <1>3, CallUnion

\* What a rabbi starts on the page keeps the types.
LEMMA TypeStarts ==
    ASSUME TypeOK, NEW c \in Slots, NEW r \in Rabbis,
           Press(c, r) \/ OpenPage(c, r) \/ ScrollUp(c, r) \/ Marking(c, r) \/ Join(c, r)
    PROVE  TypeOK'
<1>1. CASE Press(c, r)
  <2>1. sent + 1 \in 1 .. MaxSends
    BY <1>1, DiscussionsAssumption DEF Press, TypeOK
  <2>2. calls' \in [Slots -> Call \union {NoCall}]
    BY <1>1, <2>1, NewCalls, StartsCall DEF Press
  <2>3. sent' \in 0 .. MaxSends
    BY <1>1, <2>1 DEF Press
  <2>4. QED
    BY <1>1, <2>2, <2>3 DEF Press, TypeOK, table
<1>2. CASE OpenPage(c, r)
  <2>1. calls' \in [Slots -> Call \union {NoCall}]
    BY <1>2, NewCalls, StartsCall DEF OpenPage, Loads
  <2>2. pages' \in [Rabbis -> Page]
    BY <1>2 DEF OpenPage, TypeOK, Page
  <2>3. QED
    BY <1>2, <2>1, <2>2 DEF OpenPage, TypeOK, table
<1>3. CASE ScrollUp(c, r)
  <2>1. calls' \in [Slots -> Call \union {NoCall}]
    BY <1>3, NewCalls, StartsCall DEF ScrollUp, Loads
  <2>2. QED
    BY <1>3, <2>1 DEF ScrollUp, TypeOK, table
<1>4. CASE Marking(c, r)
  <2>1. calls' \in [Slots -> Call \union {NoCall}]
    BY <1>4, NewCalls, StartsCall DEF Marking
  <2>2. QED
    BY <1>4, <2>1 DEF Marking, TypeOK, table, history
<1>5. CASE Join(c, r)
  <2>1. calls' \in [Slots -> Call \union {NoCall}]
    BY <1>5, NewCalls, StartsCall DEF Join
  <2>2. QED
    BY <1>5, <2>1 DEF Join, TypeOK, table, history
<1>6. QED
  BY <1>1, <1>2, <1>3, <1>4, <1>5

\* A page that closes turns its loads into stray ones.
LEMMA StrayCalls ==
    ASSUME TypeOK, NEW r \in Rabbis, ClosePage(r)
    PROVE  /\ calls' \in [Slots -> Call \union {NoCall}]
           /\ \A c \in Slots :
                 IF Loading(c) /\ calls[c].by = r
                 THEN calls'[c].kind = "stray" /\ calls'[c].by = r
                 ELSE calls'[c] = calls[c]
<1> DEFINE y(c) == [calls[c] EXCEPT !.kind = "stray"]
<1>1. \A c \in Slots : Loading(c) =>
          y(c) \in LoadCall /\ y(c).kind = "stray" /\ y(c).by = calls[c].by
  <2>1. TAKE c \in Slots
  <2>2. HAVE Loading(c)
  <2>3. calls[c] \in LoadCall
    BY <2>2, KindsOfAll
  <2>4. QED
    BY <2>3 DEF LoadCall, Loads
<1>2. calls' = [c \in Slots |-> IF Loading(c) /\ calls[c].by = r THEN y(c) ELSE calls[c]]
  BY DEF ClosePage
<1> HIDE DEF y
<1>3. \A c \in Slots : calls[c] \in Call \union {NoCall}
  BY DEF TypeOK
<1>4. QED
  BY <1>1, <1>2, <1>3, CallUnion

\* How far a rabbi has read is a place.
LEMMA MarksReadType ==
    ASSUME TypeOK, NEW r \in Rabbis, MarksRead(r)
    PROVE  /\ lastRead' \in [Rabbis -> Places \union {None, Outside}]
           /\ \A x \in Rabbis : lastRead'[x] = lastRead[x] \/ (x = r /\ lastRead'[x] = Len(messages))
<1>1. Len(messages) \in Places \union {None}
  BY DEF TypeOK, Places, None
<1>2. QED
  BY <1>1 DEF MarksRead, TypeOK

\* The statements of getMessages and markAsRead keep the types.
LEMMA TypeRead ==
    ASSUME TypeOK, NEW c \in Slots, LoadSelect(c) \/ LoadMark(c) \/ Mark(c)
    PROVE  TypeOK'
<1>0. late \in SUBSET Slots /\ Stored \subseteq Places
  BY DEF TypeOK, Stored, Places
<1>1. CASE LoadSelect(c)
  <2>1. Loading(c)
    BY <1>1 DEF LoadSelect
  <2>2. calls[c] \in LoadCall
    BY <2>1, KindsOfAll
  <2>3. calls[c].by \in Rabbis
    BY <2>2 DEF LoadCall
  <2>4. CASE IsMember(calls[c].by)
    <3>1. \E S \in SUBSET Stored : Selects(c, S)
      BY <1>1, <2>4 DEF LoadSelect
    <3>2. calls' \in [Slots -> Call \union {NoCall}]
      BY <2>1, <3>1, LoadSelects
    <3>3. QED
      BY <1>1, <2>4, <3>2 DEF LoadSelect, TypeOK, table
  <2>5. CASE ~IsMember(calls[c].by)
    <3>1. /\ Ends(c)
          /\ IF calls[c].kind = "load" THEN Meets(calls[c].by, Stored)
             ELSE UNCHANGED met
      BY <1>1, <2>5 DEF LoadSelect
    <3>2. calls' \in [Slots -> Call \union {NoCall}]
      BY <3>1, EndsCall
    <3>3. met' \in Sets
      BY <2>3, <3>1, MeetsType, StoredPlaces DEF TypeOK, Sets
    <3>4. late' \in SUBSET Slots
      BY <1>0, <3>1 DEF Ends
    <3>5. QED
      BY <1>1, <3>2, <3>3, <3>4 DEF LoadSelect, TypeOK, table, Sets
  <2>6. QED
    BY <2>4, <2>5
<1>2. CASE LoadMark(c)
  <2>1. Loading(c)
    BY <1>2 DEF LoadMark
  <2>2. calls[c] \in LoadCall
    BY <2>1, KindsOfAll
  <2>3. calls[c].by \in Rabbis /\ calls[c].of \subseteq Places
        /\ calls[c].next \in Places \union {None}
    BY <2>2 DEF LoadCall
  <2>4. calls' \in [Slots -> Call \union {NoCall}]
    BY <1>2, EndsCall DEF LoadMark
  <2>5. lastRead' \in [Rabbis -> Places \union {None, Outside}]
    BY <1>2, <2>3, MarksReadType DEF LoadMark
  <2>6. late' \in SUBSET Slots
    BY <1>0, <1>2 DEF LoadMark, Ends
  <2>7. CASE calls[c].kind = "stray"
    BY <1>2, <2>4, <2>5, <2>6, <2>7 DEF LoadMark, TypeOK
  <2>8. CASE calls[c].kind # "stray"
    <3>1. pages' = [pages EXCEPT ![calls[c].by].cursor = calls[c].next]
      BY <1>2, <2>8 DEF LoadMark
    <3>2. pages' \in [Rabbis -> Page]
      BY <2>3, <3>1 DEF TypeOK, Page
    <3>3. PICK S \in SUBSET Places : Meets(calls[c].by, S)
      <4>1. calls[c].of \union Stored \in SUBSET Places
        BY <2>3, StoredPlaces
      <4>2. QED
        BY <1>2, <2>3, <2>8, <4>1 DEF LoadMark
    <3>4. met' \in Sets
      BY <2>3, <3>3, MeetsType
    <3>5. QED
      BY <1>2, <2>4, <2>5, <2>6, <3>2, <3>4 DEF LoadMark, TypeOK, Sets
  <2>9. QED
    BY <2>7, <2>8
<1>3. CASE Mark(c)
  <2>1. calls[c] \in MarkCall
    BY <1>3, KindsOfAll DEF Mark, At
  <2>2. calls[c].by \in Rabbis
    BY <2>1 DEF MarkCall
  <2>3. calls' \in [Slots -> Call \union {NoCall}]
    BY <1>3, EndsCall DEF Mark
  <2>4. lastRead' \in [Rabbis -> Places \union {None, Outside}]
    BY <1>3, <2>2, MarksReadType DEF Mark
  <2>5. late' \in SUBSET Slots
    BY <1>0, <1>3 DEF Mark, Ends
  <2>6. QED
    BY <1>3, <2>3, <2>4, <2>5 DEF Mark, TypeOK
<1>4. QED
  BY <1>1, <1>2, <1>3

\* A new member has read nothing.
LEMMA EntersType ==
    ASSUME TypeOK, NEW r \in Rabbis, Enters(r)
    PROVE  /\ lastRead' \in [Rabbis -> Places \union {None, Outside}]
           /\ \A x \in Rabbis : lastRead'[x] = lastRead[x] \/ lastRead'[x] = None
BY DEF Enters, TypeOK

\* Members who are added, leave or close the page keep the types.
LEMMA TypeMembers ==
    ASSUME TypeOK, NEW r \in Rabbis, AddMember(r) \/ Leave(r) \/ ClosePage(r)
    PROVE  TypeOK'
<1>1. CASE AddMember(r)
  BY <1>1, EntersType DEF AddMember, TypeOK, history
<1>2. CASE Leave(r)
  BY <1>2 DEF Leave, TypeOK, history
<1>3. CASE ClosePage(r)
  <2>1. pages' \in [Rabbis -> Page]
    BY <1>3 DEF ClosePage, TypeOK, ClosedPage, Page, None
  <2>2. met' \in Sets
    <3>1. CASE UNCHANGED met
      BY <3>1 DEF TypeOK, Sets
    <3>2. CASE Meets(r, Stored)
      BY <3>2, MeetsType, StoredPlaces
    <3>3. QED
      BY <1>3, <3>1, <3>2 DEF ClosePage
  <2>3. QED
    BY <1>3, <2>1, <2>2, StrayCalls DEF ClosePage, TypeOK, table, Sets
<1>4. QED
  BY <1>1, <1>2, <1>3

\* The statements of joinDiscussion keep the types.
LEMMA TypeJoin ==
    ASSUME TypeOK, NEW c \in Slots, JoinCheck(c) \/ JoinInsert(c)
    PROVE  TypeOK'
<1>0. late \in SUBSET Slots
  BY DEF TypeOK
<1>1. calls[c].kind = "join"
  BY DEF JoinCheck, JoinInsert, At
<1>2. calls[c].by \in Rabbis
  BY <1>1, KindsOfAll DEF JoinCall
<1>3. CASE JoinCheck(c)
  <2>1. CASE Moves(c, "insert") /\ UNCHANGED late
    <3>1. calls' \in [Slots -> Call \union {NoCall}]
      BY <1>1, <2>1, JoinMoves
    <3>2. QED
      BY <1>0, <1>3, <2>1, <3>1, IdleType DEF JoinCheck, Idle
  <2>2. CASE Ends(c)
    <3>1. calls' \in [Slots -> Call \union {NoCall}]
      BY <2>2, EndsCall
    <3>2. QED
      BY <1>0, <1>3, <2>2, <3>1, IdleType DEF JoinCheck, Idle, Ends
  <2>3. QED
    BY <1>3, <2>1, <2>2 DEF JoinCheck
<1>4. CASE JoinInsert(c)
  <2>1. calls' \in [Slots -> Call \union {NoCall}]
    BY <1>4, EndsCall DEF JoinInsert
  <2>2. lastRead' \in [Rabbis -> Places \union {None, Outside}]
    BY <1>2, <1>4, EntersType DEF JoinInsert
  <2>3. late' \in SUBSET Slots
    BY <1>0, <1>4 DEF JoinInsert, Ends
  <2>4. QED
    BY <1>4, <2>1, <2>2, <2>3 DEF JoinInsert, TypeOK
<1>5. QED
  BY <1>3, <1>4

\* Lock, end and deletion keep the types.
LEMMA TypeDiscussion ==
    ASSUME TypeOK, Lock \/ Unlock \/ CloseDiscussion \/ DeleteDiscussion
    PROVE  TypeOK'
<1>0. \A kind \in {"send", "join"} : PastCheck(kind) \in SUBSET Slots
  BY DEF PastCheck
<1>1. CASE Lock
  BY <1>0, <1>1 DEF Lock, TypeOK
<1>2. CASE Unlock
  BY <1>2 DEF Unlock, TypeOK
<1>3. CASE CloseDiscussion
  BY <1>0, <1>3 DEF CloseDiscussion, TypeOK
<1>4. CASE DeleteDiscussion
  <2>1. messages' \in Seq(Message)
    BY <1>4 DEF DeleteDiscussion
  <2>2. QED
    BY <1>4, <2>1 DEF DeleteDiscussion, TypeOK
<1>5. QED
  BY <1>1, <1>2, <1>3, <1>4

\* A call that is sent again starts again.
LEMMA AgainCall ==
    ASSUME TypeOK, NEW c \in Slots, Retried(c)
    PROVE  /\ calls' \in [Slots -> Call \union {NoCall}]
           /\ calls'[c].kind = calls[c].kind /\ calls'[c].by = calls[c].by
           /\ Sending(c) => /\ calls'[c].of = calls[c].of /\ calls'[c].at = "check"
                            /\ calls'[c].tries = calls[c].tries + 1
           /\ Loading(c) => calls'[c].at = "select"
           /\ calls[c].kind = "join" => calls'[c].at = "check"
           /\ \A d \in Slots \ {c} : calls'[d] = calls[d]
<1> DEFINE x == Again(calls[c])
<1>1. calls' = [calls EXCEPT ![c] = x] /\ calls[c] # NoCall
  BY DEF Retried
<1>2. CASE Sending(c)
  <2>1. calls[c] \in SendCall /\ calls[c].tries < MaxRetries
    BY <1>2, KindsOfAll DEF Retried, Sending
  <2>2. x = [calls[c] EXCEPT !.at = "check", !.tries = calls[c].tries + 1]
    BY <1>2 DEF Again, Sending, Loads
  <2>3. calls[c].tries + 1 \in 0 .. MaxRetries
    BY <2>1, DiscussionsAssumption DEF SendCall
  <2>4. /\ x \in SendCall /\ x.kind = "send" /\ x.by = calls[c].by
        /\ x.of = calls[c].of /\ x.at = "check" /\ x.tries = calls[c].tries + 1
    BY <2>1, <2>2, <2>3 DEF SendCall
  <2> HIDE DEF x
  <2>5. QED
    BY <1>1, <1>2, <2>4, CallUnion, OneSlot DEF Sending, Loading, Loads
<1>3. CASE Loading(c)
  <2>1. calls[c] \in LoadCall
    BY <1>3, KindsOfAll
  <2>2. x = [calls[c] EXCEPT !.at = "select", !.of = {}, !.next = None]
    BY <1>3 DEF Again, Loading, Loads
  <2>3. x \in LoadCall /\ x.kind = calls[c].kind /\ x.by = calls[c].by /\ x.at = "select"
    BY <2>1, <2>2 DEF LoadCall
  <2> HIDE DEF x
  <2>4. QED
    BY <1>1, <1>3, <2>3, CallUnion, OneSlot DEF Sending, Loading, Loads
<1>4. CASE calls[c].kind = "mark"
  <2>1. x = calls[c]
    BY <1>4 DEF Again, Loads
  <2>2. x \in Call \union {NoCall}
    BY <2>1, KindsOfAll
  <2> HIDE DEF x
  <2>3. QED
    BY <1>1, <1>4, <2>1, <2>2, OneSlot DEF Sending, Loading, Loads
<1>5. CASE calls[c].kind = "join"
  <2>1. calls[c] \in JoinCall
    BY <1>5, KindsOfAll
  <2>2. x = [calls[c] EXCEPT !.at = "check"]
    BY <1>5 DEF Again, Loads
  <2>3. x \in JoinCall /\ x.kind = "join" /\ x.by = calls[c].by /\ x.at = "check"
    BY <2>1, <2>2 DEF JoinCall
  <2> HIDE DEF x
  <2>4. QED
    BY <1>1, <1>5, <2>3, CallUnion, OneSlot DEF Sending, Loading, Loads
<1>6. QED
  BY <1>1, <1>2, <1>3, <1>4, <1>5, KindsOfAll DEF Sending, Loading

\* Retries of the client keep the types.
LEMMA TypeFails ==
    ASSUME TypeOK, NEW c \in Slots, Retried(c) \/ GivenUp(c)
    PROVE  TypeOK'
<1>0. late \in SUBSET Slots
  BY DEF TypeOK
<1>1. CASE Retried(c)
  <2>1. late' \in SUBSET Slots
    BY <1>0, <1>1 DEF Retried
  <2>2. repeated' \in SUBSET (1 .. MaxSends)
    <3>1. CASE At(c, "send", "tail")
      <4>1. calls[c] \in SendCall
        BY <3>1, KindsOfAll DEF At, Sending
      <4>2. calls[c].of \in 1 .. MaxSends
        BY <4>1 DEF SendCall
      <4>3. QED
        BY <1>1, <3>1, <4>2 DEF Retried, TypeOK
    <3>2. CASE ~At(c, "send", "tail")
      BY <1>1, <3>2 DEF Retried, TypeOK
    <3>3. QED
      BY <3>1, <3>2
  <2>3. QED
    BY <1>1, <2>1, <2>2, AgainCall DEF Retried, TypeOK, table
<1>2. CASE GivenUp(c)
  <2>1. calls' \in [Slots -> Call \union {NoCall}]
    BY <1>2, EndsCall DEF GivenUp
  <2>2. late' \in SUBSET Slots
    BY <1>0, <1>2 DEF GivenUp, Ends
  <2>3. met' \in Sets
    <3>1. CASE calls[c].kind = "load"
      <4>1. calls[c] \in LoadCall
        BY <3>1, KindsOfAll DEF Loading, Loads
      <4>2. calls[c].by \in Rabbis /\ Meets(calls[c].by, Stored)
        BY <1>2, <3>1, <4>1 DEF LoadCall, GivenUp
      <4>3. QED
        BY <4>2, MeetsType, StoredPlaces
    <3>2. CASE calls[c].kind # "load"
      BY <1>2, <3>2 DEF GivenUp, TypeOK, Sets
    <3>3. QED
      BY <3>1, <3>2
  <2>4. QED
    BY <1>2, <2>1, <2>2, <2>3 DEF GivenUp, TypeOK, table, Sets
<1>3. QED
  BY <1>1, <1>2

\* Every step keeps the types.
LEMMA TypeStep == TypeOK /\ [Next]_vars => TypeOK'
<1> SUFFICES ASSUME TypeOK, [Next]_vars PROVE TypeOK'
  OBVIOUS
<1>1. ASSUME NEW r \in Rabbis, RabbiStep(r) PROVE TypeOK'
  BY <1>1, TypeStarts, TypeMembers DEF RabbiStep
<1>2. ASSUME NEW c \in Slots, CallStep(c) PROVE TypeOK'
  BY <1>2, TypeSend, TypeRead, TypeJoin, TypeFails DEF CallStep
<1>3. CASE UNCHANGED vars
  BY <1>3 DEF vars, table, history, TypeOK
<1>4. QED
  BY <1>1, <1>2, <1>3, TypeDiscussion DEF Next

------------------------------------------------------------------------------
(* Steps, as the three arguments see them.                                 *)

\* A step that only follows: no new send, no new row, and no call gets past
\* its check.
Follows ==
    /\ sent' = sent
    /\ messages' = messages \/ messages' = <<>>
    /\ repeated \subseteq repeated'
    /\ \A d \in Slots : Sending(d)' =>
         /\ Sending(d)
         /\ calls'[d].of = calls[d].of
         /\ calls'[d].at # "tail" => calls[d].at # "tail" \/ calls[d].of \in repeated'

\* A step that treats sends as Follows says keeps one row for each.
LEMMA SendFollows ==
    ASSUME TypeOK, SendInv, Follows
    PROVE  SendInv'
<1>1. /\ Len(messages) \in Nat
      /\ \A i \in Stored' : i \in Stored /\ messages'[i] = messages[i]
  <2>1. CASE messages' = messages
    BY <2>1 DEF TypeOK, Stored
  <2>2. CASE messages' = <<>>
    <3>1. Stored' = {}
      BY <2>2 DEF Stored
    <3>2. QED
      BY <3>1 DEF TypeOK
  <2>3. QED
    BY <2>1, <2>2 DEF Follows
<1>2. \A i \in Stored' : messages'[i].send <= sent'
  BY <1>1 DEF SendInv, Follows
<1>3. \A c \in Slots : Sending(c)' => calls'[c].of <= sent'
  BY DEF SendInv, Follows
<1>4. \A c, d \in Slots :
        Sending(c)' /\ Sending(d)' /\ calls'[c].of = calls'[d].of => c = d
  BY DEF SendInv, Follows
<1>5. \A c \in Slots, i \in Stored' :
        Sending(c)' /\ calls'[c].at # "tail" /\ messages'[i].send = calls'[c].of
          => calls'[c].of \in repeated'
  BY <1>1 DEF SendInv, Follows
<1>6. OneCopyPerSend'
  BY <1>1 DEF SendInv, Follows, OneCopyPerSend
<1>7. QED
  BY <1>2, <1>3, <1>4, <1>5, <1>6 DEF SendInv

\* A step that opens no gate to a call: whoever is past a check was past it.
Asked ==
    /\ disc'.locked = disc.locked /\ disc'.open = disc.open
    /\ \A kind \in {"send", "join"} :
         PastCheck(kind)' \subseteq PastCheck(kind) /\ late \intersect PastCheck(kind)' \subseteq late'

\* A step that writes only for calls that asked keeps the gate.
LEMMA GateFollows ==
    ASSUME GateInv, Asked
    PROVE  GateInv'
BY DEF GateInv, Asked

\* A step that keeps the messages, as readers see it.
Reads ==
    /\ messages' = messages
    /\ \A r \in Rabbis :
         /\ met[r] \subseteq met'[r]
         /\ \/ lastRead'[r] = lastRead[r]
            \/ lastRead'[r] <= 0
            \/ lastRead'[r] = Len(messages) /\ Present(r)
         /\ Present(r)' => Present(r) \/ CallOf(r, "load")'
         /\ CallOf(r, "load") => CallOf(r, "load")' \/ Covered(r)'
    /\ \A c \in Slots :
         calls'[c].kind = "load" /\ calls'[c].at = "mark" /\ calls'[c].next = None
           => Stored \subseteq calls'[c].of \union met'[calls'[c].by]

\* A step that reads as Reads says keeps what counts as read explained.
LEMMA ReadFollows ==
    ASSUME TypeOK, TypeOK', ReadInv, Reads
    PROVE  ReadInv'
<1>1. Stored' = Stored /\ Len(messages') = Len(messages) /\ Len(messages) \in Nat
  BY DEF TypeOK, Reads, Stored
<1>2. \A r \in Rabbis : Covered(r) => Covered(r)'
  BY <1>1 DEF Reads, Covered
<1>3. \A r \in Rabbis : lastRead'[r] <= Len(messages')
  BY <1>1 DEF ReadInv, Reads, TypeOK, Places, None, Outside
<1>4. \A r \in Rabbis : Present(r)' => CallOf(r, "load")' \/ Covered(r)'
  BY <1>2 DEF ReadInv, Reads
<1>5. \A c \in Slots :
        calls'[c].kind = "load" /\ calls'[c].at = "mark" /\ calls'[c].next = None
          => Stored' \subseteq calls'[c].of \union met'[calls'[c].by]
  BY <1>1 DEF Reads
<1>6. ReadIsSeen'
  <2> SUFFICES ASSUME NEW r \in Rabbis, NEW i \in Stored, i <= lastRead'[r]
               PROVE  i \in met'[r] \/ CallOf(r, "load")'
    BY <1>1 DEF ReadIsSeen
  <2>1. ~(lastRead'[r] <= 0)
    <3>1. i \in Nat /\ i >= 1
      BY <1>1 DEF Stored
    <3>2. lastRead'[r] \in Int
      BY DEF TypeOK, Places, None, Outside
    <3>3. QED
      BY <3>1, <3>2
  <2>2. CASE lastRead'[r] = lastRead[r]
    <3>1. i \in met[r] \/ CallOf(r, "load")
      BY <2>2 DEF ReadInv, ReadIsSeen
    <3>2. Covered(r)' => i \in met'[r]
      BY <1>1 DEF Covered
    <3>3. QED
      BY <3>1, <3>2 DEF Reads
  <2>3. CASE lastRead'[r] = Len(messages) /\ Present(r)
    <3>1. CallOf(r, "load") \/ Covered(r)
      BY <2>3 DEF ReadInv
    <3>2. CallOf(r, "load")' \/ Covered(r)'
      BY <1>2, <3>1 DEF Reads
    <3>3. QED
      BY <1>1, <3>2 DEF Covered
  <2>4. QED
    BY <2>1, <2>2, <2>3 DEF Reads
<1>7. QED
  BY <1>3, <1>4, <1>5, <1>6 DEF ReadInv

\* One call goes on, ends or starts again, and nobody is marked as read.
OneCall(c) ==
    /\ calls' \in [Slots -> Call \union {NoCall}]
    /\ \A d \in Slots \ {c} : calls'[d] = calls[d]
    /\ calls'[c] = NoCall \/ (calls'[c].kind = calls[c].kind /\ calls'[c].by = calls[c].by)

\* Then only the rabbi of the call may be gone from the page.
LEMMA OneCallPresent ==
    ASSUME TypeOK, NEW c \in Slots, OneCall(c), pages' = pages
    PROVE  /\ \A r \in Rabbis : CallOf(r, "load")' => CallOf(r, "load")
           /\ \A r \in Rabbis : Present(r)' => Present(r)
           /\ calls'[c] # NoCall => \A r \in Rabbis : CallOf(r, "load") => CallOf(r, "load")'
           /\ \A r \in Rabbis :
                 CallOf(r, "load") => CallOf(r, "load")' \/ (calls[c].kind = "load" /\ calls[c].by = r)
<1>1. calls \in [Slots -> Call \union {NoCall}]
  BY DEF TypeOK
<1>2. \A d \in Slots : /\ calls[d].kind = "none" <=> calls[d] = NoCall
                       /\ calls'[d].kind = "none" <=> calls'[d] = NoCall
  BY <1>1, Kinds DEF OneCall
<1>3. \A r \in Rabbis, kind \in Loads \union {"mark"} : CallOf(r, kind)' => CallOf(r, kind)
  BY <1>2 DEF CallOf, OneCall, Loads
<1>4. \A r \in Rabbis : CallOf(r, "load")' => CallOf(r, "load")
  BY <1>3 DEF Loads
<1>5. \A r \in Rabbis : Present(r)' => Present(r)
  BY <1>3 DEF Present
<1>6. \A r \in Rabbis :
        CallOf(r, "load") =>
          CallOf(r, "load")' \/ (calls'[c] = NoCall /\ calls[c].kind = "load" /\ calls[c].by = r)
  BY <1>2 DEF CallOf, OneCall
<1>7. QED
  BY <1>4, <1>5, <1>6

\* A load at its last statement, of somebody else than the slot that moves.
LoadAtMark(c) == calls[c].kind = "load" /\ calls[c].at = "mark" /\ calls[c].next = None

\* A step of one call that touches neither messages nor marks.
LEMMA OneCallReads ==
    ASSUME TypeOK, ReadInv, NEW c \in Slots, OneCall(c), pages' = pages,
           UNCHANGED <<messages, lastRead>>,
           \A r \in Rabbis : met[r] \subseteq met'[r],
           \A r \in Rabbis :
             calls'[c] = NoCall /\ calls[c].kind = "load" /\ calls[c].by = r => Covered(r)',
           LoadAtMark(c)' => Stored \subseteq calls'[c].of \union met'[calls'[c].by]
    PROVE  Reads
<1>1. \A d \in Slots \ {c} :
        LoadAtMark(d)' => Stored \subseteq calls'[d].of \union met'[calls'[d].by]
  <2>1. TAKE d \in Slots \ {c}
  <2>2. HAVE LoadAtMark(d)'
  <2>3. calls'[d] = calls[d]
    BY DEF OneCall
  <2>4. LoadAtMark(d)
    BY <2>2, <2>3 DEF LoadAtMark
  <2>5. calls[d].by \in Rabbis
    BY <2>4, KindsOfAll DEF LoadAtMark, Loading, Loads, LoadCall
  <2>6. Stored \subseteq calls[d].of \union met[calls[d].by]
    BY <2>4 DEF ReadInv, LoadAtMark
  <2>7. QED
    BY <2>3, <2>5, <2>6
<1>2. \A d \in Slots :
        LoadAtMark(d)' => Stored \subseteq calls'[d].of \union met'[calls'[d].by]
  BY <1>1
<1>3. \A r \in Rabbis :
        CallOf(r, "load") =>
          CallOf(r, "load")' \/ (calls'[c] = NoCall /\ calls[c].kind = "load" /\ calls[c].by = r)
  BY OneCallPresent
<1>4. QED
  BY <1>2, <1>3, OneCallPresent DEF Reads, LoadAtMark

\* A call of another kind is of no concern to a page.
LEMMA OtherCallReads ==
    ASSUME TypeOK, ReadInv, NEW c \in Slots, OneCall(c), pages' = pages,
           calls[c].kind # "load", UNCHANGED <<messages, lastRead>>,
           \A r \in Rabbis : met[r] \subseteq met'[r]
    PROVE  Reads
<1>1. ~LoadAtMark(c)'
  <2>1. NoCall.kind # "load"
    BY DEF NoCall
  <2>2. QED
    BY <2>1 DEF OneCall, LoadAtMark
<1>2. QED
  BY <1>1, OneCallReads

------------------------------------------------------------------------------
\* A send: its number stays its own, and its row comes after the check.
LEMMA InvSend ==
    ASSUME IInv, TypeOK', NEW c \in Slots, SendCheck(c) \/ SendTail(c)
    PROVE  IInv'
<1>0. TypeOK /\ SendInv /\ GateInv /\ ReadInv
  BY DEF IInv
<1>1. Sending(c) /\ calls[c].kind # "load" /\ calls[c].kind # "join"
  BY DEF SendCheck, SendTail, At, Sending
<1>2. CASE SendCheck(c) /\ IsMember(calls[c].by) /\ ~disc.locked
  <2>1. Moves(c, "insert") /\ UNCHANGED late
    BY <1>2 DEF SendCheck
  <2>2. /\ calls' \in [Slots -> Call \union {NoCall}]
        /\ calls'[c].kind = "send" /\ calls'[c].at = "insert"
        /\ calls'[c].of = calls[c].of /\ calls'[c].by = calls[c].by
        /\ \A d \in Slots \ {c} : calls'[d] = calls[d]
    BY <1>0, <1>1, <2>1, SendMoves
  <2>3. OneCall(c)
    BY <1>1, <2>2 DEF OneCall, Sending
  <2>4. /\ UNCHANGED <<disc, lastRead, messages, pages, sent, met, repeated>>
        /\ calls[c].at = "check"
    BY <1>2 DEF SendCheck, table, At
  <2>5. Follows
    BY <1>1, <2>2, <2>4 DEF Follows, Sending
  <2>6. GateInv'
    <3>1. PastCheck("join")' \subseteq PastCheck("join")
      BY <1>1, <2>2 DEF PastCheck, At
    <3>2. QED
      BY <1>0, <1>2, <2>1, <2>4, <3>1 DEF GateInv
  <2>7. Reads
    BY <1>0, <1>1, <2>3, <2>4, OtherCallReads
  <2>8. QED
    BY <1>0, <2>5, <2>6, <2>7, SendFollows, ReadFollows DEF IInv
<1>3. CASE SendTail(c) \/ (SendCheck(c) /\ ~(IsMember(calls[c].by) /\ ~disc.locked))
  <2>1. Ends(c)
    BY <1>3 DEF SendTail, SendCheck
  <2>2. /\ calls' \in [Slots -> Call \union {NoCall}]
        /\ calls'[c] = NoCall /\ calls'[c].kind = "none"
        /\ \A d \in Slots \ {c} : calls'[d] = calls[d]
        /\ late' = late \ {c}
    BY <1>0, <2>1, EndsCall DEF Ends
  <2>3. OneCall(c)
    BY <2>2 DEF OneCall
  <2>4. UNCHANGED <<disc, lastRead, messages, pages, sent, repeated>>
    BY <1>3 DEF SendCheck, SendTail, table
  <2>5. \A r \in Rabbis : met[r] \subseteq met'[r]
    BY <1>0, <1>3 DEF SendTail, SendCheck, TypeOK
  <2>6. Follows
    BY <2>2, <2>4 DEF Follows, Sending
  <2>7. Asked
    BY <2>2, <2>4 DEF Asked, PastCheck, At
  <2>8. Reads
    BY <1>0, <1>1, <2>3, <2>4, <2>5, OtherCallReads
  <2>9. QED
    BY <1>0, <2>6, <2>7, <2>8, SendFollows, GateFollows, ReadFollows DEF IInv
<1>4. QED
  BY <1>2, <1>3

\* The INSERT of a message keeps the invariant.
LEMMA InvInsert ==
    ASSUME IInv, TypeOK', NEW c \in Slots, SendInsert(c)
    PROVE  IInv'
<1>0. TypeOK /\ SendInv /\ GateInv /\ ReadInv
  BY DEF IInv
<1>1. Sending(c) /\ calls[c].at = "insert"
  BY DEF SendInsert, At, Sending
<1>2. /\ calls[c].by \in Rabbis /\ calls[c].of \in 1 .. MaxSends
      /\ calls[c].of <= sent
  BY <1>0, <1>1, KindsOfAll DEF SendCall, SendInv
<1>3. /\ calls' \in [Slots -> Call \union {NoCall}]
      /\ calls'[c].kind = "send" /\ calls'[c].at = "tail"
      /\ calls'[c].of = calls[c].of /\ calls'[c].by = calls[c].by
      /\ \A d \in Slots \ {c} : calls'[d] = calls[d]
  BY <1>0, <1>1, SendMoves DEF SendInsert
<1>4. OneCall(c)
  BY <1>1, <1>3 DEF OneCall, Sending
<1>5. UNCHANGED <<disc, lastRead, pages, sent, repeated>> /\ late' = late \ {c}
  BY DEF SendInsert
<1>6. /\ Len(messages') = Len(messages) + 1
      /\ \A i \in Stored : messages'[i] = messages[i]
      /\ messages'[Len(messages) + 1].send = calls[c].of
      /\ \A r \in Rabbis : /\ met[r] \subseteq met'[r]
                           /\ Present(r) => Len(messages) + 1 \in met'[r]
  BY <1>0, <1>2, AppendsType DEF SendInsert
<1>7. /\ Len(messages) \in Nat
      /\ Stored' = Stored \union {Len(messages) + 1}
      /\ \A i \in Stored : i # Len(messages) + 1 /\ i \in Nat
  BY <1>0, <1>6 DEF TypeOK, Stored
<1>8. SendInv'
  <2>1. \A d \in Slots : Sending(d)' => Sending(d) /\ calls'[d].of = calls[d].of
    BY <1>1, <1>3 DEF Sending
  <2>2. \A i \in Stored' : messages'[i].send <= sent'
    BY <1>0, <1>2, <1>5, <1>6, <1>7 DEF SendInv
  <2>3. \A d \in Slots : Sending(d)' => calls'[d].of <= sent'
    BY <1>0, <1>5, <2>1 DEF SendInv
  <2>4. \A d, e \in Slots :
          Sending(d)' /\ Sending(e)' /\ calls'[d].of = calls'[e].of => d = e
    BY <1>0, <2>1 DEF SendInv
  <2>5. \A d \in Slots, i \in Stored' :
          Sending(d)' /\ calls'[d].at # "tail" /\ messages'[i].send = calls'[d].of
            => calls'[d].of \in repeated'
    <3> SUFFICES ASSUME NEW d \in Slots, NEW i \in Stored', Sending(d)',
                        calls'[d].at # "tail", messages'[i].send = calls'[d].of
                 PROVE  calls'[d].of \in repeated'
      OBVIOUS
    <3>1. d # c /\ calls'[d] = calls[d] /\ Sending(d)
      BY <1>3, <2>1
    <3>2. i \in Stored
      <4>1. calls[d].of # calls[c].of
        BY <1>0, <1>1, <3>1 DEF SendInv
      <4>2. QED
        BY <1>6, <1>7, <3>1, <4>1
    <3>3. QED
      BY <1>0, <1>5, <1>6, <3>1, <3>2 DEF SendInv
  <2>6. OneCopyPerSend'
    <3> SUFFICES ASSUME NEW i \in Stored', NEW j \in Stored', i # j,
                        messages'[i].send = messages'[j].send
                 PROVE  messages'[i].send \in repeated'
      BY DEF OneCopyPerSend
    <3>1. \A k \in Stored : messages'[k].send = calls[c].of => calls[c].of \in repeated'
      BY <1>0, <1>1, <1>5, <1>6 DEF SendInv
    <3>2. CASE i \in Stored /\ j \in Stored
      BY <1>0, <1>5, <1>6, <3>2 DEF SendInv, OneCopyPerSend
    <3>3. CASE i = Len(messages) + 1 /\ j \in Stored
      BY <1>6, <3>1, <3>3
    <3>4. CASE j = Len(messages) + 1 /\ i \in Stored
      BY <1>6, <3>1, <3>4
    <3>5. QED
      BY <1>7, <3>2, <3>3, <3>4
  <2>7. QED
    BY <2>2, <2>3, <2>4, <2>5, <2>6 DEF SendInv
<1>9. GateInv'
  <2>1. Asked
    BY <1>1, <1>3, <1>5 DEF Asked, PastCheck, At, Sending, NoCall
  <2>2. QED
    BY <1>0, <2>1, GateFollows
<1>10. ReadInv'
  <2>1. calls'[c] # NoCall
    BY <1>3 DEF NoCall
  <2>2. \A r \in Rabbis : /\ Present(r)' => Present(r)
                          /\ CallOf(r, "load") => CallOf(r, "load")'
    BY <1>0, <1>4, <1>5, <2>1, OneCallPresent
  <2>3. \A r \in Rabbis : Covered(r) /\ Present(r) => Covered(r)'
    BY <1>5, <1>6, <1>7 DEF Covered
  <2>4. \A r \in Rabbis : lastRead'[r] <= Len(messages')
    BY <1>0, <1>5, <1>6, <1>7 DEF ReadInv, TypeOK, Places, None, Outside
  <2>5. \A r \in Rabbis : Present(r)' => CallOf(r, "load")' \/ Covered(r)'
    BY <1>0, <2>2, <2>3 DEF ReadInv
  <2>6. \A d \in Slots :
          LoadAtMark(d)' => Stored' \subseteq calls'[d].of \union met'[calls'[d].by]
    <3> SUFFICES ASSUME NEW d \in Slots, LoadAtMark(d)'
                 PROVE  Stored' \subseteq calls'[d].of \union met'[calls'[d].by]
      OBVIOUS
    <3>1. calls'[d] = calls[d] /\ LoadAtMark(d)
      BY <1>3 DEF LoadAtMark
    <3>2. calls[d].by \in Rabbis /\ calls[d] # NoCall /\ calls[d].kind = "load"
      BY <1>0, <3>1, KindsOfAll DEF LoadAtMark, Loading, Loads, LoadCall
    <3>3. Present(calls[d].by)
      BY <3>2 DEF Present, CallOf, Loads
    <3>4. Stored \subseteq calls[d].of \union met[calls[d].by]
      BY <1>0, <3>1 DEF ReadInv, LoadAtMark
    <3>5. QED
      BY <1>6, <1>7, <3>1, <3>2, <3>3, <3>4
  <2>7. ReadIsSeen'
    <3> SUFFICES ASSUME NEW r \in Rabbis, NEW i \in Stored', i <= lastRead'[r]
                 PROVE  i \in met'[r] \/ CallOf(r, "load")'
      BY DEF ReadIsSeen
    <3>1. i \in Stored /\ i <= lastRead[r]
      <4>1. lastRead[r] <= Len(messages) /\ lastRead[r] \in Int
        BY <1>0 DEF ReadInv, TypeOK, Places, None, Outside
      <4>2. QED
        BY <1>5, <1>7, <4>1
    <3>2. QED
      BY <1>0, <1>5, <1>6, <2>2, <3>1 DEF ReadInv, ReadIsSeen
  <2>8. QED
    BY <2>4, <2>5, <2>6, <2>7 DEF ReadInv, LoadAtMark
<1>11. QED
  BY <1>8, <1>9, <1>10 DEF IInv

\* The page or a rabbi starts something.
LEMMA InvStarts ==
    ASSUME IInv, TypeOK', NEW c \in Slots, NEW r \in Rabbis,
           Press(c, r) \/ OpenPage(c, r) \/ ScrollUp(c, r) \/ Marking(c, r) \/ Join(c, r)
    PROVE  IInv'
<1>0. TypeOK /\ SendInv /\ GateInv /\ ReadInv
  BY DEF IInv
<1>1. /\ UNCHANGED <<disc, lastRead, messages, met, late, repeated>>
      /\ Press(c, r) \/ sent' = sent
  BY DEF Press, OpenPage, ScrollUp, Marking, Join, table, history
<1>2. PICK x \in Call :
        /\ Starts(c, x)
        /\ x.by = r
        /\ x.at \in {"check", "select", "mark"}
        /\ x.kind = "send" => Press(c, r) /\ x.at = "check" /\ x.of = sent + 1
        /\ x.kind # "send" => ~Press(c, r) \/ sent' = sent
        /\ x.kind \in Loads => x.at = "select"
        /\ x.kind = "load" <=> OpenPage(c, r)
        /\ x.kind \in {"older", "mark"} => pages[r].open
        /\ x.kind # "stray"
  <2>1. CASE Press(c, r)
    <3>1. sent + 1 \in 1 .. MaxSends
      BY <1>0, <2>1, DiscussionsAssumption DEF Press, TypeOK
    <3>2. [kind |-> "send", at |-> "check", by |-> r, of |-> sent + 1, tries |-> 0] \in Call
      BY <3>1, NewCalls
    <3>3. ~OpenPage(c, r)
      BY <2>1 DEF Press, OpenPage
    <3>4. QED
      BY <2>1, <3>2, <3>3 DEF Press, Loads
  <2>2. CASE OpenPage(c, r)
    <3>1. [kind |-> "load", at |-> "select", by |-> r, of |-> {}, next |-> None] \in Call
      BY NewCalls DEF Loads
    <3>2. ~Press(c, r)
      BY <2>2 DEF Press, OpenPage
    <3>3. QED
      BY <2>2, <3>1, <3>2 DEF OpenPage
  <2>3. CASE ScrollUp(c, r)
    <3>1. [kind |-> "older", at |-> "select", by |-> r, of |-> {}, next |-> None] \in Call
      BY NewCalls DEF Loads
    <3>2. ~OpenPage(c, r) /\ sent' = sent
      BY <2>3 DEF ScrollUp, OpenPage
    <3>3. QED
      BY <2>3, <3>1, <3>2 DEF ScrollUp
  <2>4. CASE Marking(c, r)
    <3>1. [kind |-> "mark", at |-> "mark", by |-> r] \in Call
      BY NewCalls
    <3>2. ~OpenPage(c, r) /\ sent' = sent
      BY <2>4 DEF Marking, OpenPage, history
    <3>3. QED
      BY <2>4, <3>1, <3>2 DEF Marking, Loads
  <2>5. CASE Join(c, r)
    <3>1. [kind |-> "join", at |-> "check", by |-> r] \in Call
      BY NewCalls
    <3>2. ~OpenPage(c, r) /\ sent' = sent
      BY <2>5 DEF Join, OpenPage, history, IsMember
    <3>3. QED
      BY <2>5, <3>1, <3>2 DEF Join, Loads
  <2>6. QED
    BY <2>1, <2>2, <2>3, <2>4, <2>5
<1>3. /\ calls' \in [Slots -> Call \union {NoCall}]
      /\ calls[c] = NoCall /\ calls[c].kind = "none"
      /\ calls'[c] = x
      /\ \A d \in Slots \ {c} : calls'[d] = calls[d]
  BY <1>0, <1>2, StartsCall
<1>4. SendInv'
  <2>1. /\ Stored' = Stored /\ sent \in Nat /\ sent' \in Nat /\ sent <= sent'
        /\ x.kind = "send" => sent' = sent + 1
    <3>1. Stored' = Stored
      BY <1>1 DEF Stored
    <3>2. sent \in Nat
      BY <1>0, DiscussionsAssumption DEF TypeOK
    <3>3. Press(c, r) => sent' = sent + 1
      BY DEF Press
    <3>4. QED
      BY <1>1, <1>2, <3>1, <3>2, <3>3
  <2>2. \A i \in Stored : messages[i].send \in Nat /\ messages[i].send <= sent
    <3>1. \A i \in Stored : messages[i] \in Message
      BY <1>0 DEF TypeOK, Stored
    <3>2. \A m \in Message : m.send \in Nat
      BY DiscussionsAssumption DEF Message
    <3>3. QED
      BY <1>0, <3>1, <3>2 DEF SendInv
  <2>3. \A d \in Slots : Sending(d) => calls[d].of \in Nat /\ calls[d].of <= sent
    BY <1>0, KindsOfAll DEF SendInv, SendCall
  <2>4. \A d \in Slots : Sending(d)' => \/ d # c /\ Sending(d) /\ calls'[d] = calls[d]
                                        \/ d = c /\ x.kind = "send" /\ calls'[d].of = sent + 1
    BY <1>2, <1>3 DEF Sending
  <2>5. \A i \in Stored' : messages'[i].send <= sent'
    BY <1>1, <2>1, <2>2
  <2>6. \A d \in Slots : Sending(d)' => calls'[d].of <= sent'
    BY <2>1, <2>3, <2>4
  <2>7. \A d, e \in Slots :
          Sending(d)' /\ Sending(e)' /\ calls'[d].of = calls'[e].of => d = e
    BY <1>0, <2>1, <2>3, <2>4 DEF SendInv
  <2>8. \A d \in Slots, i \in Stored' :
          Sending(d)' /\ calls'[d].at # "tail" /\ messages'[i].send = calls'[d].of
            => calls'[d].of \in repeated'
    BY <1>0, <1>1, <2>1, <2>2, <2>4 DEF SendInv
  <2>9. OneCopyPerSend'
    BY <1>0, <1>1, <2>1 DEF SendInv, OneCopyPerSend
  <2>10. QED
    BY <2>5, <2>6, <2>7, <2>8, <2>9 DEF SendInv
<1>5. Asked
  <2>1. x.at # "insert"
    BY <1>2
  <2>2. QED
    BY <1>1, <1>3, <2>1 DEF Asked, PastCheck, At
<1>6. Reads
  <2>1. x # NoCall
    <3>1. NoCall \notin Call
      BY DEF NoCall, Call, Loads
    <3>2. QED
      BY <3>1
  <2>2. \A s \in Rabbis : CallOf(s, "load") => CallOf(s, "load")'
    BY <1>3 DEF CallOf
  <2>3. \A s \in Rabbis, kind \in Loads \union {"mark"} :
          CallOf(s, kind)' => CallOf(s, kind) \/ (s = r /\ x.kind = kind)
    BY <1>2, <1>3 DEF CallOf
  <2>4. x.kind = "load" => CallOf(r, "load")'
    BY <1>2, <1>3, <2>1 DEF CallOf
  <2>5. \A s \in Rabbis : pages'[s].open => pages[s].open \/ (s = r /\ x.kind = "load")
    <3>1. CASE OpenPage(c, r)
      BY <1>0, <1>2, <3>1 DEF OpenPage, TypeOK
    <3>2. CASE ~OpenPage(c, r)
      BY <3>2 DEF Press, ScrollUp, Marking, Join
    <3>3. QED
      BY <3>1, <3>2
  <2>6. \A s \in Rabbis : Present(s)' => Present(s) \/ CallOf(s, "load")'
    <3> SUFFICES ASSUME NEW s \in Rabbis, Present(s)'
                 PROVE  Present(s) \/ CallOf(s, "load")'
      OBVIOUS
    <3>1. CASE pages'[s].open
      BY <2>4, <2>5, <3>1 DEF Present
    <3>2. CASE \E kind \in Loads \union {"mark"} : CallOf(s, kind)'
      BY <1>2, <2>3, <2>4, <3>2 DEF Present, Loads
    <3>3. QED
      BY <3>1, <3>2 DEF Present
  <2>7. \A d \in Slots :
          LoadAtMark(d)' => Stored \subseteq calls'[d].of \union met'[calls'[d].by]
    <3> SUFFICES ASSUME NEW d \in Slots, LoadAtMark(d)'
                 PROVE  Stored \subseteq calls'[d].of \union met'[calls'[d].by]
      OBVIOUS
    <3>1. d # c
      BY <1>2, <1>3 DEF LoadAtMark, Loads
    <3>2. calls'[d] = calls[d] /\ LoadAtMark(d)
      BY <1>3, <3>1 DEF LoadAtMark
    <3>3. QED
      BY <1>0, <1>1, <3>2 DEF ReadInv, LoadAtMark
  <2>8. QED
    BY <1>1, <2>2, <2>6, <2>7 DEF Reads, LoadAtMark
<1>7. QED
  BY <1>0, <1>4, <1>5, <1>6, GateFollows, ReadFollows DEF IInv

\* A load selects its page, or is refused.
LEMMA InvSelect ==
    ASSUME IInv, TypeOK', NEW c \in Slots, LoadSelect(c)
    PROVE  IInv'
<1>0. TypeOK /\ SendInv /\ GateInv /\ ReadInv
  BY DEF IInv
<1>1. Loading(c) /\ ~Sending(c)
  BY DEF LoadSelect, Loading, Sending, Loads
<1>2. calls[c].by \in Rabbis
  BY <1>0, <1>1, KindsOfAll DEF LoadCall
<1>3. /\ UNCHANGED <<disc, lastRead, messages, pages, sent, repeated>>
      /\ Stored \subseteq Places
  BY <1>0 DEF LoadSelect, table, TypeOK, Stored, Places
<1>4. CASE IsMember(calls[c].by)
  <2>1. UNCHANGED <<late, met>>
    BY <1>4 DEF LoadSelect
  <2>2. PICK S \in SUBSET Stored : Selects(c, S) /\ (calls[c].kind = "load" => S = Stored)
    BY <1>4 DEF LoadSelect
  <2>3. /\ calls' \in [Slots -> Call \union {NoCall}]
        /\ calls'[c].kind = calls[c].kind /\ calls'[c].by = calls[c].by
        /\ calls'[c].at = "mark"
        /\ calls'[c].of \subseteq S
        /\ calls'[c].next = None => calls'[c].of = S
        /\ \A d \in Slots \ {c} : calls'[d] = calls[d]
    BY <1>0, <1>1, <2>2, LoadSelects
  <2>4. OneCall(c)
    BY <2>3 DEF OneCall
  <2>5. Follows
    BY <1>1, <1>3, <2>3 DEF Follows, Sending
  <2>6. Asked
    BY <1>3, <2>1, <2>3 DEF Asked, PastCheck, At
  <2>7. calls'[c] # NoCall
    BY <1>1, <2>3, KindsOfAll DEF NoCall, Loading, Loads
  <2>8. LoadAtMark(c)' => Stored \subseteq calls'[c].of \union met'[calls'[c].by]
    BY <2>2, <2>3 DEF LoadAtMark
  <2>9. Reads
    BY <1>0, <1>3, <2>1, <2>4, <2>7, <2>8, OneCallReads
  <2>10. QED
    BY <1>0, <2>5, <2>6, <2>9, SendFollows, GateFollows, ReadFollows DEF IInv
<1>5. CASE ~IsMember(calls[c].by)
  <2>1. /\ Ends(c)
        /\ IF calls[c].kind = "load" THEN Meets(calls[c].by, Stored)
           ELSE UNCHANGED met
    BY <1>5 DEF LoadSelect
  <2>2. /\ calls' \in [Slots -> Call \union {NoCall}]
        /\ calls'[c] = NoCall /\ calls'[c].kind = "none"
        /\ \A d \in Slots \ {c} : calls'[d] = calls[d]
        /\ late' = late \ {c}
    BY <1>0, <2>1, EndsCall DEF Ends
  <2>3. OneCall(c)
    BY <2>2 DEF OneCall
  <2>4. Follows
    BY <1>3, <2>2 DEF Follows, Sending
  <2>5. Asked
    BY <1>3, <2>2 DEF Asked, PastCheck, At
  <2>6. /\ \A x \in Rabbis : met[x] \subseteq met'[x]
        /\ calls[c].kind = "load" => Stored \subseteq met'[calls[c].by]
    BY <1>0, <1>2, <1>3, <2>1, MeetsType
  <2>7. \A r \in Rabbis : calls[c].kind = "load" /\ calls[c].by = r => Covered(r)'
    <3>1. Stored' = Stored
      BY <1>3 DEF Stored
    <3>2. QED
      BY <2>6, <3>1 DEF Covered
  <2>8. ~LoadAtMark(c)'
    BY <2>2 DEF LoadAtMark
  <2>9. Reads
    BY <1>0, <1>3, <2>3, <2>6, <2>7, <2>8, OneCallReads
  <2>10. QED
    BY <1>0, <2>4, <2>5, <2>9, SendFollows, GateFollows, ReadFollows DEF IInv
<1>6. QED
  BY <1>4, <1>5

\* The last statement of a load, or a mark.
LEMMA InvMark ==
    ASSUME IInv, TypeOK', NEW c \in Slots, LoadMark(c) \/ Mark(c)
    PROVE  IInv'
<1>0. TypeOK /\ SendInv /\ GateInv /\ ReadInv
  BY DEF IInv
<1> DEFINE r == calls[c].by
<1>1. Loading(c) \/ calls[c].kind = "mark"
  BY DEF LoadMark, Mark, At
<1>2. r \in Rabbis /\ calls[c] # NoCall
  BY <1>0, <1>1, KindsOfAll DEF LoadCall, MarkCall, Loading, Loads
<1>3. Present(r)
  BY <1>1, <1>2 DEF Present, CallOf, Loading
<1>4. /\ calls' \in [Slots -> Call \union {NoCall}]
      /\ calls'[c] = NoCall /\ calls'[c].kind = "none"
      /\ \A d \in Slots \ {c} : calls'[d] = calls[d]
      /\ late' = late \ {c}
  BY <1>0, EndsCall DEF LoadMark, Mark, Ends
<1>5. OneCall(c)
  BY <1>4 DEF OneCall
<1>6. UNCHANGED <<disc, messages, sent, repeated>>
  BY DEF LoadMark, Mark
<1>7. Follows
  BY <1>4, <1>6 DEF Follows, Sending
<1>8. Asked
  BY <1>4, <1>6 DEF Asked, PastCheck, At
<1>9. \A x \in Rabbis : lastRead'[x] = lastRead[x] \/ (lastRead'[x] = Len(messages) /\ Present(x))
  <2>1. MarksRead(r)
    BY DEF LoadMark, Mark
  <2>2. \A x \in Rabbis : lastRead'[x] = lastRead[x] \/ (x = r /\ lastRead'[x] = Len(messages))
    BY <1>0, <1>2, <2>1, MarksReadType
  <2>3. QED
    BY <1>3, <2>2
<1>10. /\ \A x \in Rabbis : met[x] \subseteq met'[x]
       /\ \A x \in Rabbis : pages'[x].open = pages[x].open
       /\ calls[c].kind = "load" => Stored \subseteq met'[r]
  <2>1. CASE Mark(c)
    BY <2>1 DEF Mark, At
  <2>2. CASE LoadMark(c) /\ calls[c].kind = "stray"
    BY <2>2 DEF LoadMark
  <2>3. CASE LoadMark(c) /\ calls[c].kind # "stray"
    <3>1. /\ pages' = [pages EXCEPT ![r].cursor = calls[c].next]
          /\ IF calls[c].kind = "load" /\ calls[c].next # None
             THEN Meets(r, calls[c].of \union Stored) ELSE Meets(r, calls[c].of)
      BY <2>3 DEF LoadMark
    <3>2. \A x \in Rabbis : pages'[x].open = pages[x].open
      BY <1>0, <1>2, <3>1 DEF TypeOK, Page
    <3>3. calls[c].of \subseteq Places /\ Stored \subseteq Places
      BY <1>0, <2>3, KindsOfAll, StoredPlaces DEF LoadMark, LoadCall
    <3>4. CASE calls[c].kind = "load" /\ calls[c].next # None
      <4>1. /\ met'[r] = met[r] \union (calls[c].of \union Stored)
            /\ \A x \in Rabbis : met[x] \subseteq met'[x]
        <5>1. calls[c].of \union Stored \in SUBSET Places
          BY <3>3
        <5>2. QED
          BY <1>0, <1>2, <3>1, <3>4, <5>1, MeetsType
      <4>2. QED
        BY <3>2, <4>1
    <3>5. CASE ~(calls[c].kind = "load" /\ calls[c].next # None)
      <4>1. /\ met'[r] = met[r] \union calls[c].of
            /\ \A x \in Rabbis : met[x] \subseteq met'[x]
        BY <1>0, <1>2, <3>1, <3>3, <3>5, MeetsType
      <4>2. calls[c].kind = "load" => Stored \subseteq calls[c].of \union met[r]
        BY <1>0, <2>3, <3>5 DEF ReadInv, LoadMark
      <4>3. QED
        BY <3>2, <4>1, <4>2
    <3>6. QED
      BY <3>4, <3>5
  <2>4. QED
    BY <2>1, <2>2, <2>3
<1>11. Reads
  <2>0. \A d \in Slots : calls[d].kind = "none" <=> calls[d] = NoCall
    BY <1>0, KindsOfAll
  <2>1. \A x \in Rabbis, kind \in Loads \union {"mark"} : CallOf(x, kind)' => CallOf(x, kind)
    BY <1>4 DEF CallOf
  <2>2. \A x \in Rabbis : Present(x)' => Present(x)
    BY <1>10, <2>1 DEF Present
  <2>3. \A x \in Rabbis :
          CallOf(x, "load") => CallOf(x, "load")' \/ (calls[c].kind = "load" /\ r = x)
    BY <1>4, <2>0 DEF CallOf
  <2>4. Stored' = Stored
    BY <1>6 DEF Stored
  <2>5. \A x \in Rabbis : calls[c].kind = "load" /\ r = x => Covered(x)'
    BY <1>10, <2>4 DEF Covered
  <2>6. \A d \in Slots :
          LoadAtMark(d)' => Stored \subseteq calls'[d].of \union met'[calls'[d].by]
    <3> SUFFICES ASSUME NEW d \in Slots, LoadAtMark(d)'
                 PROVE  Stored \subseteq calls'[d].of \union met'[calls'[d].by]
      OBVIOUS
    <3>1. d # c
      BY <1>4 DEF LoadAtMark
    <3>2. calls'[d] = calls[d] /\ LoadAtMark(d)
      BY <1>4, <3>1 DEF LoadAtMark
    <3>3. calls[d].by \in Rabbis
      BY <1>0, <3>2, KindsOfAll DEF LoadAtMark, Loading, Loads, LoadCall
    <3>4. QED
      BY <1>0, <1>10, <3>2, <3>3 DEF ReadInv, LoadAtMark
  <2>7. \A x \in Rabbis : CallOf(x, "load") => CallOf(x, "load")' \/ Covered(x)'
    BY <2>3, <2>5
  <2>8. QED
    BY <1>6, <1>9, <1>10, <2>2, <2>6, <2>7 DEF Reads, LoadAtMark
<1>12. QED
  BY <1>0, <1>7, <1>8, <1>11, SendFollows, GateFollows, ReadFollows DEF IInv

\* Joining: past the check only while the discussion is open.
LEMMA InvJoin ==
    ASSUME IInv, TypeOK', NEW c \in Slots, JoinCheck(c) \/ JoinInsert(c)
    PROVE  IInv'
<1>0. TypeOK /\ SendInv /\ GateInv /\ ReadInv
  BY DEF IInv
<1>1. calls[c].kind = "join" /\ calls[c].kind # "load" /\ ~Sending(c)
  BY DEF JoinCheck, JoinInsert, At, Sending
<1>2. calls[c].by \in Rabbis
  BY <1>0, <1>1, KindsOfAll DEF JoinCall
<1>3. CASE JoinCheck(c) /\ disc.there /\ disc.open
  <2>1. Moves(c, "insert") /\ UNCHANGED late
    BY <1>3 DEF JoinCheck
  <2>2. /\ calls' \in [Slots -> Call \union {NoCall}]
        /\ calls'[c].kind = "join" /\ calls'[c].at = "insert"
        /\ calls'[c].by = calls[c].by
        /\ \A d \in Slots \ {c} : calls'[d] = calls[d]
    BY <1>0, <1>1, <2>1, JoinMoves
  <2>3. OneCall(c)
    BY <1>1, <2>2 DEF OneCall
  <2>4. UNCHANGED <<disc, lastRead, messages, pages, sent, met, repeated>>
    BY <1>3 DEF JoinCheck, table
  <2>5. Follows
    BY <1>1, <2>2, <2>4 DEF Follows, Sending
  <2>6. GateInv'
    <3>1. PastCheck("send")' \subseteq PastCheck("send")
      BY <1>1, <2>2 DEF PastCheck, At
    <3>2. QED
      BY <1>0, <1>3, <2>1, <2>4, <3>1 DEF GateInv
  <2>7. Reads
    BY <1>0, <1>1, <2>3, <2>4, OtherCallReads
  <2>8. QED
    BY <1>0, <2>5, <2>6, <2>7, SendFollows, ReadFollows DEF IInv
<1>4. CASE Ends(c)
  <2>1. /\ calls' \in [Slots -> Call \union {NoCall}]
        /\ calls'[c] = NoCall /\ calls'[c].kind = "none"
        /\ \A d \in Slots \ {c} : calls'[d] = calls[d]
        /\ late' = late \ {c}
    BY <1>0, <1>4, EndsCall DEF Ends
  <2>2. OneCall(c)
    BY <2>1 DEF OneCall
  <2>3. UNCHANGED <<disc, messages, pages, sent, met, repeated>>
    BY DEF JoinCheck, JoinInsert, table
  <2>4. \A x \in Rabbis : lastRead'[x] = lastRead[x] \/ lastRead'[x] <= 0
    <3>1. CASE JoinCheck(c)
      BY <3>1 DEF JoinCheck, table
    <3>2. CASE JoinInsert(c)
      BY <1>0, <1>2, <3>2, EntersType DEF JoinInsert, None
    <3>3. QED
      BY <3>1, <3>2
  <2>5. Follows
    BY <2>1, <2>3 DEF Follows, Sending
  <2>6. Asked
    BY <2>1, <2>3 DEF Asked, PastCheck, At
  <2>7. /\ \A x \in Rabbis : Present(x)' => Present(x)
        /\ \A x \in Rabbis : CallOf(x, "load") => CallOf(x, "load")'
    BY <1>0, <1>1, <2>2, <2>3, OneCallPresent
  <2>8. \A d \in Slots :
          LoadAtMark(d)' => Stored \subseteq calls'[d].of \union met'[calls'[d].by]
    <3> SUFFICES ASSUME NEW d \in Slots, LoadAtMark(d)'
                 PROVE  Stored \subseteq calls'[d].of \union met'[calls'[d].by]
      OBVIOUS
    <3>1. d # c
      BY <2>1 DEF LoadAtMark
    <3>2. calls'[d] = calls[d] /\ LoadAtMark(d)
      BY <2>1, <3>1 DEF LoadAtMark
    <3>3. QED
      BY <1>0, <2>3, <3>2 DEF ReadInv, LoadAtMark
  <2>9. Reads
    BY <2>3, <2>4, <2>7, <2>8 DEF Reads, LoadAtMark
  <2>10. QED
    BY <1>0, <2>5, <2>6, <2>9, SendFollows, GateFollows, ReadFollows DEF IInv
<1>5. QED
  BY <1>3, <1>4 DEF JoinCheck, JoinInsert

\* Members come and go, a page closes.
LEMMA InvMembers ==
    ASSUME IInv, TypeOK', NEW r \in Rabbis, AddMember(r) \/ Leave(r) \/ ClosePage(r)
    PROVE  IInv'
<1>0. TypeOK /\ SendInv /\ GateInv /\ ReadInv
  BY DEF IInv
<1>1. CASE AddMember(r) \/ Leave(r)
  <2>1. UNCHANGED <<disc, messages, pages, calls, history>>
    BY <1>1 DEF AddMember, Leave
  <2>2. \A x \in Rabbis : lastRead'[x] = lastRead[x] \/ lastRead'[x] <= 0
    <3>1. CASE AddMember(r)
      BY <1>0, <3>1, EntersType DEF AddMember, None
    <3>2. CASE Leave(r)
      BY <1>0, <3>2 DEF Leave, TypeOK, Outside
    <3>3. QED
      BY <1>1, <3>1, <3>2
  <2>3. Follows
    BY <2>1 DEF Follows, history, Sending
  <2>4. Asked
    BY <2>1 DEF Asked, history, PastCheck, At
  <2>5. /\ \A x \in Rabbis, kind \in Loads \union {"mark"} : CallOf(x, kind)' = CallOf(x, kind)
        /\ \A x \in Rabbis : Present(x)' = Present(x)
    BY <2>1 DEF CallOf, Present
  <2>6. \A d \in Slots :
          LoadAtMark(d)' => Stored \subseteq calls'[d].of \union met'[calls'[d].by]
    BY <1>0, <2>1 DEF ReadInv, LoadAtMark, history
  <2>7. Reads
    <3>1. \A x \in Rabbis : CallOf(x, "load")' = CallOf(x, "load")
      BY <2>5 DEF Loads
    <3>2. QED
      BY <2>1, <2>2, <2>5, <2>6, <3>1 DEF Reads, LoadAtMark, history
  <2>8. QED
    BY <1>0, <2>3, <2>4, <2>7, SendFollows, GateFollows, ReadFollows DEF IInv
<1>2. CASE ClosePage(r)
  <2>1. /\ UNCHANGED <<disc, lastRead, messages, sent, late, repeated>>
        /\ pages' = [pages EXCEPT ![r] = ClosedPage]
        /\ IF CallOf(r, "load") THEN Meets(r, Stored) ELSE UNCHANGED met
    BY <1>2 DEF ClosePage, table
  <2>2. \A d \in Slots :
          \/ Loading(d) /\ calls[d].by = r /\ calls'[d].kind = "stray" /\ calls'[d].by = r
          \/ ~(Loading(d) /\ calls[d].by = r) /\ calls'[d] = calls[d]
    BY <1>0, <1>2, StrayCalls
  <2>3. Follows
    BY <2>1, <2>2 DEF Follows, Sending
  <2>4. Asked
    BY <2>1, <2>2 DEF Asked, PastCheck, At
  <2>5. Reads
    <3>0. \A d \in Slots : calls[d].kind = "none" <=> calls[d] = NoCall
      BY <1>0, KindsOfAll
    <3>1. \A x \in Rabbis : met[x] \subseteq met'[x]
      BY <1>0, <2>1, MeetsType, StoredPlaces
    <3>2. \A x \in Rabbis : pages'[x].open => pages[x].open
      BY <1>0, <2>1 DEF TypeOK, ClosedPage
    <3>3. \A x \in Rabbis, kind \in Loads \union {"mark"} :
            CallOf(x, kind)' => \E k \in Loads \union {"mark"} : CallOf(x, k)
      <4> SUFFICES ASSUME NEW x \in Rabbis, NEW kind \in Loads \union {"mark"}, NEW d \in Slots,
                          calls'[d] # NoCall, calls'[d].by = x, calls'[d].kind = kind
                   PROVE  \E k \in Loads \union {"mark"} : CallOf(x, k)
        BY DEF CallOf
      <4>1. CASE calls'[d] = calls[d]
        BY <4>1 DEF CallOf
      <4>2. CASE Loading(d) /\ calls[d].by = r /\ calls'[d].by = r
        <5>1. calls[d] # NoCall
          BY <3>0, <4>2 DEF Loading, Loads
        <5>2. QED
          BY <4>2, <5>1 DEF CallOf, Loading
      <4>3. QED
        BY <2>2, <4>1, <4>2
    <3>4. \A x \in Rabbis : Present(x)' => Present(x)
      BY <3>2, <3>3 DEF Present
    <3>5. \A x \in Rabbis : CallOf(x, "load") => CallOf(x, "load")' \/ Covered(x)'
      <4> SUFFICES ASSUME NEW x \in Rabbis, CallOf(x, "load")
                   PROVE  CallOf(x, "load")' \/ Covered(x)'
        OBVIOUS
      <4>1. CASE x = r
        <5>1. Stored' = Stored
          BY <2>1 DEF Stored
        <5>2. met'[r] = met[r] \union Stored
          BY <1>0, <2>1, <4>1, MeetsType, StoredPlaces
        <5>3. QED
          BY <4>1, <5>1, <5>2 DEF Covered
      <4>2. CASE x # r
        BY <2>2, <4>2 DEF CallOf
      <4>3. QED
        BY <4>1, <4>2
    <3>6. \A d \in Slots :
            LoadAtMark(d)' => Stored \subseteq calls'[d].of \union met'[calls'[d].by]
      <4> SUFFICES ASSUME NEW d \in Slots, LoadAtMark(d)'
                   PROVE  Stored \subseteq calls'[d].of \union met'[calls'[d].by]
        OBVIOUS
      <4>1. calls'[d] = calls[d] /\ LoadAtMark(d)
        BY <2>2 DEF LoadAtMark
      <4>2. calls[d].by \in Rabbis
        BY <1>0, <4>1, KindsOfAll DEF LoadAtMark, Loading, Loads, LoadCall
      <4>3. QED
        BY <1>0, <3>1, <4>1, <4>2 DEF ReadInv, LoadAtMark
    <3>7. QED
      BY <2>1, <3>1, <3>4, <3>5, <3>6 DEF Reads, LoadAtMark
  <2>6. QED
    BY <1>0, <2>3, <2>4, <2>5, SendFollows, GateFollows, ReadFollows DEF IInv
<1>3. QED
  BY <1>1, <1>2

\* The discussion is locked, unlocked, closed or deleted.
LEMMA InvDiscussion ==
    ASSUME IInv, TypeOK', Lock \/ Unlock \/ CloseDiscussion \/ DeleteDiscussion
    PROVE  IInv'
<1>0. TypeOK /\ SendInv /\ GateInv /\ ReadInv
  BY DEF IInv
<1>1. UNCHANGED <<pages, calls, sent, repeated>> /\ (messages' = messages \/ messages' = <<>>)
  BY DEF Lock, Unlock, CloseDiscussion, DeleteDiscussion
<1>2. SendInv'
  <2>1. Follows
    BY <1>1 DEF Follows, Sending
  <2>2. QED
    BY <1>0, <2>1, SendFollows
<1>3. GateInv'
  <2>0. /\ PastCheck("send")' = PastCheck("send") /\ PastCheck("join")' = PastCheck("join")
        /\ PastCheck("send") \intersect PastCheck("join") = {}
    BY <1>1 DEF PastCheck, At
  <2>1. CASE Lock
    BY <1>0, <2>0, <2>1 DEF Lock, GateInv, TypeOK
  <2>2. CASE Unlock
    BY <1>0, <2>0, <2>2 DEF Unlock, GateInv, TypeOK
  <2>3. CASE CloseDiscussion
    BY <1>0, <2>0, <2>3 DEF CloseDiscussion, GateInv, TypeOK
  <2>4. CASE DeleteDiscussion
    BY <1>0, <2>0, <2>4 DEF DeleteDiscussion, GateInv, TypeOK
  <2>5. QED
    BY <2>1, <2>2, <2>3, <2>4
<1>4. ReadInv'
  <2>1. CASE Lock \/ Unlock \/ CloseDiscussion
    <3>1. UNCHANGED <<lastRead, messages, met>>
      BY <2>1 DEF Lock, Unlock, CloseDiscussion
    <3>2. /\ \A x \in Rabbis : CallOf(x, "load")' = CallOf(x, "load")
          /\ \A x \in Rabbis : Present(x)' = Present(x)
      BY <1>1 DEF CallOf, Present
    <3>3. \A d \in Slots :
            LoadAtMark(d)' => Stored \subseteq calls'[d].of \union met'[calls'[d].by]
      BY <1>0, <1>1, <3>1 DEF ReadInv, LoadAtMark
    <3>4. Reads
      BY <3>1, <3>2, <3>3 DEF Reads, LoadAtMark
    <3>5. QED
      BY <1>0, <3>4, ReadFollows
  <2>2. CASE DeleteDiscussion
    <3>1. /\ messages' = <<>> /\ lastRead' = [r \in Rabbis |-> Outside]
          /\ met' = [r \in Rabbis |-> {}]
      BY <2>2 DEF DeleteDiscussion
    <3>2. Stored' = {} /\ Len(messages') = 0
      BY <3>1 DEF Stored
    <3>3. \A r \in Rabbis : lastRead'[r] <= Len(messages')
      BY <3>1, <3>2 DEF Outside
    <3>4. \A r \in Rabbis : Covered(r)'
      BY <3>2 DEF Covered
    <3>5. QED
      BY <3>2, <3>3, <3>4 DEF ReadInv, ReadIsSeen
  <2>3. QED
    BY <2>1, <2>2
<1>5. QED
  BY <1>2, <1>3, <1>4 DEF IInv

\* A call that failed starts again or is given up.
LEMMA InvFails ==
    ASSUME IInv, TypeOK', NEW c \in Slots, Retried(c) \/ GivenUp(c)
    PROVE  IInv'
<1>0. TypeOK /\ SendInv /\ GateInv /\ ReadInv
  BY DEF IInv
<1>1. /\ UNCHANGED <<disc, lastRead, messages, pages, sent>>
      /\ late' = late \ {c}
  BY DEF Retried, GivenUp, table, Ends
<1>2. CASE Retried(c)
  <2>1. /\ calls' \in [Slots -> Call \union {NoCall}]
        /\ calls'[c].kind = calls[c].kind /\ calls'[c].by = calls[c].by
        /\ Sending(c) => calls'[c].of = calls[c].of /\ calls'[c].at = "check"
        /\ Loading(c) => calls'[c].at = "select"
        /\ calls[c].kind = "join" => calls'[c].at = "check"
        /\ \A d \in Slots \ {c} : calls'[d] = calls[d]
    BY <1>0, <1>2, AgainCall
  <2>2. OneCall(c)
    BY <2>1 DEF OneCall
  <2>3. /\ repeated \subseteq repeated'
        /\ Sending(c) /\ calls[c].at = "tail" => calls[c].of \in repeated'
        /\ met' = met
        /\ calls[c] # NoCall
    BY <1>2 DEF Retried, At, Sending
  <2>4. Follows
    BY <1>1, <2>1, <2>3 DEF Follows, Sending
  <2>5. Asked
    BY <1>1, <2>1 DEF Asked, PastCheck, At, Sending
  <2>6. calls'[c] # NoCall
    BY <1>0, <2>1, <2>3, KindsOfAll DEF NoCall
  <2>7. ~LoadAtMark(c)'
    BY <2>1 DEF LoadAtMark, Loading, Loads
  <2>8. Reads
    BY <1>0, <1>1, <2>2, <2>3, <2>6, <2>7, OneCallReads
  <2>9. QED
    BY <1>0, <2>4, <2>5, <2>8, SendFollows, GateFollows, ReadFollows DEF IInv
<1>3. CASE GivenUp(c)
  <2>1. /\ calls' \in [Slots -> Call \union {NoCall}]
        /\ calls'[c] = NoCall /\ calls'[c].kind = "none"
        /\ \A d \in Slots \ {c} : calls'[d] = calls[d]
    BY <1>0, <1>3, EndsCall DEF GivenUp
  <2>2. OneCall(c)
    BY <2>1 DEF OneCall
  <2>3. repeated' = repeated
    BY <1>3 DEF GivenUp
  <2>4. Follows
    BY <1>1, <2>1, <2>3 DEF Follows, Sending
  <2>5. Asked
    BY <1>1, <2>1 DEF Asked, PastCheck, At
  <2>6. ~LoadAtMark(c)'
    BY <2>1 DEF LoadAtMark
  <2>7. CASE calls[c].kind = "load"
    <3>1. Meets(calls[c].by, Stored)
      BY <1>3, <2>7 DEF GivenUp
    <3>2. calls[c].by \in Rabbis
      BY <1>0, <2>7, KindsOfAll DEF Loading, Loads, LoadCall
    <3>3. /\ met'[calls[c].by] = met[calls[c].by] \union Stored
          /\ \A x \in Rabbis \ {calls[c].by} : met'[x] = met[x]
      BY <1>0, <3>1, <3>2, MeetsType, StoredPlaces
    <3>4. Stored' = Stored
      BY <1>1 DEF Stored
    <3>5. \A r \in Rabbis : calls[c].by = r => Covered(r)'
      BY <3>3, <3>4 DEF Covered
    <3>6. Reads
      BY <1>0, <1>1, <2>2, <2>6, <3>3, <3>5, OneCallReads
    <3>7. QED
      BY <1>0, <2>4, <2>5, <3>6, SendFollows, GateFollows, ReadFollows DEF IInv
  <2>8. CASE calls[c].kind # "load"
    <3>1. met' = met
      BY <1>3, <2>8 DEF GivenUp
    <3>2. Reads
      BY <1>0, <1>1, <2>2, <2>8, <3>1, OtherCallReads
    <3>3. QED
      BY <1>0, <2>4, <2>5, <3>2, SendFollows, GateFollows, ReadFollows DEF IInv
  <2>9. QED
    BY <2>7, <2>8
<1>4. QED
  BY <1>2, <1>3

------------------------------------------------------------------------------
(* The theorems.                                                           *)

\* The invariant holds at first.
LEMMA InitIInv == Init => IInv
<1> SUFFICES ASSUME Init PROVE IInv
  OBVIOUS
<1>1. TypeOK
  BY TypeInit
<1>2. NoCall.kind = "none"
  BY DEF NoCall
<1>3. /\ Stored = {} /\ Len(messages) = 0
      /\ \A c \in Slots : calls[c].kind = "none"
      /\ \A r \in Rabbis : ~pages[r].open
      /\ \A r \in Rabbis : lastRead[r] <= 0
  BY <1>2 DEF Init, Stored, ClosedPage, None, Outside
<1>4. SendInv
  BY <1>3 DEF SendInv, OneCopyPerSend, Sending
<1>5. GateInv
  BY <1>3 DEF GateInv, PastCheck, At
<1>6. ReadInv
  <2>1. \A r \in Rabbis : Covered(r)
    BY <1>3 DEF Covered
  <2>2. QED
    BY <1>3, <2>1 DEF ReadInv, ReadIsSeen
<1>7. QED
  BY <1>1, <1>4, <1>5, <1>6 DEF IInv

\* A stutter keeps the invariant.
LEMMA SameIInv ==
    ASSUME IInv, UNCHANGED vars
    PROVE  IInv'
<1>1. UNCHANGED <<disc, lastRead, messages, pages, calls, sent, met, late, repeated>>
  BY DEF vars, table, history
<1>2. TypeOK' /\ SendInv' /\ GateInv'
  BY <1>1 DEF IInv, TypeOK, SendInv, GateInv, OneCopyPerSend, Stored, Sending, PastCheck, At
<1>3. ReadInv'
  BY <1>1 DEF IInv, ReadInv, ReadIsSeen, Stored, Covered, CallOf, Present
<1>4. QED
  BY <1>2, <1>3 DEF IInv

\* Every step keeps the invariant.
LEMMA IInvStep == IInv /\ [Next]_vars => IInv'
<1> SUFFICES ASSUME IInv, [Next]_vars PROVE IInv'
  OBVIOUS
<1>1. TypeOK'
  BY TypeStep DEF IInv
<1>2. ASSUME NEW r \in Rabbis, RabbiStep(r) PROVE IInv'
  BY <1>1, <1>2, InvStarts, InvMembers DEF RabbiStep
<1>3. ASSUME NEW c \in Slots, CallStep(c) PROVE IInv'
  BY <1>1, <1>3, InvSend, InvInsert, InvSelect, InvMark, InvJoin, InvFails DEF CallStep
<1>4. QED
  BY <1>1, <1>2, <1>3, InvDiscussion, SameIInv DEF Next

\* The invariant holds for ever.
LEMMA Invariant == Spec => []IInv
BY InitIInv, IInvStep, PTL DEF Spec

\* Rows, pages and calls keep their types, whatever fails.
THEOREM DiscussionsTyped == Spec => []TypeOK
<1>1. IInv => TypeOK
  BY DEF IInv
<1>2. QED
  BY <1>1, Invariant, PTL

\* A message of a rabbi has one row, unless its call failed after the INSERT.
THEOREM SendsStoreOnce == Spec => []OneCopyPerSend
<1>1. IInv => OneCopyPerSend
  BY DEF IInv, SendInv
<1>2. QED
  BY <1>1, Invariant, PTL

\* What is marked as read was shown, or is met by a page or a call.
THEOREM ReadIsShown == Spec => []ReadIsSeen
<1>1. IInv => ReadIsSeen
  BY DEF IInv, ReadInv
<1>2. QED
  BY <1>1, Invariant, PTL

\* A row more comes from an INSERT of a send.
LEMMA GrowsByInsert ==
    ASSUME TypeOK, Next, Len(messages') > Len(messages)
    PROVE  \E c \in Slots : SendInsert(c)
<1>1. Len(messages) \in Nat /\ messages' # messages /\ messages' # <<>>
  <2>1. Len(messages) \in Nat
    BY DEF TypeOK
  <2>2. Len(<<>>) = 0
    OBVIOUS
  <2>3. QED
    BY <2>1, <2>2
<1>2. \A r \in Rabbis : ~RabbiStep(r)
  BY <1>1 DEF RabbiStep, Press, OpenPage, ScrollUp, Marking, Join, ClosePage, AddMember, Leave, table
<1>3. ~(Lock \/ Unlock \/ CloseDiscussion \/ DeleteDiscussion)
  BY <1>1 DEF Lock, Unlock, CloseDiscussion, DeleteDiscussion
<1>4. \A c \in Slots : CallStep(c) => SendInsert(c)
  BY <1>1 DEF CallStep, SendCheck, SendTail, LoadSelect, LoadMark, Mark, JoinCheck, JoinInsert,
     Retried, GivenUp, table
<1>5. QED
  BY <1>2, <1>3, <1>4 DEF Next

\* Only calls that asked before the gate was shut pass it.
THEOREM GateIsKept == Spec => GateHolds
<1> DEFINE Step ==
      /\ disc.locked /\ Len(messages') > Len(messages) =>
            \E c \in late : At(c, "send", "insert") /\ calls'[c] # calls[c]
      /\ \A c \in Slots : ~disc.open /\ JoinInsert(c) => c \in late
<1>1. IInv /\ [Next]_vars => [Step]_vars
  <2> SUFFICES ASSUME IInv, Next PROVE Step
    OBVIOUS
  <2>1. ASSUME disc.locked, Len(messages') > Len(messages)
        PROVE  \E c \in late : At(c, "send", "insert") /\ calls'[c] # calls[c]
    <3>1. PICK c \in Slots : SendInsert(c)
      BY <2>1, GrowsByInsert DEF IInv
    <3>2. At(c, "send", "insert") /\ c \in late
      BY <2>1, <3>1 DEF SendInsert, IInv, GateInv, PastCheck
    <3>3. Sending(c)
      BY <3>2 DEF At, Sending
    <3>4. calls'[c].at = "tail" /\ calls[c].at = "insert"
      BY <3>1, <3>2, <3>3, SendMoves DEF IInv, SendInsert, At
    <3>5. QED
      BY <3>2, <3>4
  <2>2. ASSUME NEW c \in Slots, ~disc.open, JoinInsert(c)
        PROVE  c \in late
    BY <2>2 DEF JoinInsert, IInv, GateInv, PastCheck
  <2>3. QED
    BY <2>1, <2>2
<1>2. QED
  BY <1>1, Invariant, PTL DEF Spec, GateHolds

------------------------------------------------------------------------------
(* How many rows a message may leave.                                      *)

Copies(m) == {i \in Stored : messages[i].send = m}

\* What Discussions states of a message whose call failed after its INSERT is
\* only that it may be stored again.  It is, but never more often than the
\* client tries: MAX_RETRIES and one.
CopiesAreLimited == \A m \in 1 .. MaxSends : Cardinality(Copies(m)) <= MaxRetries + 1

\* the rows that the tries of a send so far can have stored
Tried(c) == calls[c].tries + (IF calls[c].at = "tail" THEN 1 ELSE 0)

CopyInv ==
    /\ CopiesAreLimited
    /\ \A c \in Slots, m \in 1 .. MaxSends :
         Sending(c) /\ calls[c].of = m => Cardinality(Copies(m)) <= Tried(c)

\* The rows of a message can be counted.
LEMMA CopiesFinite == TypeOK => \A m \in 1 .. MaxSends : IsFiniteSet(Copies(m))
<1> SUFFICES ASSUME TypeOK, NEW m \in 1 .. MaxSends PROVE IsFiniteSet(Copies(m))
  OBVIOUS
<1>1. IsFiniteSet(Stored)
  BY FS_Interval DEF TypeOK, Stored
<1>2. QED
  BY <1>1, FS_Subset DEF Copies

\* What the tries of a send can be.
LEMMA TriedType ==
    ASSUME TypeOK, NEW c \in Slots, Sending(c)
    PROVE  /\ calls[c].tries \in Nat /\ calls[c].tries <= MaxRetries
           /\ calls[c].of \in 1 .. MaxSends
           /\ Tried(c) \in Nat
<1>1. calls[c] \in SendCall
  BY KindsOfAll
<1>2. QED
  BY <1>1, DiscussionsAssumption DEF SendCall, Tried

\* What a step may do to the sends when it stores nothing: one goes on or is
\* tried again, or a new one starts.
SendsGoOn ==
    \A d \in Slots : Sending(d)' =>
        \/ /\ Sending(d) /\ calls'[d].of = calls[d].of
           /\ Tried(d)' \in Nat /\ Tried(d) <= Tried(d)'
        \/ calls'[d].of = sent + 1 /\ Tried(d)' = 0

\* A step that stores nothing keeps the count.
LEMMA CopiesKept ==
    ASSUME TypeOK, TypeOK', SendInv, CopyInv, SendsGoOn,
           messages' = messages \/ messages' = <<>>
    PROVE  CopyInv'
<1>1. \A m \in 1 .. MaxSends : Copies(m)' \subseteq Copies(m)
  <2>1. CASE messages' = messages
    BY <2>1 DEF Copies, Stored
  <2>2. CASE messages' = <<>>
    <3>1. Stored' = {}
      BY <2>2 DEF Stored
    <3>2. QED
      BY <3>1 DEF Copies
  <2>3. QED
    BY <2>1, <2>2
<1>2. \A m \in 1 .. MaxSends :
        /\ Cardinality(Copies(m))' <= Cardinality(Copies(m))
        /\ Cardinality(Copies(m))' \in Nat /\ Cardinality(Copies(m)) \in Nat
  <2> TAKE m \in 1 .. MaxSends
  <2>1. IsFiniteSet(Copies(m))
    BY CopiesFinite
  <2>2. QED
    BY <1>1, <2>1, FS_Subset, FS_CardinalityType
<1>3. CopiesAreLimited'
  BY <1>2, DiscussionsAssumption DEF CopyInv, CopiesAreLimited
<1>4. ASSUME NEW d \in Slots, NEW m \in 1 .. MaxSends, Sending(d)', calls'[d].of = m
      PROVE  Cardinality(Copies(m))' <= Tried(d)'
  <2>1. CASE /\ Sending(d) /\ calls'[d].of = calls[d].of
             /\ Tried(d)' \in Nat /\ Tried(d) <= Tried(d)'
    <3>1. Cardinality(Copies(m)) <= Tried(d)
      BY <1>4, <2>1 DEF CopyInv
    <3>2. Tried(d) \in Nat
      BY <2>1, TriedType
    <3>3. QED
      BY <1>2, <2>1, <3>1, <3>2
  <2>2. CASE m = sent + 1 /\ Tried(d)' = 0
    <3>1. sent \in Nat
      BY DiscussionsAssumption DEF TypeOK
    <3>2. \A i \in Stored : messages[i].send <= sent /\ messages[i].send \in Nat
      <4>1. \A i \in Stored : messages[i] \in Message
        BY DEF TypeOK, Stored
      <4>2. \A x \in Message : x.send \in Nat
        BY DiscussionsAssumption DEF Message
      <4>3. QED
        BY <4>1, <4>2 DEF SendInv
    <3>3. Copies(m) = {}
      BY <2>2, <3>1, <3>2 DEF Copies
    <3>4. Cardinality(Copies(m)) = 0
      BY <3>3, FS_EmptySet
    <3>5. QED
      BY <1>2, <2>2, <3>4
  <2>3. QED
    BY <1>4, <2>1, <2>2 DEF SendsGoOn
<1>5. QED
  BY <1>3, <1>4 DEF CopyInv

\* The INSERT of a send stores a row of its own message, and uses up a try.
LEMMA CopiesInsert ==
    ASSUME TypeOK, TypeOK', SendInv, CopyInv, NEW c \in Slots, SendInsert(c)
    PROVE  CopyInv'
<1>1. Sending(c) /\ calls[c].at = "insert"
  BY DEF SendInsert, At, Sending
<1>2. calls[c].by \in Rabbis /\ calls[c].of \in 1 .. MaxSends
  BY <1>1, KindsOfAll DEF SendCall
<1>3. /\ calls'[c].kind = "send" /\ calls'[c].at = "tail"
      /\ calls'[c].of = calls[c].of /\ calls'[c].tries = calls[c].tries
      /\ \A d \in Slots \ {c} : calls'[d] = calls[d]
  BY <1>1, SendMoves DEF SendInsert
<1>4. /\ Len(messages') = Len(messages) + 1
      /\ \A i \in Stored : messages'[i] = messages[i]
      /\ messages'[Len(messages) + 1].send = calls[c].of
  BY <1>2, AppendsType DEF SendInsert
<1>5. /\ Stored' = Stored \union {Len(messages) + 1}
      /\ Len(messages) + 1 \notin Stored
  BY <1>4 DEF TypeOK, Stored
<1>6. \A m \in 1 .. MaxSends :
        Copies(m)' = IF m = calls[c].of THEN Copies(m) \union {Len(messages) + 1} ELSE Copies(m)
  BY <1>4, <1>5 DEF Copies
<1>7. \A m \in 1 .. MaxSends :
        /\ Cardinality(Copies(m)) \in Nat
        /\ Cardinality(Copies(m))' = IF m = calls[c].of THEN Cardinality(Copies(m)) + 1
                                     ELSE Cardinality(Copies(m))
  <2> TAKE m \in 1 .. MaxSends
  <2>1. IsFiniteSet(Copies(m)) /\ Len(messages) + 1 \notin Copies(m)
    BY <1>5, CopiesFinite DEF Copies
  <2>2. Cardinality(Copies(m) \union {Len(messages) + 1}) = Cardinality(Copies(m)) + 1
    BY <2>1, FS_AddElement
  <2>3. QED
    BY <1>6, <2>1, <2>2, FS_CardinalityType
<1>8. /\ Tried(c) = calls[c].tries /\ Tried(c)' = calls[c].tries + 1
      /\ calls[c].tries \in Nat /\ calls[c].tries <= MaxRetries
  BY <1>1, <1>3, TriedType DEF Tried
<1>9. Cardinality(Copies(calls[c].of)) <= calls[c].tries
  BY <1>1, <1>2, <1>8 DEF CopyInv
<1>10. CopiesAreLimited'
  BY <1>2, <1>7, <1>8, <1>9, DiscussionsAssumption DEF CopyInv, CopiesAreLimited
<1>11. ASSUME NEW d \in Slots, NEW m \in 1 .. MaxSends, Sending(d)', calls'[d].of = m
       PROVE  Cardinality(Copies(m))' <= Tried(d)'
  <2>1. CASE d = c
    BY <1>3, <1>7, <1>8, <1>9, <1>11, <2>1
  <2>2. CASE d # c
    <3>1. Sending(d) /\ calls[d].of = m /\ Tried(d)' = Tried(d)
      BY <1>3, <1>11, <2>2 DEF Sending, Tried
    <3>2. m # calls[c].of
      BY <1>1, <2>2, <3>1 DEF SendInv
    <3>3. QED
      BY <1>7, <3>1, <3>2 DEF CopyInv
  <2>3. QED
    BY <2>1, <2>2
<1>12. QED
  BY <1>10, <1>11 DEF CopyInv

\* Every step keeps the count.
LEMMA CopiesStep == IInv /\ CopyInv /\ [Next]_vars => CopyInv'
<1> SUFFICES ASSUME IInv, CopyInv, [Next]_vars PROVE CopyInv'
  OBVIOUS
<1>1. TypeOK /\ TypeOK' /\ SendInv
  BY TypeStep DEF IInv
<1>2. ASSUME \A d \in Slots : Sending(d)' => Sending(d) /\ calls'[d] = calls[d],
             messages' = messages \/ messages' = <<>>
      PROVE  CopyInv'
  <2>1. \A d \in Slots : Sending(d) => Tried(d) \in Nat
    BY <1>1, TriedType
  <2>2. SendsGoOn
    BY <1>2, <2>1 DEF SendsGoOn, Tried
  <2>3. QED
    BY <1>1, <1>2, <2>2, CopiesKept
<1>3. ASSUME NEW c \in Slots, Ends(c), messages' = messages
      PROVE  CopyInv'
  <2>1. calls'[c].kind = "none" /\ \A d \in Slots \ {c} : calls'[d] = calls[d]
    BY <1>1, <1>3, EndsCall
  <2>2. QED
    BY <1>2, <1>3, <2>1 DEF Sending
<1>4. ASSUME NEW c \in Slots, NEW r \in Rabbis, Press(c, r)
      PROVE  CopyInv'
  <2> DEFINE x == [kind |-> "send", at |-> "check", by |-> r, of |-> sent + 1, tries |-> 0]
  <2>1. sent + 1 \in 1 .. MaxSends
    BY <1>1, <1>4, DiscussionsAssumption DEF Press, TypeOK
  <2>2. x \in Call /\ Starts(c, x)
    BY <1>4, <2>1, NewCalls DEF Press
  <2>3. x.of = sent + 1 /\ x.at = "check" /\ x.tries = 0
    OBVIOUS
  <2> HIDE DEF x
  <2>4. calls'[c] = x /\ \A d \in Slots \ {c} : calls'[d] = calls[d]
    BY <1>1, <2>2, StartsCall
  <2>5. \A d \in Slots : Sending(d) => Tried(d) \in Nat
    BY <1>1, TriedType
  <2>6. SendsGoOn
    BY <2>3, <2>4, <2>5 DEF SendsGoOn, Sending, Tried
  <2>7. messages' = messages
    BY <1>4 DEF Press, table
  <2>8. QED
    BY <1>1, <2>6, <2>7, CopiesKept
<1>5. ASSUME NEW c \in Slots, NEW r \in Rabbis,
             OpenPage(c, r) \/ ScrollUp(c, r) \/ Marking(c, r) \/ Join(c, r)
      PROVE  CopyInv'
  <2>1. PICK x \in Call : Starts(c, x) /\ x.kind # "send"
    <3>1. CASE OpenPage(c, r)
      BY <3>1, NewCalls DEF OpenPage, Loads
    <3>2. CASE ScrollUp(c, r)
      BY <3>2, NewCalls DEF ScrollUp, Loads
    <3>3. CASE Marking(c, r)
      BY <3>3, NewCalls DEF Marking
    <3>4. CASE Join(c, r)
      BY <3>4, NewCalls DEF Join
    <3>5. QED
      BY <1>5, <3>1, <3>2, <3>3, <3>4
  <2>2. calls'[c] = x /\ \A d \in Slots \ {c} : calls'[d] = calls[d]
    BY <1>1, <2>1, StartsCall
  <2>3. messages' = messages
    BY <1>5 DEF OpenPage, ScrollUp, Marking, Join, table
  <2>4. QED
    BY <1>2, <2>1, <2>2, <2>3 DEF Sending
<1>6. ASSUME NEW r \in Rabbis, ClosePage(r) PROVE CopyInv'
  <2>1. messages' = messages
    BY <1>6 DEF ClosePage, table
  <2>2. \A d \in Slots : Sending(d)' => Sending(d) /\ calls'[d] = calls[d]
    BY <1>1, <1>6, StrayCalls DEF Sending, Loading, Loads
  <2>3. QED
    BY <1>2, <2>1, <2>2
<1>7. ASSUME NEW c \in Slots, SendCheck(c) PROVE CopyInv'
  <2>1. messages' = messages /\ Sending(c) /\ calls[c].at = "check"
    BY <1>7 DEF SendCheck, table, At, Sending
  <2>2. CASE Moves(c, "insert")
    <3>1. /\ calls'[c].kind = "send" /\ calls'[c].at = "insert"
          /\ calls'[c].of = calls[c].of /\ calls'[c].tries = calls[c].tries
          /\ \A d \in Slots \ {c} : calls'[d] = calls[d]
      BY <1>1, <2>1, <2>2, SendMoves
    <3>2. \A d \in Slots : Sending(d) => Tried(d) \in Nat
      BY <1>1, TriedType
    <3>3. SendsGoOn
      BY <2>1, <3>1, <3>2 DEF SendsGoOn, Sending, Tried
    <3>4. QED
      BY <1>1, <2>1, <3>3, CopiesKept
  <2>3. CASE Ends(c)
    BY <1>3, <2>1, <2>3
  <2>4. QED
    BY <1>7, <2>2, <2>3 DEF SendCheck
<1>8. ASSUME NEW c \in Slots, Retried(c) PROVE CopyInv'
  <2>1. messages' = messages
    BY <1>8 DEF Retried, table
  <2>2. /\ calls'[c].kind = calls[c].kind
        /\ Sending(c) => /\ calls'[c].of = calls[c].of /\ calls'[c].at = "check"
                         /\ calls'[c].tries = calls[c].tries + 1
        /\ \A d \in Slots \ {c} : calls'[d] = calls[d]
    BY <1>1, <1>8, AgainCall
  <2>3. \A d \in Slots : Sending(d) => calls[d].tries \in Nat /\ Tried(d) \in Nat
    BY <1>1, TriedType
  <2>4. SendsGoOn
    BY <2>2, <2>3 DEF SendsGoOn, Sending, Tried
  <2>5. QED
    BY <1>1, <2>1, <2>4, CopiesKept
<1>9. ASSUME NEW c \in Slots, SendTail(c) \/ LoadMark(c) \/ Mark(c) \/ JoinInsert(c) \/ GivenUp(c)
      PROVE  CopyInv'
  BY <1>3, <1>9 DEF SendTail, LoadMark, Mark, JoinInsert, GivenUp, table
<1>10. ASSUME NEW c \in Slots, LoadSelect(c) PROVE CopyInv'
  <2>1. messages' = messages /\ Loading(c) /\ ~Sending(c)
    BY <1>10 DEF LoadSelect, table, Loading, Loads, Sending
  <2>2. CASE \E S \in SUBSET Stored : Selects(c, S)
    <3>1. calls'[c].kind = calls[c].kind /\ \A d \in Slots \ {c} : calls'[d] = calls[d]
      BY <1>1, <2>1, <2>2, LoadSelects
    <3>2. QED
      BY <1>2, <2>1, <3>1 DEF Sending
  <2>3. CASE Ends(c)
    BY <1>3, <2>1, <2>3
  <2>4. QED
    BY <1>10, <2>2, <2>3 DEF LoadSelect
<1>11. ASSUME NEW c \in Slots, JoinCheck(c) PROVE CopyInv'
  <2>1. messages' = messages /\ calls[c].kind = "join"
    BY <1>11 DEF JoinCheck, table, At
  <2>2. CASE Moves(c, "insert")
    <3>1. calls'[c].kind = "join" /\ \A d \in Slots \ {c} : calls'[d] = calls[d]
      BY <1>1, <2>1, <2>2, JoinMoves
    <3>2. QED
      BY <1>2, <2>1, <3>1 DEF Sending
  <2>3. CASE Ends(c)
    BY <1>3, <2>1, <2>3
  <2>4. QED
    BY <1>11, <2>2, <2>3 DEF JoinCheck
<1>12. ASSUME UNCHANGED calls, messages' = messages \/ messages' = <<>> PROVE CopyInv'
  BY <1>2, <1>12 DEF Sending
<1>13. ASSUME \/ \E r \in Rabbis : AddMember(r) \/ Leave(r)
              \/ Lock \/ Unlock \/ CloseDiscussion \/ DeleteDiscussion
              \/ UNCHANGED vars
       PROVE  CopyInv'
  BY <1>12, <1>13 DEF AddMember, Leave, Lock, Unlock, CloseDiscussion, DeleteDiscussion, vars, table
<1>14. ASSUME NEW c \in Slots, SendInsert(c) PROVE CopyInv'
  BY <1>1, <1>14, CopiesInsert
<1>15. ASSUME NEW r \in Rabbis, RabbiStep(r) PROVE CopyInv'
  BY <1>4, <1>5, <1>6, <1>13, <1>15 DEF RabbiStep
<1>16. ASSUME NEW c \in Slots, CallStep(c) PROVE CopyInv'
  BY <1>7, <1>8, <1>9, <1>10, <1>11, <1>14, <1>16 DEF CallStep
<1>17. QED
  BY <1>13, <1>15, <1>16 DEF Next

\* A message is stored at most MAX_RETRIES + 1 times, whatever fails: a call
\* leaves at most one row on each of its tries.
THEOREM RetriesLimitCopies == Spec => []CopiesAreLimited
<1>1. Init => CopyInv
  <2> SUFFICES ASSUME Init PROVE CopyInv
    OBVIOUS
  <2>1. \A m \in 1 .. MaxSends : Copies(m) = {}
    BY DEF Init, Copies, Stored
  <2>2. \A m \in 1 .. MaxSends : Cardinality(Copies(m)) = 0
    BY <2>1, FS_EmptySet
  <2>3. \A c \in Slots : ~Sending(c)
    BY DEF Init, NoCall, Sending
  <2>4. QED
    BY <2>2, <2>3, DiscussionsAssumption DEF CopyInv, CopiesAreLimited
<1>2. Spec => []CopyInv
  BY <1>1, CopiesStep, Invariant, PTL DEF Spec
<1>3. CopyInv => CopiesAreLimited
  BY DEF CopyInv
<1>4. QED
  BY <1>2, <1>3, PTL
==============================================================================
