----------------------------- MODULE Discussions -----------------------------
(***************************************************************************)
(* One discussion of the rabbis: its row, its members and how far each has *)
(* read, and its messages; the calls of discussionService.js that work on  *)
(* them statement by statement; and the page of each rabbi                 *)
(* (DiscussionChat.jsx), whose client sends a call again when its answer   *)
(* has status 500.                                                         *)
(*                                                                         *)
(* A message is its place in the order of created_at; last_read_at is the  *)
(* number of messages stored by then.  The calls that change the           *)
(* discussion itself, or the membership of somebody else, check only what  *)
(* never changes (who created the discussion, who is an administrator) and *)
(* write once: they are one step each.                                     *)
(***************************************************************************)
EXTENDS Integers, Sequences, FiniteSets

CONSTANTS
    Rabbis,
    Creator,     \* created_by
    Slots,       \* calls that can be under way at once
    PageSize,    \* messages of a page
    MaxSends,    \* bound: messages the rabbis write
    MaxRetries,  \* MAX_RETRIES of the client
    Faults       \* whether statements fail and connections are lost

ASSUME DiscussionsAssumption ==
    /\ Creator \in Rabbis
    /\ PageSize \in Nat \ {0}
    /\ MaxSends \in Nat
    /\ MaxRetries \in Nat
    /\ Faults \in BOOLEAN

VARIABLES
    disc,      \* the row of discussions
    lastRead,  \* how far each rabbi has read, Outside for who is no member
    messages,  \* discussion_messages
    pages,     \* the page of each rabbi
    calls,     \* the call in each slot
    sent,      \* number of messages written so far
    met,       \* history: the messages a page of each rabbi has shown, and the
               \* excused ones, which came in while a page or a call of his was
               \* there, or which a page left out
    late,      \* history: calls past their check when the gate was shut
    repeated   \* history: sends whose call failed after its INSERT

table   == <<disc, lastRead, messages>>
history == <<sent, met, late, repeated>>
vars    == <<table, pages, calls, history>>

Outside == -1
None    == 0

Message == [by : Rabbis, send : 1 .. MaxSends]
Stored  == 1 .. Len(messages)
Places  == Nat \ {0}

\* cursor is the oldest message of the last page fetched when there are more;
\* None tells the reader that the discussion starts here
Page    == [open : BOOLEAN, cursor : Places \union {None}]

\* Only a send counts its tries: another call, sent again, does the same again.
\* A load whose page was closed goes on as a stray one: it brings nobody anything
Loads   == {"load", "older", "stray"}

NoCall  == [kind |-> "none"]
Call    ==
    [kind : {"send"}, at : {"check", "insert", "tail"}, by : Rabbis,
     of : 1 .. MaxSends, tries : 0 .. MaxRetries]
    \union
    [kind : Loads, at : {"select", "mark"}, by : Rabbis, of : SUBSET Places,
     next : Places \union {None}]
    \union
    [kind : {"mark"}, at : {"mark"}, by : Rabbis]
    \union
    [kind : {"join"}, at : {"check", "insert"}, by : Rabbis]

TypeOK ==
    /\ disc \in [there : BOOLEAN, open : BOOLEAN, locked : BOOLEAN]
    /\ lastRead \in [Rabbis -> Places \union {None, Outside}]
    /\ messages \in Seq(Message)
    /\ pages \in [Rabbis -> Page]
    /\ calls \in [Slots -> Call \union {NoCall}]
    /\ sent \in 0 .. MaxSends
    /\ met \in [Rabbis -> SUBSET Places]
    /\ late \in SUBSET Slots
    /\ repeated \in SUBSET (1 .. MaxSends)

ClosedPage == [open |-> FALSE, cursor |-> None]

\* createDiscussion: the creator is a member
Init ==
    /\ disc = [there |-> TRUE, open |-> TRUE, locked |-> FALSE]
    /\ \E invited \in SUBSET Rabbis :
          lastRead = [r \in Rabbis |->
                         IF r \in invited \union {Creator} THEN None ELSE Outside]
    /\ messages = <<>>
    /\ pages = [r \in Rabbis |-> ClosedPage]
    /\ calls = [c \in Slots |-> NoCall]
    /\ sent = 0
    /\ met = [r \in Rabbis |-> {}]
    /\ late = {}
    /\ repeated = {}

------------------------------------------------------------------------------
(* Calls.                                                                  *)

IsMember(r) == disc.there /\ lastRead[r] # Outside

At(c, kind, at) == calls[c] # NoCall /\ calls[c].kind = kind /\ calls[c].at = at

Starts(c, call) ==
    /\ calls[c] = NoCall
    /\ calls' = [calls EXCEPT ![c] = call]

Moves(c, at) == calls' = [calls EXCEPT ![c].at = at]

\* answered, in one way or another
Ends(c) ==
    /\ calls' = [calls EXCEPT ![c] = NoCall]
    /\ late' = late \ {c}

\* the calls that have asked whether the discussion lets them in
PastCheck(kind) == {c \in Slots : At(c, kind, "insert")}

CallOf(r, kind) == \E c \in Slots : calls[c] # NoCall /\ calls[c].by = r /\ calls[c].kind = kind

Loading(c) == calls[c].kind \in Loads

\* the newest of a set of messages, a page of them
Newest(S) == {i \in S : Cardinality({j \in S : j > i}) < PageSize}

Oldest(S) == CHOOSE i \in S : \A j \in S : i <= j

\* messages that a page shows, or that a load which brings no page leaves out
Meets(r, S) == met' = [met EXCEPT ![r] = @ \union S]

------------------------------------------------------------------------------
(* Writing.                                                                *)

\* handleSend of MessageInput.jsx
Press(c, r) ==
    /\ pages[r].open
    /\ sent < MaxSends
    /\ sent' = sent + 1
    /\ Starts(c, [kind |-> "send", at |-> "check", by |-> r, of |-> sent + 1, tries |-> 0])
    /\ UNCHANGED <<table, pages, met, late, repeated>>

\* assertMember, and the lock
SendCheck(c) ==
    /\ At(c, "send", "check")
    /\ IF IsMember(calls[c].by) /\ ~disc.locked
       THEN Moves(c, "insert") /\ UNCHANGED late
       ELSE Ends(c)
    /\ UNCHANGED <<table, pages, sent, met, repeated>>

\* who may miss the new message: a rabbi whose page, or a call of whose page
\* that marks as read, is already there
Present(r) ==
    \/ pages[r].open
    \/ \E kind \in Loads \union {"mark"} : CallOf(r, kind)

Appends(message) ==
    /\ messages' = Append(messages, message)
    /\ met' = [r \in Rabbis |->
                  IF Present(r) THEN met[r] \union {Len(messages) + 1} ELSE met[r]]

SendInsert(c) ==
    /\ At(c, "send", "insert")
    /\ disc.there
    /\ Appends([by |-> calls[c].by, send |-> calls[c].of])
    /\ Moves(c, "tail")
    /\ late' = late \ {c}
    /\ UNCHANGED <<disc, lastRead, pages, sent, repeated>>

\* mutant: what goes out to the room is stored by the handler of the socket, too
SendTailStores(c) ==
    /\ At(c, "send", "tail")
    /\ IF disc.there THEN Appends([by |-> calls[c].by, send |-> calls[c].of])
       ELSE UNCHANGED <<messages, met>>
    /\ Ends(c)
    /\ UNCHANGED <<disc, lastRead, pages, sent, repeated>>

\* what sendMessage emits, and what the page asks of an event before it adds
\* the message
Event(i)       == [discussionId |-> "d", message |-> i]
Accepted(event) == "discussion_id" \in DOMAIN event

\* The name of the author is looked up, the message goes out to the room, and
\* its writer has it in the answer.
SendTail(c) ==
    /\ At(c, "send", "tail")
    /\ LET mine == {i \in Stored : messages[i].send = calls[c].of}
           live(r) == {i \in mine : r # calls[c].by => Accepted(Event(i))} IN
         met' = [r \in Rabbis |->
                    IF pages[r].open THEN met[r] \union live(r) ELSE met[r]]
    /\ Ends(c)
    /\ UNCHANGED <<table, pages, sent, met, repeated>>

------------------------------------------------------------------------------
(* Reading.                                                                *)

\* The list opens the page.  It fetches the newest messages; the details and
\* the entry into the socket's room mark as read on their own (Mark).
OpenPage(c, r) ==
    /\ IsMember(r)
    /\ ~pages[r].open
    /\ pages' = [pages EXCEPT ![r] = [open |-> TRUE, cursor |-> None]]
    /\ Starts(c, [kind |-> "load", at |-> "select", by |-> r, of |-> {},
                  next |-> None])
    /\ UNCHANGED <<table, sent, met, late, repeated>>

ClosePage(r) ==
    /\ pages[r].open
    /\ pages' = [pages EXCEPT ![r] = ClosedPage]
    /\ calls' = [c \in Slots |->
                    IF Loading(c) /\ calls[c].by = r THEN [calls[c] EXCEPT !.kind = "stray"]
                    ELSE calls[c]]
    /\ IF CallOf(r, "load") THEN Meets(r, Stored) ELSE UNCHANGED met
    /\ UNCHANGED <<table, sent, late, repeated>>

\* scrolling to the top, as long as there are older messages
ScrollUp(c, r) ==
    /\ pages[r].open
    /\ pages[r].cursor # None
    /\ ~CallOf(r, "older")
    /\ Starts(c, [kind |-> "older", at |-> "select", by |-> r, of |-> {},
                  next |-> None])
    /\ UNCHANGED <<table, pages, sent, met, late, repeated>>

\* a page out of the messages the query is about
Selects(c, S) ==
    calls' = [calls EXCEPT ![c].at = "mark", ![c].of = Newest(S),
                  ![c].next = IF Newest(S) = S THEN None ELSE Oldest(Newest(S))]

\* The older ones are asked for as id < cursor; ids are random, so these are
\* any messages but the one of the cursor.
LoadSelect(c) ==
    /\ Loading(c)
    /\ calls[c].at = "select"
    /\ IF IsMember(calls[c].by)
       THEN /\ \/ calls[c].kind # "older" /\ Selects(c, Stored)
               \/ /\ calls[c].kind = "older"
                  /\ \E S \in SUBSET (Stored \ {pages[calls[c].by].cursor}) : Selects(c, S)
            /\ UNCHANGED <<late, met>>
       ELSE /\ Ends(c)
            /\ IF calls[c].kind = "load" THEN Meets(calls[c].by, Stored)
               ELSE UNCHANGED met
    /\ UNCHANGED <<table, pages, sent, repeated>>

\* UPDATE discussion_members SET last_read_at = NOW()
MarksRead(r) ==
    lastRead' = IF IsMember(r) THEN [lastRead EXCEPT ![r] = Len(messages)] ELSE lastRead

\* the last statement of a load; a first page that is not all leaves out the rest
LoadMark(c) ==
    /\ Loading(c)
    /\ calls[c].at = "mark"
    /\ LET r == calls[c].by IN
         /\ MarksRead(r)
         /\ IF calls[c].kind = "stray"
            THEN UNCHANGED <<pages, met>>
            ELSE /\ pages' = [pages EXCEPT ![r].cursor = calls[c].next]
                 /\ IF calls[c].kind = "load" /\ calls[c].next # None
                    THEN Meets(r, calls[c].of \union Stored)
                    ELSE Meets(r, calls[c].of)
    /\ Ends(c)
    /\ UNCHANGED <<disc, messages, sent, repeated>>

\* markRead when the page gets the focus, getDiscussionDetail, discussion:join
Marking(c, r) ==
    /\ pages[r].open
    /\ ~CallOf(r, "mark")
    /\ Starts(c, [kind |-> "mark", at |-> "mark", by |-> r])
    /\ UNCHANGED <<table, pages, history>>

Mark(c) ==
    /\ At(c, "mark", "mark")
    /\ MarksRead(calls[c].by)
    /\ Ends(c)
    /\ UNCHANGED <<disc, messages, pages, sent, met, repeated>>

------------------------------------------------------------------------------
(* Members, and the state of the discussion.                               *)

\* mutant: last_read_at is NOW(), as joined_at
EntersRead(r) ==
    lastRead' = IF lastRead[r] = Outside THEN [lastRead EXCEPT ![r] = Len(messages)]
                ELSE lastRead

\* last_read_at of a new row is NULL
Enters(r) ==
    lastRead' = IF lastRead[r] = Outside THEN [lastRead EXCEPT ![r] = None] ELSE lastRead

Join(c, r) ==
    /\ ~IsMember(r)
    /\ Starts(c, [kind |-> "join", at |-> "check", by |-> r])
    /\ UNCHANGED <<table, pages, history>>

JoinCheck(c) ==
    /\ At(c, "join", "check")
    /\ IF disc.there /\ disc.open
       THEN Moves(c, "insert") /\ UNCHANGED late
       ELSE Ends(c)
    /\ UNCHANGED <<table, pages, sent, met, repeated>>

JoinInsert(c) ==
    /\ At(c, "join", "insert")
    /\ disc.there
    /\ Enters(calls[c].by)
    /\ Ends(c)
    /\ UNCHANGED <<disc, messages, pages, sent, met, repeated>>

\* the creator or an administrator adds a rabbi, to a closed discussion too
AddMember(r) ==
    /\ disc.there
    /\ lastRead[r] = Outside
    /\ Enters(r)
    /\ UNCHANGED <<disc, messages, pages, calls, history>>

\* leaveDiscussion and removeMember, which refuse the creator
Leave(r) ==
    /\ IsMember(r)
    /\ r # Creator
    /\ lastRead' = [lastRead EXCEPT ![r] = Outside]
    /\ UNCHANGED <<disc, messages, pages, calls, history>>

Lock ==
    /\ disc.there
    /\ ~disc.locked
    /\ disc' = [disc EXCEPT !.locked = TRUE]
    /\ late' = late \union PastCheck("send")
    /\ UNCHANGED <<lastRead, messages, pages, calls, sent, met, repeated>>

Unlock ==
    /\ disc.there
    /\ disc.locked
    /\ disc' = [disc EXCEPT !.locked = FALSE]
    /\ late' = late \ PastCheck("send")
    /\ UNCHANGED <<lastRead, messages, pages, calls, sent, met, repeated>>

\* nothing opens it again
CloseDiscussion ==
    /\ disc.there
    /\ disc.open
    /\ disc' = [disc EXCEPT !.open = FALSE]
    /\ late' = late \union PastCheck("join")
    /\ UNCHANGED <<lastRead, messages, pages, calls, sent, met, repeated>>

\* the row, and everything that references it
DeleteDiscussion ==
    /\ disc.there
    /\ disc' = [disc EXCEPT !.there = FALSE]
    /\ lastRead' = [r \in Rabbis |-> Outside]
    /\ messages' = <<>>
    /\ met' = [r \in Rabbis |-> {}]
    /\ UNCHANGED <<pages, calls, sent, late, repeated>>

------------------------------------------------------------------------------
(* Failure.                                                                *)

\* mutant: the statement alone is sent again
AgainFromThere(call) ==
    IF call.kind = "send" THEN [call EXCEPT !.tries = call.tries + 1] ELSE call

\* the call from its first step
Again(call) ==
    CASE call.kind = "send" -> [call EXCEPT !.at = "check", !.tries = call.tries + 1]
      [] call.kind = "join" -> [call EXCEPT !.at = "check"]
      [] call.kind \in Loads -> [call EXCEPT !.at = "select", !.of = {}, !.next = None]
      [] call.kind = "mark" -> call

\* the discussion that the new row refers to is gone
Refused(c) == (At(c, "send", "insert") \/ At(c, "join", "insert")) /\ ~disc.there

\* mutant: without MAX_RETRIES
RetriedForever(c) ==
    /\ Faults \/ Refused(c)
    /\ calls[c] # NoCall
    /\ calls' = [calls EXCEPT ![c] = Again(calls[c])]
    /\ late' = late \ {c}
    /\ repeated' = IF At(c, "send", "tail") THEN repeated \union {calls[c].of} ELSE repeated
    /\ UNCHANGED <<table, pages, sent, met>>

\* An answer with status 500: the client sends the call again.
Retried(c) ==
    /\ Faults \/ Refused(c)
    /\ calls[c] # NoCall
    /\ calls[c].kind = "send" => calls[c].tries < MaxRetries
    /\ calls' = [calls EXCEPT ![c] = Again(calls[c])]
    /\ late' = late \ {c}
    /\ repeated' = IF At(c, "send", "tail") THEN repeated \union {calls[c].of} ELSE repeated
    /\ UNCHANGED <<table, pages, sent, met>>

\* The last answer is an error, or the server restarts and there is none.
GivenUp(c) ==
    /\ Faults \/ Refused(c)
    /\ calls[c] # NoCall
    /\ Ends(c)
    /\ IF calls[c].kind = "load" THEN Meets(calls[c].by, Stored)
       ELSE UNCHANGED met
    /\ UNCHANGED <<table, pages, sent, repeated>>

------------------------------------------------------------------------------
RabbiStep(r) ==
    \/ \E c \in Slots : \/ Press(c, r) \/ OpenPage(c, r) \/ ScrollUp(c, r)
                        \/ Marking(c, r) \/ Join(c, r)
    \/ ClosePage(r)
    \/ AddMember(r)
    \/ Leave(r)

CallStep(c) ==
    \/ SendCheck(c) \/ SendInsert(c) \/ SendTail(c)
    \/ LoadSelect(c) \/ LoadMark(c) \/ Mark(c)
    \/ JoinCheck(c) \/ JoinInsert(c)
    \/ Retried(c) \/ GivenUp(c)

Next ==
    \/ \E r \in Rabbis : RabbiStep(r)
    \/ \E c \in Slots : CallStep(c)
    \/ Lock \/ Unlock \/ CloseDiscussion \/ DeleteDiscussion

Spec == Init /\ [][Next]_vars

------------------------------------------------------------------------------
(* What the code guarantees.                                               *)

\* A message that was written once is stored once, however often its call
\* fails and is sent again, but when it failed after its INSERT.
OneCopyPerSend ==
    \A i, j \in Stored :
        i # j /\ messages[i].send = messages[j].send => messages[i].send \in repeated

\* Nothing is stored in a locked discussion and nobody joins a closed one,
\* but by a call that had asked before; a call that fails has to ask again.
GateHolds ==
    [][/\ disc.locked /\ Len(messages') > Len(messages) =>
            \E c \in late : At(c, "send", "insert") /\ calls'[c] # calls[c]
       /\ \A c \in Slots : ~disc.open /\ JoinInsert(c) => c \in late]_vars

\* What counts as read was shown to its reader, or came in while his page or
\* a call of it was there, or was left out by a page that failed or was full.
ReadIsSeen ==
    \A r \in Rabbis, i \in Stored :
        i <= lastRead[r] =>
            i \in met[r] \/ CallOf(r, "load")

==============================================================================
