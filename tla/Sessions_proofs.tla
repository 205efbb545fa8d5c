---------------------------- MODULE Sessions_proofs ----------------------------
(***************************************************************************)
(* Sessions: rotation keeps one live session per sign-in and exchanges a   *)
(* token once, a reset leaves no session of an older password, and a       *)
(* browser keeps the last token that was issued to it, for any number of   *)
(* browsers, tabs, calls and pairs.                                        *)
(*                                                                         *)
(* The argument follows the right to the next row of a sign-in: a live row *)
(* has it, or the one call that found that row live and has revoked it     *)
(* since.  Every statement passes the right on or drops it; only a second  *)
(* call that finds the row live before the first revokes it doubles it,    *)
(* and raced says so.                                                      *)
(***************************************************************************)
EXTENDS Sessions, TLAPS

Issued == 1 .. issued

\* rows are numbered in the order of their INSERT, and a family is traced by
\* its first row
RowsInv ==
    /\ \A n \in Pairs : sessions[n].state # "none" <=> n \in Issued
    /\ \A n \in Issued : sessions[n].family \in Issued

Writing(s) == calls[s].pc \in {"revoke", "insert"}
Answering(s) == calls[s].kind \in {"login", "refresh"} /\ calls[s].pc = "reply"

CallInv(s) ==
    /\ calls[s].kind = "refresh" => calls[s].token \in Issued
    /\ calls[s].kind = "login" =>
         /\ calls[s].token = NoPair
         /\ calls[s].tab # NoTab
         /\ calls[s].pc \in {"insert", "reply"}
    /\ calls[s].kind = "signOut" =>
         /\ calls[s].pc \in {"check", "reply"}
         /\ calls[s].pc = "check" => calls[s].token \in Issued
    /\ calls[s].kind = "none" => calls[s] = NoCall
    /\ Answering(s) => calls[s].new \in Issued

CallsInv ==
    /\ \A s \in Slots : CallInv(s)
    /\ \A b \in Browsers : storage[b].refresh \in Issued \union {NoPair}

\* who may insert the next row of a family without asking again
Family(s)  == sessions[calls[s].token].family
Checked(s) == calls[s].kind = "refresh" /\ calls[s].pc = "revoke"
Entitled(s) ==
    /\ calls[s].kind = "refresh"
    /\ \/ calls[s].pc = "insert"
       \/ calls[s].pc = "revoke" /\ sessions[calls[s].token].state # "live"

RightInv ==
    /\ OneSessionPerLogin
    /\ raced \subseteq Issued
    /\ \A s \in Slots, n \in Pairs :
         Entitled(s) /\ sessions[n].state = "live" /\ sessions[n].family = Family(s)
           => RacedFamily(Family(s))
    /\ \A s, x \in Slots :
         Entitled(s) /\ Entitled(x) /\ Family(s) = Family(x)
           => s = x \/ RacedFamily(Family(s))
    /\ \A s, x \in Slots :
         Checked(s) /\ Checked(x) /\ calls[s].token = calls[x].token
           => s = x \/ calls[s].token \in raced

OriginInv ==
    /\ OldPasswordIsOut
    /\ \A s \in Slots :
         calls[s].kind \in {"login", "refresh"} /\ Writing(s) => calls[s].origin # "past"

IInv ==
    /\ TypeOK
    /\ RowsInv
    /\ CallsInv
    /\ RightInv
    /\ OriginInv

------------------------------------------------------------------------------
\* What a handler writes into its call keeps it a call.
LEMMA Edits ==
    ASSUME NEW c \in Call, NEW n \in Token, NEW o \in Origins,
           NEW pc \in {"check", "revoke", "insert", "alarm", "reply", "denied", "error"}
    PROVE  /\ NoCall \in Call
           /\ [c EXCEPT !.pc = pc] \in Call
           /\ [c EXCEPT !.tab = NoTab] \in Call
           /\ [c EXCEPT !.origin = o] \in Call
           /\ [c EXCEPT !.pc = pc, !.origin = o] \in Call
           /\ [c EXCEPT !.pc = pc, !.token = n] \in Call
           /\ [c EXCEPT !.tab = NoTab, !.tries = 0] \in Call
           /\ c.tries < MaxRetries => [c EXCEPT !.pc = pc, !.tries = @ + 1] \in Call
           /\ [c EXCEPT !.pc = pc, !.new = n, !.origin = o, !.tries = 0] \in Call
  <1>1. MaxRetries \in Nat /\ "present" \in Origins /\ NoPair \in Token
    BY SessionsAssumption DEF Origins, Token
  <1>2. /\ c.kind \in {"none", "login", "refresh", "signOut"}
        /\ c.tab \in Tabs \union {NoTab} /\ c.token \in Token /\ c.new \in Token
        /\ c.origin \in Origins /\ c.tries \in 0 .. MaxRetries
        /\ c.pc \in {"check", "revoke", "insert", "alarm", "reply", "denied", "error"}
    BY DEF Call
  <1>t. /\ 0 \in 0 .. MaxRetries
        /\ c.tries < MaxRetries => c.tries + 1 \in 0 .. MaxRetries
    BY <1>1, <1>2
  <1>3. NoCall \in Call
    BY <1>1 DEF NoCall, Call
  <1>4. /\ [c EXCEPT !.pc = pc] \in Call
        /\ [c EXCEPT !.tab = NoTab] \in Call
        /\ [c EXCEPT !.origin = o] \in Call
        /\ [c EXCEPT !.pc = pc, !.origin = o] \in Call
        /\ [c EXCEPT !.pc = pc, !.token = n] \in Call
    BY <1>2 DEF Call
  <1>5. [c EXCEPT !.tab = NoTab, !.tries = 0] \in Call
    BY <1>2, <1>t DEF Call
  <1>6. c.tries < MaxRetries => [c EXCEPT !.pc = pc, !.tries = @ + 1] \in Call
    BY <1>2, <1>t DEF Call
  <1>7. [c EXCEPT !.pc = pc, !.new = n, !.origin = o, !.tries = 0] \in Call
    BY <1>2, <1>t DEF Call
  <1> QED
    BY <1>3, <1>4, <1>5, <1>6, <1>7

\* The initial state has its type.
LEMMA TypeInit == Init => TypeOK
  BY SessionsAssumption DEF Init, TypeOK, NoRow, Row, SignedOut, Idle, NoCall, Call,
     Access, Origins, Token, NoPair, Pairs

\* What a statement writes into a row keeps it a row of the same family.
LEMMA RowEdits ==
    ASSUME NEW r \in Row
    PROVE  /\ Revoked(r) \in Row
           /\ [r EXCEPT !.state = "expired"] \in Row
           /\ Past(r) \in Row
           /\ NoRow \in Row
  BY DEF Row, Revoked, Past, NoRow, Origins, Token, NoPair

\* Revoking every session leaves rows.
LEMMA AllRevokedType == TypeOK => AllRevoked \in [Pairs -> Row]
  BY RowEdits DEF TypeOK, AllRevoked

\* A statement of a handler keeps the types.
LEMMA TypeServer ==
    ASSUME TypeOK, IInv, NEW s \in Slots, ServerStep(s)
    PROVE  TypeOK'
  <1> DEFINE c == calls[s]
             row == [state |-> "live", parent |-> c.token,
                     family |-> IF c.token = NoPair THEN issued + 1
                                ELSE sessions[c.token].family,
                     origin |-> c.origin]
  <1>c. TypeOK /\ c \in Call /\ calls \in [Slots -> Call]
    BY DEF IInv, TypeOK
  <1>p. \A pc \in {"check", "revoke", "insert", "alarm", "reply", "denied", "error"} :
          [calls EXCEPT ![s].pc = pc] \in [Slots -> Call]
    BY <1>c, Edits DEF Token, Origins
  <1>1. CASE Insert(s)
    <2>1. issued + 1 \in Pairs
      BY <1>1 DEF Insert
    <2>2. row \in Row
      BY <2>1, <1>c DEF TypeOK, Call, Row, Token
    <2>3. sessions' = [sessions EXCEPT ![issued + 1] = row]
      BY <1>1 DEF Insert
    <2>4. sessions' \in [Pairs -> Row]
      <3> HIDE DEF row
      <3> QED BY <2>2, <2>3 DEF TypeOK
    <2>5. [c EXCEPT !.pc = "reply", !.new = issued + 1, !.origin = "present",
                    !.tries = 0] \in Call
      BY <2>1, <1>c, Edits DEF Token, Origins
    <2>6. calls' \in [Slots -> Call]
      BY <1>1, <1>c, <2>5 DEF Insert
    <2>7. issued' \in 0 .. MaxPairs
      BY <1>1, SessionsAssumption DEF Insert, Pairs
    <2> QED
      BY <1>1, <2>4, <2>6, <2>7 DEF Insert, TypeOK, client
  <1>2. CASE RefreshCheck(s)
    <2>1. c.token \in Pairs
      BY <1>2, SessionsAssumption DEF RefreshCheck, At, IInv, CallsInv, CallInv,
         Issued, TypeOK, Pairs
    <2>2. sessions[c.token].origin \in Origins
      BY <2>1, <1>c DEF TypeOK, Row
    <2>3. [c EXCEPT !.pc = "revoke", !.origin = sessions[c.token].origin] \in Call
      BY <2>1, <2>2, <1>c, Edits DEF Token
    <2>4. calls' \in [Slots -> Call]
      BY <1>2, <1>c, <1>p, <2>3 DEF RefreshCheck, MovesTo
    <2>5. raced' \in SUBSET Pairs
      BY <1>2, <1>c, <2>1 DEF RefreshCheck, TypeOK
    <2> QED
      BY <1>2, <1>c, <2>4, <2>5 DEF RefreshCheck, TypeOK, rows, client
  <1>3. CASE RefreshRevoke(s)
    <2>1. sessions' \in [Pairs -> Row]
      BY <1>3, RowEdits DEF RefreshRevoke, TypeOK
    <2> QED
      BY <1>3, <1>p, <2>1 DEF RefreshRevoke, MovesTo, TypeOK, client
  <1>4. CASE RefreshAlarm(s)
    BY <1>4, <1>p, AllRevokedType DEF RefreshAlarm, MovesTo, TypeOK, client
  <1>5. CASE SignOutRevoke(s)
    <2>1. sessions' \in [Pairs -> Row]
      BY <1>5, RowEdits DEF SignOutRevoke, TypeOK
    <2>2. [c EXCEPT !.pc = "reply", !.token = NoPair] \in Call
      BY <1>c, Edits DEF Token, Origins
    <2> QED
      BY <1>5, <1>c, <2>1, <2>2 DEF SignOutRevoke, TypeOK, client
  <1>6. CASE StatementFails(s)
    <2>1. [c EXCEPT !.pc = "error", !.origin = "present"] \in Call /\ NoCall \in Call
      BY <1>c, Edits DEF Token, Origins
    <2>2. calls' \in [Slots -> Call]
      BY <1>6, <1>c, <2>1 DEF StatementFails, Ends
    <2> QED
      BY <1>6, <2>2 DEF StatementFails, TypeOK, rows, client
  <1> QED
    BY <1>1, <1>2, <1>3, <1>4, <1>5, <1>6 DEF ServerStep

\* A failed refresh leaves tabs, calls and storage of their types.
LEMMA FailsType ==
    ASSUME TypeOK, NEW t \in Tabs, NEW s \in Slots, NEW rest \in [Slots -> Call],
           Fails(t, s, rest)
    PROVE  /\ tabs' \in [Tabs -> [pc : {"idle", "asking", "refreshing", "retrying"},
                                  mounted : Access]]
           /\ calls' \in [Slots -> Call]
           /\ storage' \in [Browsers -> [access : Access, refresh : Token]]
  <1>1. Idle \in [pc : {"idle", "asking", "refreshing", "retrying"}, mounted : Access]
    BY DEF Idle, Access
  <1>2. SignedOut \in [access : Access, refresh : Token]
    BY DEF SignedOut, Access, Token
  <1>3. Home[t] \in Browsers
    BY SessionsAssumption
  <1>4. storage[Home[t]].refresh \in Token
    BY <1>3 DEF TypeOK
  <1>5. NoCall \in Call
    BY SessionsAssumption DEF NoCall, Call, Token, Origins
  <1>6. SigningOut(t) \in Call
    BY <1>4, <1>5 DEF SigningOut, NoCall, Call
  <1> QED
    BY <1>1, <1>2, <1>5, <1>6 DEF Fails, Forget, TypeOK

\* An answer, or the end of waiting for one, keeps the types.
LEMMA TypeReply ==
    ASSUME TypeOK, IInv, NEW s \in Slots, ReplyStep(s)
    PROVE  TypeOK'
  <1> DEFINE c == calls[s]
  <1>c. TypeOK /\ c \in Call /\ calls \in [Slots -> Call]
    BY DEF IInv, TypeOK
  <1>n. NoCall \in Call
    BY <1>c, Edits DEF Token, Origins
  <1>e. Ends(s) => calls' \in [Slots -> Call]
    BY <1>c, <1>n DEF Ends
  <1>t. c.tab \in Tabs \union {NoTab} /\ c.new \in Token
    BY <1>c DEF Call
  <1>p. \A pc \in {"check", "revoke", "insert", "alarm", "reply", "denied", "error"} :
          [calls EXCEPT ![s].pc = pc] \in [Slots -> Call]
    BY <1>c, Edits DEF Token, Origins
  <1>k. [access |-> "good", refresh |-> c.new] \in [access : Access, refresh : Token]
    BY <1>t DEF Access
  <1>i. Idle \in [pc : {"idle", "asking", "refreshing", "retrying"}, mounted : Access]
    BY DEF Idle, Access
  <1>f. SignedOut \in [access : Access, refresh : Token]
    BY DEF SignedOut, Access, Token
  <1>1. CASE LoginReply(s)
    <2>1. storage' \in [Browsers -> [access : Access, refresh : Token]]
      BY <1>1, <1>k DEF LoginReply, TypeOK
    <2> QED
      BY <1>1, <1>e, <2>1 DEF LoginReply, TypeOK, rows
  <1>2. CASE LoginReplyLost(s)
    BY <1>2, <1>e DEF LoginReplyLost, TypeOK, rows, client
  <1>3. CASE RefreshReply(s)
    <2>1. storage' \in [Browsers -> [access : Access, refresh : Token]]
      BY <1>3, <1>k DEF RefreshReply, TypeOK
    <2>2. c.tab \in Tabs
      BY <1>3, <1>t DEF RefreshReply
    <2>3. tabs' \in [Tabs -> [pc : {"idle", "asking", "refreshing", "retrying"},
                              mounted : Access]]
      BY <1>3, <1>i, <2>2 DEF RefreshReply, TypeOK
    <2> QED
      BY <1>3, <1>e, <2>1, <2>3 DEF RefreshReply, TypeOK, rows
  <1>4. CASE RefreshFails(s)
    <2>1. CASE c.pc = "error" /\ c.tries < MaxRetries /\ UNCHANGED <<storage, tabs>>
               /\ calls' = [calls EXCEPT ![s].pc = "check", ![s].tries = @ + 1]
      <3>1. [c EXCEPT !.pc = "check", !.tries = @ + 1] \in Call
        BY <1>c, <2>1, Edits DEF Token, Origins
      <3>2. calls' \in [Slots -> Call]
        BY <1>c, <2>1, <3>1
      <3> QED
        BY <1>4, <2>1, <3>2 DEF RefreshFails, TypeOK, rows
    <2>2. CASE Fails(c.tab, s, calls)
      <3>1. c.tab \in Tabs
        BY <1>4, <1>t DEF RefreshFails
      <3> QED
        BY <1>4, <1>c, <2>2, <3>1, FailsType DEF RefreshFails, TypeOK, rows
    <2> QED
      BY <1>4, <2>1, <2>2 DEF RefreshFails
  <1>5. CASE Unheard(s)
    BY <1>5, <1>e DEF Unheard, TypeOK, rows, client
  <1>6. CASE SignOutEnds(s)
    <2>1. [c EXCEPT !.tab = NoTab] \in Call
      BY <1>c, Edits DEF Token, Origins
    <2>2. calls' \in [Slots -> Call]
      BY <1>6, <1>c, <1>e, <2>1 DEF SignOutEnds
    <2> QED
      BY <1>6, <1>f, <2>2 DEF SignOutEnds, Forget, TypeOK, rows
  <1>7. CASE SignOutUnheard(s)
    BY <1>7, <1>e DEF SignOutUnheard, TypeOK, rows, client
  <1>8. ASSUME NEW x \in Slots, CutOff(s, x) PROVE TypeOK'
    <2>1. [c EXCEPT !.tab = NoTab, !.tries = 0] \in Call
      BY <1>c, Edits DEF Token, Origins
    <2>2. [calls EXCEPT ![s].tab = NoTab, ![s].tries = 0] \in [Slots -> Call]
      BY <1>c, <2>1
    <2>3. c.tab \in Tabs
      BY <1>8, <1>t DEF CutOff
    <2> QED
      BY <1>8, <2>2, <2>3, FailsType DEF CutOff, TypeOK, rows
  <1> QED
    BY <1>1, <1>2, <1>3, <1>4, <1>5, <1>6, <1>7, <1>8 DEF ReplyStep

\* A request of a tab keeps the types.
LEMMA TypeTab ==
    ASSUME TypeOK, NEW t \in Tabs, TabStep(t)
    PROVE  TypeOK'
  <1> DEFINE TabState == [pc : {"idle", "asking", "refreshing", "retrying"},
                          mounted : Access]
  <1>i. Idle \in TabState /\ tabs \in [Tabs -> TabState]
    BY DEF Idle, Access, TypeOK
  <1>h. Home[t] \in Browsers /\ storage[Home[t]] \in [access : Access, refresh : Token]
    BY SessionsAssumption DEF TypeOK
  <1>n. NoCall \in Call /\ calls \in [Slots -> Call]
    BY SessionsAssumption DEF NoCall, Call, Token, Origins, TypeOK
  <1>1. CASE Ask(t)
    BY <1>1, <1>i DEF Ask, TypeOK, rows
  <1>2. CASE Mount(t)
    BY <1>2, <1>i, <1>h DEF Mount, TypeOK, rows
  <1>3. CASE Verified(t)
    BY <1>3, <1>i, <1>h DEF Verified, TypeOK, rows
  <1>4. ASSUME NEW s \in Slots, LoginCheck(s, t) PROVE TypeOK'
    <2>1. [NoCall EXCEPT !.kind = "login", !.pc = "insert", !.tab = t] \in Call
      BY <1>n DEF NoCall, Call
    <2> QED
      BY <1>4, <1>n, <2>1 DEF LoginCheck, Opens, TypeOK, rows, client
  <1>5. ASSUME NEW s \in Slots, Denied401(t, s) PROVE TypeOK'
    <2>1. CASE Fails(t, s, calls)
      BY <1>5, <1>n, <2>1, FailsType DEF Denied401, TypeOK, rows
    <2>2. CASE /\ calls' = [calls EXCEPT ![s] =
                    [NoCall EXCEPT !.kind = "refresh", !.tab = t,
                                   !.token = storage[Home[t]].refresh]]
               /\ tabs' = [tabs EXCEPT ![t].pc = "refreshing"]
               /\ UNCHANGED storage
      <3>1. [NoCall EXCEPT !.kind = "refresh", !.tab = t,
                           !.token = storage[Home[t]].refresh] \in Call
        BY <1>n, <1>h DEF NoCall, Call
      <3> QED
        BY <1>5, <1>n, <1>i, <2>2, <3>1 DEF Denied401, TypeOK, rows
    <2> QED
      BY <1>5, <2>1, <2>2 DEF Denied401, Opens
  <1>6. ASSUME NEW s \in Slots, SignOut(t, s) PROVE TypeOK'
    <2>1. SigningOut(t) \in Call
      BY <1>n, <1>h DEF SigningOut, NoCall, Call
    <2> QED
      BY <1>6, <1>n, <2>1 DEF SignOut, Opens, TypeOK, rows, client
  <1> QED
    BY <1>1, <1>2, <1>3, <1>4, <1>5, <1>6 DEF TabStep

\* Time and the rabbi's other requests keep the types.
LEMMA TypeOther ==
    ASSUME TypeOK, RabbiStep \/ TimeStep
    PROVE  TypeOK'
  <1>1. CASE ResetPassword
    <2>1. \A n \in Pairs : Past(AllRevoked[n]) \in Row
      BY AllRevokedType, RowEdits
    <2>2. \A s \in Slots : [calls[s] EXCEPT !.origin = "overtaken"] \in Call
      BY Edits DEF TypeOK, Token, Origins
    <2> QED
      BY <1>1, <2>1, <2>2 DEF ResetPassword, TypeOK, client
  <1>2. ASSUME NEW b \in Browsers, LogoutAll(b) PROVE TypeOK'
    BY <1>2, AllRevokedType DEF LogoutAll, TypeOK, client
  <1>3. ASSUME NEW b \in Browsers, NEW n \in Pairs, RevokeOne(b, n) PROVE TypeOK'
    BY <1>3, RowEdits DEF RevokeOne, TypeOK, client
  <1>4. ASSUME NEW b \in Browsers, AccessExpires(b) PROVE TypeOK'
    BY <1>4 DEF AccessExpires, TypeOK, rows, Access
  <1>5. ASSUME NEW n \in Pairs, SessionExpires(n) PROVE TypeOK'
    BY <1>5, RowEdits DEF SessionExpires, TypeOK, client
  <1> QED
    BY <1>1, <1>2, <1>3, <1>4, <1>5 DEF RabbiStep, TimeStep

\* Every step keeps the types.
LEMMA TypeStep == IInv /\ [Next]_vars => TypeOK'
  <1> SUFFICES ASSUME IInv, [Next]_vars PROVE TypeOK'
    OBVIOUS
  <1>1. TypeOK
    BY DEF IInv
  <1>2. CASE UNCHANGED vars
    BY <1>1, <1>2 DEF vars, TypeOK
  <1> QED
    BY <1>1, <1>2, TypeServer, TypeReply, TypeTab, TypeOther DEF Next

------------------------------------------------------------------------------
(* What a step does to the rows and to the calls that may insert one.      *)

\* no row is new, none comes back to life, none changes its family
Lowered ==
    /\ issued' = issued
    /\ raced' = raced
    /\ \A n \in Pairs :
         /\ sessions'[n].family = sessions[n].family
         /\ sessions'[n].parent = sessions[n].parent
         /\ sessions'[n].state = "none" <=> sessions[n].state = "none"
         /\ sessions'[n].state = "live" =>
              sessions[n].state = "live" /\ sessions'[n].origin = sessions[n].origin

\* call s is not past its check, or was there before with the same token
Follows(s) ==
    LET c == calls[s]
        d == calls'[s]
    IN  d.kind \in {"login", "refresh"} /\ d.pc \in {"revoke", "insert"} =>
          /\ d.origin # "past"
          /\ d.kind = "refresh" =>
               /\ c.kind = "refresh"
               /\ d.token = c.token
               /\ \/ d.pc = c.pc
                  \/ /\ c.pc = "revoke"
                     /\ d.pc = "insert"
                     /\ sessions'[c.token].state # "live"

\* A call a step leaves alone is where it was.
LEMMA SameFollows ==
    ASSUME OriginInv, NEW s \in Slots, calls'[s] = calls[s]
    PROVE  Follows(s)
  BY DEF OriginInv, Follows, Writing

\* A step that touches no row creates none.
LEMMA SameRows == ASSUME UNCHANGED <<rows, raced>> PROVE Lowered
  BY DEF Lowered, rows

\* a token of a call that is to use it is the number of a row
LEMMA TokenIssued ==
    ASSUME TypeOK, IInv, NEW s \in Slots,
           calls[s].kind = "refresh" \/ At(s, "signOut", "check")
    PROVE  /\ calls[s].token \in Pairs
           /\ sessions[calls[s].token].state # "none"
  <1>1. calls[s].token \in Issued
    BY DEF IInv, CallsInv, CallInv, At
  <1>2. calls[s].token \in Pairs
    BY <1>1, SessionsAssumption DEF Issued, Pairs, TypeOK
  <1> QED
    BY <1>1, <1>2 DEF IInv, RowsInv

\* Revoking every session, and marking them past, revives and renumbers none.
LEMMA LoweredByAll ==
    ASSUME TypeOK, NEW n \in Pairs
    PROVE  LET r == AllRevoked[n] IN
             /\ r.family = sessions[n].family /\ r.parent = sessions[n].parent
             /\ r.state = "none" <=> sessions[n].state = "none"
             /\ r.state # "live"
             /\ Past(r).family = r.family /\ Past(r).parent = r.parent
             /\ Past(r).state = r.state
  BY DEF AllRevoked, Revoked, Past, TypeOK, Row

\* A statement of a handler lowers rows, inserts one, or finds one live.
LEMMA ServerShape ==
    ASSUME TypeOK, IInv, NEW s \in Slots, ServerStep(s)
    PROVE  \/ Lowered /\ \A x \in Slots : Follows(x)
           \/ Insert(s)
           \/ RefreshCheck(s) /\ sessions[calls[s].token].state = "live"
  <1>c. calls \in [Slots -> Call] /\ OriginInv
    BY DEF TypeOK, IInv
  <1>s. \A x \in Slots \ {s} : calls'[x] = calls[x] => Follows(x)
    BY SameFollows DEF IInv
  <1>1. CASE RefreshCheck(s)
    <2>1. CASE sessions[calls[s].token].state # "live"
      <3>0. PICK pc \in {"alarm", "denied"} : calls' = [calls EXCEPT ![s].pc = pc]
        BY <1>1, <2>1 DEF RefreshCheck, MovesTo
      <3>1. Follows(s) /\ \A x \in Slots \ {s} : calls'[x] = calls[x]
        BY <1>c, <3>0 DEF Call, Follows
      <3>2. Lowered
        BY <1>1, <2>1, SameRows DEF RefreshCheck
      <3> QED
        BY <1>s, <3>1, <3>2
    <2> QED
      BY <1>1, <2>1
  <1>2. CASE RefreshRevoke(s)
    <2>1. calls[s].token \in Pairs /\ sessions[calls[s].token].state # "none"
      BY <1>2, TokenIssued DEF RefreshRevoke, At
    <2>2. Lowered
      BY <1>2, <2>1 DEF RefreshRevoke, Lowered, Revoked, TypeOK, Row
    <2>3. sessions'[calls[s].token].state # "live"
      BY <1>2, <2>1 DEF RefreshRevoke, Revoked, TypeOK, Row
    <2>4. calls[s].origin # "past"
      BY <1>2, <1>c DEF RefreshRevoke, At, OriginInv, Writing
    <2>5. Follows(s) /\ \A x \in Slots \ {s} : calls'[x] = calls[x]
      BY <1>2, <1>c, <2>3, <2>4 DEF RefreshRevoke, At, MovesTo, Follows, Call
    <2> QED
      BY <1>s, <2>2, <2>5
  <1>3. CASE RefreshAlarm(s)
    <2>1. Lowered
      BY <1>3, LoweredByAll DEF RefreshAlarm, Lowered
    <2>2. Follows(s) /\ \A x \in Slots \ {s} : calls'[x] = calls[x]
      BY <1>3, <1>c DEF RefreshAlarm, MovesTo, Follows
    <2> QED
      BY <1>s, <2>1, <2>2
  <1>4. CASE SignOutRevoke(s)
    <2>1. calls[s].token \in Pairs /\ sessions[calls[s].token].state # "none"
      BY <1>4, TokenIssued DEF SignOutRevoke
    <2>2. Lowered
      BY <1>4, <2>1 DEF SignOutRevoke, Lowered, Revoked, TypeOK, Row
    <2>3. Follows(s) /\ \A x \in Slots \ {s} : calls'[x] = calls[x]
      BY <1>4, <1>c DEF SignOutRevoke, Follows
    <2> QED
      BY <1>s, <2>2, <2>3
  <1>5. CASE StatementFails(s)
    <2>1. Lowered
      BY <1>5, SameRows DEF StatementFails
    <2>2. Follows(s) /\ \A x \in Slots \ {s} : calls'[x] = calls[x]
      <3>1. CASE calls' = [calls EXCEPT ![s].pc = "error", ![s].origin = "present"]
        BY <1>c, <3>1 DEF Call, Follows
      <3>2. CASE calls' = [calls EXCEPT ![s] = NoCall]
        BY <1>c, <3>2 DEF NoCall, Follows
      <3> QED
        BY <1>5, <3>1, <3>2 DEF StatementFails, Ends
    <2> QED
      BY <1>s, <2>1, <2>2
  <1> QED
    BY <1>1, <1>2, <1>3, <1>4, <1>5 DEF ServerStep

\* what logout() after a failed refresh leaves in the slots
LEMMA FailsShape ==
    ASSUME TypeOK, IInv, NEW t \in Tabs, NEW s \in Slots,
           NEW rest \in [Slots -> Call], Fails(t, s, rest)
    PROVE  /\ calls'[s].kind \in {"none", "signOut"}
           /\ \A x \in Slots \ {s} : calls'[x] = rest[x]
           /\ \/ calls'[s] = NoCall
              \/ calls'[s] = SigningOut(t) /\ storage[Home[t]].refresh # NoPair
           /\ \/ storage' = storage
              \/ storage' = [storage EXCEPT ![Home[t]] = SignedOut]
  <1>1. \/ calls' = [rest EXCEPT ![s] = NoCall]
        \/ /\ calls' = [rest EXCEPT ![s] = SigningOut(t)]
           /\ storage[Home[t]].refresh # NoPair
    BY DEF Fails
  <1>3. \/ storage' = storage
        \/ storage' = [storage EXCEPT ![Home[t]] = SignedOut]
    BY DEF Fails, Forget
  <1>2. NoCall.kind = "none" /\ SigningOut(t).kind = "signOut"
    BY DEF NoCall, SigningOut
  <1> QED
    BY <1>1, <1>2, <1>3

\* A tab writes no row and moves no call past its check.
LEMMA ClientShape ==
    ASSUME TypeOK, IInv,
           \/ \E s \in Slots : ReplyStep(s)
           \/ \E t \in Tabs : TabStep(t)
    PROVE  Lowered /\ \A x \in Slots : Follows(x)
  <1>c. calls \in [Slots -> Call] /\ OriginInv
    BY DEF TypeOK, IInv
  <1>s. \A x \in Slots : calls'[x] = calls[x] => Follows(x)
    BY SameFollows DEF IInv
  <1>e. \A s, x \in Slots : Ends(s) => Follows(x)
    BY <1>c, <1>s DEF Ends, NoCall, Follows
  <1>1. Lowered
    BY SameRows DEF ReplyStep, TabStep, LoginReply, LoginReplyLost, RefreshReply,
       RefreshFails, Unheard, SignOutEnds, SignOutUnheard, CutOff, Ask, Mount,
       Verified, LoginCheck, Denied401, SignOut
  <1>2. ASSUME NEW s \in Slots, ReplyStep(s), NEW x \in Slots
        PROVE  Follows(x)
    <2>1. CASE Ends(s)
      BY <1>e, <2>1
    <2>2. CASE RefreshFails(s)
      <3>1. CASE calls' = [calls EXCEPT ![s].pc = "check", ![s].tries = @ + 1]
        BY <1>c, <1>s, <3>1 DEF Follows
      <3>2. CASE calls[s].tab \in Tabs /\ Fails(calls[s].tab, s, calls)
        <4>1. calls'[s].kind \in {"none", "signOut"}
              /\ \A y \in Slots \ {s} : calls'[y] = calls[y]
          BY <1>c, <3>2, FailsShape
        <4> QED
          BY <1>s, <4>1 DEF Follows
      <3> QED
        BY <1>c, <2>2, <3>1, <3>2 DEF RefreshFails, Call
    <2>3. CASE SignOutEnds(s) /\ calls' = [calls EXCEPT ![s].tab = NoTab]
      BY <1>c, <1>s, <2>3 DEF SignOutEnds, Follows
    <2>4. ASSUME NEW y \in Slots, CutOff(s, y)
          PROVE  Follows(x)
      <3> DEFINE rest == [calls EXCEPT ![s].tab = NoTab, ![s].tries = 0]
      <3>1. rest \in [Slots -> Call]
        <4>1. [calls[s] EXCEPT !.tab = NoTab, !.tries = 0] \in Call
          BY <1>c, Edits DEF Token, Origins
        <4> QED
          BY <1>c, <4>1
      <3>2. calls[s].tab \in Tabs
        BY <1>c, <2>4 DEF CutOff, Call
      <3>3. /\ calls'[y].kind \in {"none", "signOut"}
            /\ \A z \in Slots \ {y} : calls'[z] = rest[z]
        <4>1. Fails(calls[s].tab, y, rest)
          BY <2>4 DEF CutOff
        <4> HIDE DEF rest
        <4> QED
          BY <3>1, <3>2, <4>1, FailsShape
      <3>4. x # s /\ x # y => calls'[x] = calls[x]
        BY <1>c, <3>3
      <3>5. x = s /\ x # y => Follows(x)
        <4>1. x = s /\ x # y => calls'[x] = [calls[s] EXCEPT !.tab = NoTab, !.tries = 0]
          BY <1>c, <3>3
        <4>2. x = s /\ x # y => /\ calls'[x].kind = calls[x].kind
                                /\ calls'[x].pc = calls[x].pc
                                /\ calls'[x].token = calls[x].token
                                /\ calls'[x].origin = calls[x].origin
          BY <1>c, <4>1 DEF Call
        <4> QED
          BY <1>c, <4>2 DEF Follows, OriginInv, Writing
      <3>6. x = y => Follows(x)
        BY <3>3 DEF Follows
      <3> QED
        BY <1>s, <3>4, <3>5, <3>6
    <2> QED
      BY <1>2, <2>1, <2>2, <2>3, <2>4 DEF ReplyStep, LoginReply, LoginReplyLost,
         RefreshReply, Unheard, SignOutEnds, SignOutUnheard
  <1>3. ASSUME NEW t \in Tabs, TabStep(t), NEW x \in Slots
        PROVE  Follows(x)
    <2>1. CASE UNCHANGED calls
      BY <1>s, <2>1
    <2>2. ASSUME NEW s \in Slots, LoginCheck(s, t) PROVE Follows(x)
      BY <1>c, <1>s, <2>2 DEF LoginCheck, Opens, NoCall, Follows
    <2>3. ASSUME NEW s \in Slots, Denied401(t, s) PROVE Follows(x)
      <3>1. CASE Fails(t, s, calls)
        <4>1. calls'[s].kind \in {"none", "signOut"}
              /\ \A y \in Slots \ {s} : calls'[y] = calls[y]
          BY <1>c, <3>1, FailsShape
        <4> QED
          BY <1>s, <4>1 DEF Follows
      <3>2. CASE Opens(s, [NoCall EXCEPT !.kind = "refresh", !.tab = t,
                                         !.token = storage[Home[t]].refresh])
        BY <1>c, <1>s, <3>2 DEF Opens, NoCall, Follows
      <3> QED
        BY <2>3, <3>1, <3>2 DEF Denied401
    <2>4. ASSUME NEW s \in Slots, SignOut(t, s) PROVE Follows(x)
      BY <1>c, <1>s, <2>4 DEF SignOut, Opens, SigningOut, NoCall, Follows
    <2> QED
      BY <1>3, <2>1, <2>2, <2>3, <2>4 DEF TabStep, Ask, Mount, Verified
  <1> QED
    BY <1>1, <1>2, <1>3

\* Revocations, a reset and time lower rows and move no call past its check.
LEMMA OtherShape ==
    ASSUME TypeOK, IInv, RabbiStep \/ TimeStep \/ UNCHANGED vars
    PROVE  Lowered /\ \A x \in Slots : Follows(x)
  <1>c. calls \in [Slots -> Call] /\ OriginInv
    BY DEF TypeOK, IInv
  <1>s. \A x \in Slots : calls'[x] = calls[x] => Follows(x)
    BY SameFollows DEF IInv
  <1>1. CASE ResetPassword
    <2>1. Lowered
      BY <1>1, LoweredByAll DEF ResetPassword, Lowered
    <2>2. \A x \in Slots : Follows(x)
      BY <1>1, <1>c DEF ResetPassword, Credited, Follows
    <2> QED
      BY <2>1, <2>2
  <1>2. ASSUME NEW b \in Browsers, LogoutAll(b)
        PROVE  Lowered /\ \A x \in Slots : Follows(x)
    BY <1>2, <1>s, LoweredByAll DEF LogoutAll, Lowered
  <1>3. ASSUME NEW b \in Browsers, NEW n \in Pairs, RevokeOne(b, n)
        PROVE  Lowered /\ \A x \in Slots : Follows(x)
    BY <1>3, <1>s DEF RevokeOne, Lowered, Revoked, TypeOK, Row
  <1>4. ASSUME NEW b \in Browsers, AccessExpires(b)
        PROVE  Lowered /\ \A x \in Slots : Follows(x)
    BY <1>4, <1>s, SameRows DEF AccessExpires
  <1>5. ASSUME NEW n \in Pairs, SessionExpires(n)
        PROVE  Lowered /\ \A x \in Slots : Follows(x)
    BY <1>5, <1>s DEF SessionExpires, Lowered, TypeOK, Row
  <1>6. CASE UNCHANGED vars
    BY <1>6, <1>s, SameRows DEF vars, rows
  <1> QED
    BY <1>1, <1>2, <1>3, <1>4, <1>5, <1>6 DEF RabbiStep, TimeStep

\* What any step does: it lowers rows, inserts one, or finds one live.
LEMMA Shape ==
    ASSUME TypeOK, IInv, [Next]_vars
    PROVE  \/ Lowered /\ \A x \in Slots : Follows(x)
           \/ \E s \in Slots :
                \/ Insert(s)
                \/ RefreshCheck(s) /\ sessions[calls[s].token].state = "live"
  <1>1. CASE \E s \in Slots : ServerStep(s)
    BY <1>1, ServerShape
  <1>2. CASE (\E s \in Slots : ReplyStep(s)) \/ (\E t \in Tabs : TabStep(t))
    BY <1>2, ClientShape
  <1>3. CASE RabbiStep \/ TimeStep \/ UNCHANGED vars
    BY <1>3, OtherShape
  <1> QED
    BY <1>1, <1>2, <1>3 DEF Next
------------------------------------------------------------------------------
(* Rows and calls.                                                         *)

\* The numbers issued are pairs, and stay issued.
LEMMA IssuedPairs ==
    ASSUME TypeOK
    PROVE  /\ issued \in Nat
           /\ Issued \subseteq Pairs
           /\ issued' = issued \/ issued' = issued + 1 => Issued \subseteq Issued'
  BY SessionsAssumption DEF TypeOK, Issued, Pairs

\* A row is there when its number is issued, and its family is one of the rows.
LEMMA RowsStep ==
    ASSUME TypeOK, IInv, [Next]_vars
    PROVE  RowsInv'
  <1>r. RowsInv /\ Issued \subseteq Pairs /\ issued \in Nat
    BY IssuedPairs DEF IInv
  <1>1. CASE Lowered
    BY <1>1, <1>r DEF Lowered, RowsInv, Issued
  <1>2. ASSUME NEW s \in Slots, Insert(s) PROVE RowsInv'
    <2> DEFINE n == issued + 1
               family == IF calls[s].token = NoPair THEN n ELSE sessions[calls[s].token].family
    <2>1. n \in Pairs /\ Issued' = Issued \union {n} /\ n \notin Issued
      BY <1>2, <1>r DEF Insert, Issued
    <2>2. family \in Issued'
      <3>1. calls[s].token \in Issued \union {NoPair}
        BY <1>2 DEF Insert, IInv, CallsInv, CallInv
      <3> QED
        BY <1>r, <2>1, <3>1 DEF RowsInv, NoPair
    <2>3. /\ sessions'[n].state = "live"
          /\ sessions'[n].family = family
          /\ \A m \in Pairs \ {n} : sessions'[m] = sessions[m]
      BY <1>2, <2>1 DEF Insert, TypeOK
    <2>4. \A m \in Pairs : sessions'[m].state # "none" <=> m \in Issued'
      BY <1>r, <2>1, <2>3 DEF RowsInv
    <2>5. \A m \in Issued' : sessions'[m].family \in Issued'
      BY <1>r, <2>1, <2>2, <2>3 DEF RowsInv
    <2> QED
      BY <2>4, <2>5 DEF RowsInv
  <1>3. ASSUME NEW s \in Slots, RefreshCheck(s) PROVE RowsInv'
    BY <1>3, <1>r DEF RefreshCheck, rows, RowsInv, Issued
  <1> QED
    BY <1>1, <1>2, <1>3, Shape

\* What a step leaves alone stays in order.
LEMMA CallsKept ==
    ASSUME TypeOK, IInv, issued' = issued \/ issued' = issued + 1
    PROVE  /\ \A x \in Slots : calls'[x] = calls[x] => CallInv(x)'
           /\ \A b \in Browsers : storage'[b].refresh \in {storage[b].refresh, NoPair}
                => storage'[b].refresh \in Issued' \union {NoPair}
  <1>1. Issued \subseteq Issued' /\ CallsInv
    BY IssuedPairs DEF IInv
  <1>2. ASSUME NEW x \in Slots, calls'[x] = calls[x] PROVE CallInv(x)'
    BY <1>1, <1>2 DEF CallsInv, CallInv, Answering
  <1>3. ASSUME NEW b \in Browsers, storage'[b].refresh \in {storage[b].refresh, NoPair}
        PROVE  storage'[b].refresh \in Issued' \union {NoPair}
    BY <1>1, <1>3 DEF CallsInv
  <1> QED
    BY <1>2, <1>3

\* A slot that is empty, or a sign-out with a token a browser had, is in order.
LEMMA CallFresh ==
    ASSUME TypeOK, IInv, issued' = issued, NEW x \in Slots, NEW t \in Tabs,
           \/ calls'[x] = NoCall
           \/ calls'[x] = SigningOut(t) /\ storage[Home[t]].refresh # NoPair
    PROVE  CallInv(x)'
  <1>1. CASE calls'[x] = NoCall
    BY <1>1 DEF NoCall, CallInv, Answering
  <1>2. CASE calls'[x] = SigningOut(t) /\ storage[Home[t]].refresh # NoPair
    <2>1. storage[Home[t]].refresh \in Issued' /\ Issued' = Issued
      BY <1>2, SessionsAssumption DEF IInv, CallsInv, Issued
    <2>2. /\ calls'[x].kind = "signOut" /\ calls'[x].pc = "check"
          /\ calls'[x].token = storage[Home[t]].refresh
      BY <1>2 DEF SigningOut, NoCall
    <2> QED
      BY <2>1, <2>2 DEF CallInv, Answering
  <1> QED
    BY <1>1, <1>2

\* A statement of a handler leaves calls and storage in order.
LEMMA CallsServer ==
    ASSUME TypeOK, IInv, NEW s \in Slots, ServerStep(s)
    PROVE  CallsInv'
  <1>c. calls \in [Slots -> Call] /\ calls[s] \in Call /\ CallInv(s)
    BY DEF TypeOK, IInv, CallsInv
  <1>i. issued' = issued \/ issued' = issued + 1
    BY DEF ServerStep, Insert, RefreshCheck, RefreshRevoke, RefreshAlarm,
       SignOutRevoke, StatementFails, rows
  <1>b. storage' = storage
    BY DEF ServerStep, Insert, RefreshCheck, RefreshRevoke, RefreshAlarm,
       SignOutRevoke, StatementFails, client
  <1>p. issued \in Nat /\ Issued \subseteq Issued'
    BY <1>i, IssuedPairs
  <1>o. \A x \in Slots \ {s} : calls'[x] = calls[x]
    BY <1>c DEF ServerStep, Insert, RefreshCheck, RefreshRevoke, RefreshAlarm,
       SignOutRevoke, StatementFails, MovesTo, Ends
  <1>1. CASE Insert(s)
    <2>1. /\ calls'[s].kind = calls[s].kind /\ calls'[s].token = calls[s].token
          /\ calls'[s].tab = calls[s].tab /\ calls'[s].pc = "reply"
          /\ calls'[s].new = issued + 1
          /\ calls[s].kind \in {"login", "refresh"}
      BY <1>1, <1>c DEF Insert, Call
    <2>2. issued + 1 \in Issued'
      BY <1>1, <1>p DEF Insert, Issued
    <2>3. CallInv(s)'
      BY <1>c, <1>p, <2>1, <2>2 DEF CallInv, Answering
    <2> QED
      BY <1>b, <1>i, <1>o, <2>3, CallsKept DEF CallsInv
  <1> DEFINE Moves == calls'[s].kind = "refresh" /\ calls[s].kind = "refresh"
                      /\ calls'[s].token = calls[s].token /\ calls'[s].pc # "reply"
  <1>2. CASE Moves
    <2>1. CallInv(s)'
      BY <1>c, <1>p, <1>2 DEF CallInv, Answering
    <2> QED
      BY <1>b, <1>i, <1>o, <2>1, CallsKept DEF CallsInv
  <1>3. CASE SignOutRevoke(s)
    <2>1. calls'[s].kind = "signOut" /\ calls'[s].pc = "reply"
      BY <1>3, <1>c DEF SignOutRevoke, At, Call
    <2>2. CallInv(s)'
      BY <2>1 DEF CallInv, Answering
    <2> QED
      BY <1>b, <1>i, <1>o, <2>2, CallsKept DEF CallsInv
  <1>4. CASE calls'[s] = NoCall
    <2>1. CallInv(s)'
      BY <1>4 DEF NoCall, CallInv, Answering
    <2> QED
      BY <1>b, <1>i, <1>o, <2>1, CallsKept DEF CallsInv
  <1>5. RefreshCheck(s) \/ RefreshRevoke(s) \/ RefreshAlarm(s) => Moves
    BY <1>c DEF RefreshCheck, RefreshRevoke, RefreshAlarm, At, MovesTo, Call
  <1>6. StatementFails(s) => Moves \/ calls'[s] = NoCall
    BY <1>c DEF StatementFails, Ends, Call
  <1> QED
    BY <1>1, <1>2, <1>3, <1>4, <1>5, <1>6 DEF ServerStep

\* An answer, or the end of waiting for one, leaves calls and storage in order.
LEMMA CallsReply ==
    ASSUME TypeOK, IInv, NEW s \in Slots, ReplyStep(s)
    PROVE  CallsInv'
  <1>c. calls \in [Slots -> Call] /\ calls[s] \in Call /\ CallInv(s)
    BY DEF TypeOK, IInv, CallsInv
  <1>i. issued' = issued /\ Issued' = Issued
    BY DEF ReplyStep, LoginReply, LoginReplyLost, RefreshReply, RefreshFails,
       Unheard, SignOutEnds, SignOutUnheard, CutOff, rows, Issued
  <1>b. storage \in [Browsers -> [access : Access, refresh : Token]]
    BY DEF TypeOK
  <1>e. Ends(s) => \A x \in Slots : CallInv(x)'
    <2>1. Ends(s) => calls'[s] = NoCall /\ \A x \in Slots \ {s} : calls'[x] = calls[x]
      BY <1>c DEF Ends
    <2> QED
      BY <1>i, <2>1, CallsKept DEF NoCall, CallInv, Answering
  <1>k. storage' = storage \/ (\E b \in Browsers : Forget(b)) =>
          \A b \in Browsers : storage'[b].refresh \in Issued' \union {NoPair}
    <2>1. storage' = storage \/ (\E b \in Browsers : Forget(b)) =>
            \A b \in Browsers : storage'[b].refresh \in {storage[b].refresh, NoPair}
      BY <1>b DEF Forget, SignedOut
    <2> QED
      BY <1>i, <2>1, CallsKept
  <1>f. \A t \in Tabs, y \in Slots, rest \in [Slots -> Call] :
          Fails(t, y, rest) /\ (\A x \in Slots \ {y} : rest[x] = calls[x] \/ (x = s /\ CallInv(s)'))
            => CallsInv'
    <2> SUFFICES ASSUME NEW t \in Tabs, NEW y \in Slots, NEW rest \in [Slots -> Call],
                        Fails(t, y, rest),
                        \A x \in Slots \ {y} : rest[x] = calls[x] \/ (x = s /\ CallInv(s)')
                 PROVE  CallsInv'
      OBVIOUS
    <2>1. CallInv(y)'
      BY <1>i, FailsShape, CallFresh
    <2>2. \A x \in Slots \ {y} : CallInv(x)'
      BY <1>i, FailsShape, CallsKept
    <2>3. \A b \in Browsers : storage'[b].refresh \in Issued' \union {NoPair}
      BY <1>k, FailsShape, SessionsAssumption DEF Forget
    <2> QED
      BY <2>1, <2>2, <2>3 DEF CallsInv
  <1>1. CASE LoginReply(s) \/ RefreshReply(s)
    <2>1. Ends(s) /\ calls[s].new \in Issued /\ calls[s].tab \in Tabs
      BY <1>1, <1>c DEF LoginReply, RefreshReply, At, CallInv, Answering, Call
    <2>2. storage' = [storage EXCEPT ![Home[calls[s].tab]] =
                         [access |-> "good", refresh |-> calls[s].new]]
      BY <1>1 DEF LoginReply, RefreshReply
    <2>3. \A b \in Browsers : storage'[b].refresh \in {storage[b].refresh, calls[s].new}
      BY <1>b, <2>2
    <2>4. \A b \in Browsers : storage'[b].refresh \in Issued' \union {NoPair}
      BY <1>i, <2>1, <2>3 DEF IInv, CallsInv
    <2> QED
      BY <1>e, <2>1, <2>4 DEF CallsInv
  <1>2. CASE LoginReplyLost(s) \/ Unheard(s) \/ SignOutUnheard(s)
    BY <1>2, <1>e, <1>k DEF LoginReplyLost, Unheard, SignOutUnheard, client, CallsInv
  <1>3. CASE RefreshFails(s)
    <2>1. CASE /\ calls' = [calls EXCEPT ![s].pc = "check", ![s].tries = @ + 1]
               /\ UNCHANGED storage
      <3>1. /\ calls'[s].kind = "refresh" /\ calls[s].kind = "refresh"
            /\ calls'[s].token = calls[s].token /\ calls'[s].pc = "check"
            /\ \A x \in Slots \ {s} : calls'[x] = calls[x]
        BY <1>3, <1>c, <2>1 DEF RefreshFails, Call
      <3>2. CallInv(s)'
        BY <1>c, <1>i, <3>1 DEF CallInv, Answering
      <3> QED
        BY <1>i, <1>k, <2>1, <3>1, <3>2, CallsKept DEF CallsInv
    <2>2. CASE Fails(calls[s].tab, s, calls)
      BY <1>3, <1>c, <1>f, <2>2 DEF RefreshFails, Call
    <2> QED
      BY <1>3, <2>1, <2>2 DEF RefreshFails
  <1>4. CASE SignOutEnds(s)
    <2>1. Home[calls[s].tab] \in Browsers /\ Forget(Home[calls[s].tab])
      BY <1>4, <1>c, SessionsAssumption DEF SignOutEnds, Call
    <2>2. CASE Ends(s)
      BY <1>e, <1>k, <2>1, <2>2 DEF CallsInv
    <2>3. CASE calls' = [calls EXCEPT ![s].tab = NoTab]
      <3>1. /\ calls'[s].kind = "signOut" /\ calls[s].kind = "signOut"
            /\ calls'[s].token = calls[s].token /\ calls'[s].pc = calls[s].pc
            /\ \A x \in Slots \ {s} : calls'[x] = calls[x]
        BY <1>4, <1>c, <2>3 DEF SignOutEnds, Call
      <3>2. CallInv(s)'
        BY <1>c, <1>i, <3>1 DEF CallInv, Answering
      <3> QED
        BY <1>i, <1>k, <2>1, <3>1, <3>2, CallsKept DEF CallsInv
    <2> QED
      BY <1>4, <2>2, <2>3 DEF SignOutEnds
  <1>5. ASSUME NEW y \in Slots, CutOff(s, y) PROVE CallsInv'
    <2> DEFINE rest == [calls EXCEPT ![s].tab = NoTab, ![s].tries = 0]
    <2>1. [calls[s] EXCEPT !.tab = NoTab, !.tries = 0] \in Call
      BY <1>c, Edits DEF Token, Origins
    <2>2. rest \in [Slots -> Call]
      BY <1>c, <2>1
    <2>3. /\ rest[s].kind = calls[s].kind /\ rest[s].pc = calls[s].pc
          /\ rest[s].token = calls[s].token /\ rest[s].new = calls[s].new
          /\ calls[s].kind = "refresh"
      BY <1>5, <1>c DEF CutOff, Call
    <2>4. Fails(calls[s].tab, y, rest) /\ calls[s].tab \in Tabs
      BY <1>5, <1>c DEF CutOff, Call
    <2>5. \A x \in Slots \ {s} : rest[x] = calls[x]
      BY <1>c
    <2> HIDE DEF rest
    <2>6. y # s => calls'[s] = rest[s]
      BY <2>2, <2>4, FailsShape
    <2>7. y # s => CallInv(s)'
      BY <1>c, <1>i, <2>3, <2>6 DEF CallInv, Answering
    <2> QED
      BY <1>f, <2>2, <2>4, <2>5, <2>7
  <1> QED
    BY <1>1, <1>2, <1>3, <1>4, <1>5 DEF ReplyStep

\* A new call, a reset and time leave calls and storage in order.
LEMMA CallsOther ==
    ASSUME TypeOK, IInv,
           (\E t \in Tabs : TabStep(t)) \/ RabbiStep \/ TimeStep \/ UNCHANGED vars
    PROVE  CallsInv'
  <1>c. calls \in [Slots -> Call] /\ CallsInv
    BY DEF TypeOK, IInv
  <1>b. storage \in [Browsers -> [access : Access, refresh : Token]]
    BY DEF TypeOK
  <1>i. issued' = issued /\ Issued' = Issued
    BY DEF TabStep, Ask, Mount, Verified, LoginCheck, Denied401, SignOut, RabbiStep,
       ResetPassword, LogoutAll, RevokeOne, TimeStep, AccessExpires, SessionExpires,
       vars, rows, Issued
  <1>k. \A b \in Browsers : storage'[b].refresh \in Issued' \union {NoPair}
    <2>1. \A b \in Browsers : storage'[b].refresh \in {storage[b].refresh, NoPair}
      <3>1. ASSUME NEW t \in Tabs, NEW s \in Slots, Fails(t, s, calls)
            PROVE  \A b \in Browsers : storage'[b].refresh \in {storage[b].refresh, NoPair}
        BY <1>b, <1>c, <3>1, FailsShape DEF SignedOut
      <3>2. CASE \E t \in Tabs : TabStep(t)
        <4>1. ASSUME NEW t \in Tabs, Verified(t)
              PROVE  \A b \in Browsers : storage'[b].refresh = storage[b].refresh
          BY <1>b, <4>1 DEF Verified
        <4>2. \A t \in Tabs : TabStep(t) =>
                \/ UNCHANGED storage
                \/ Verified(t)
                \/ \E s \in Slots : Fails(t, s, calls)
          BY DEF TabStep, Ask, Mount, LoginCheck, Denied401, SignOut, client
        <4> QED
          BY <3>1, <3>2, <4>1, <4>2
      <3>3. CASE RabbiStep \/ TimeStep \/ UNCHANGED vars
        BY <1>b, <3>3 DEF RabbiStep, ResetPassword, LogoutAll, RevokeOne, TimeStep,
           AccessExpires, SessionExpires, vars, client
      <3> QED
        BY <3>2, <3>3
    <2> QED
      BY <1>i, <2>1, CallsKept
  <1>1. CASE UNCHANGED calls
    BY <1>1, <1>i, <1>k, CallsKept DEF CallsInv
  <1>2. ASSUME NEW t \in Tabs, NEW s \in Slots,
               LoginCheck(s, t) \/ Denied401(t, s) \/ SignOut(t, s)
        PROVE  CallsInv'
    <2>1. \A x \in Slots \ {s} : calls'[x] = calls[x]
      BY <1>2, <1>c, FailsShape DEF LoginCheck, Denied401, SignOut, Opens
    <2>2. CallInv(s)'
      <3>1. CASE LoginCheck(s, t)
        BY <1>c, <3>1, SessionsAssumption DEF LoginCheck, Opens, NoCall, CallInv, Answering
      <3>2. CASE Fails(t, s, calls)
        BY <1>c, <1>i, <3>2, FailsShape, CallFresh
      <3>3. CASE /\ storage[Home[t]].refresh # NoPair
                 /\ Opens(s, [NoCall EXCEPT !.kind = "refresh", !.tab = t,
                                            !.token = storage[Home[t]].refresh])
        <4>1. storage[Home[t]].refresh \in Issued
          BY <1>c, <3>3, SessionsAssumption DEF CallsInv
        <4> QED
          BY <1>c, <1>i, <3>3, <4>1 DEF Opens, NoCall, CallInv, Answering
      <3>4. CASE SignOut(t, s)
        BY <1>c, <1>i, <3>4, CallFresh DEF SignOut, Opens
      <3> QED
        BY <1>2, <3>1, <3>2, <3>3, <3>4 DEF Denied401
    <2> QED
      BY <1>i, <1>k, <2>1, <2>2, CallsKept DEF CallsInv
  <1>3. CASE ResetPassword
    <2>1. \A x \in Slots :
            /\ calls'[x].kind = calls[x].kind /\ calls'[x].pc = calls[x].pc
            /\ calls'[x].tab = calls[x].tab /\ calls'[x].token = calls[x].token
            /\ calls'[x].new = calls[x].new
            /\ calls[x].kind \in {"none", "signOut"} => calls'[x] = calls[x]
      BY <1>3, <1>c DEF ResetPassword, Credited, Call
    <2>2. \A x \in Slots : CallInv(x)'
      BY <1>c, <1>i, <2>1 DEF CallsInv, CallInv, Answering
    <2> QED
      BY <1>k, <2>2 DEF CallsInv
  <1> QED
    BY <1>1, <1>2, <1>3 DEF TabStep, Ask, Mount, Verified, RabbiStep, LogoutAll,
       RevokeOne, TimeStep, AccessExpires, SessionExpires, vars

\* Calls and browsers hold only tokens of rows that are there.
LEMMA CallsStep ==
    ASSUME TypeOK, IInv, [Next]_vars
    PROVE  CallsInv'
  BY CallsServer, CallsReply, CallsOther DEF Next

------------------------------------------------------------------------------
(* The right to the next row of a sign-in, and the password behind it.     *)

\* A statement that creates no row passes the right of a family on at most.
LEMMA RightLowered ==
    ASSUME TypeOK, IInv, Lowered, \A s \in Slots : Follows(s)
    PROVE  RightInv' /\ OriginInv'
  <1> DEFINE Losing(s) ==
               /\ Checked(s)
               /\ sessions[calls[s].token].state = "live"
               /\ sessions'[calls[s].token].state # "live"
  <1>r. RightInv /\ OriginInv /\ RowsInv /\ Issued \subseteq Pairs
    BY IssuedPairs DEF IInv
  <1>i. Issued' = Issued /\ raced' = raced
    BY DEF Lowered, Issued
  <1>f. \A f : RacedFamily(f)' <=> RacedFamily(f)
    BY <1>r, <1>i DEF RacedFamily, RightInv, Lowered
  <1>t. \A s \in Slots : calls[s].kind = "refresh" =>
                           calls[s].token \in Pairs /\ calls[s].token \in Issued
    BY TokenIssued DEF IInv, CallsInv, CallInv
  <1>1. \A s \in Slots : Entitled(s)' =>
          /\ calls'[s].token = calls[s].token
          /\ calls[s].kind = "refresh"
          /\ Entitled(s) \/ Losing(s)
          /\ Family(s)' = Family(s)
    BY <1>t DEF Follows, Entitled, Checked, Family, Lowered
  <1>2. \A s \in Slots : Checked(s)' => Checked(s) /\ calls'[s].token = calls[s].token
    BY DEF Follows, Checked
  <1>3. OneSessionPerLogin'
    BY <1>r, <1>f DEF OneSessionPerLogin, SameFamily, RightInv, Lowered
  <1>4. ASSUME NEW s \in Slots, NEW n \in Pairs, Entitled(s)',
               sessions'[n].state = "live", sessions'[n].family = Family(s)'
        PROVE  RacedFamily(Family(s))'
    <2>1. sessions[n].state = "live" /\ sessions[n].family = Family(s)
      BY <1>1, <1>4 DEF Lowered
    <2>2. CASE Entitled(s)
      BY <1>1, <1>4, <1>r, <1>f, <2>1, <2>2 DEF RightInv
    <2>3. CASE Losing(s)
      <3>1. calls[s].token # n
        BY <1>4, <2>3
      <3>2. RacedFamily(Family(s))
        BY <1>r, <1>t, <2>1, <2>3, <3>1
           DEF RightInv, OneSessionPerLogin, SameFamily, Family, Checked
      <3> QED
        BY <1>1, <1>4, <1>f, <3>2
    <2> QED
      BY <1>1, <1>4, <2>2, <2>3
  <1>5. ASSUME NEW s \in Slots, NEW x \in Slots, Entitled(s)', Entitled(x)',
               Family(s)' = Family(x)', s # x
        PROVE  RacedFamily(Family(s))'
    <2>1. Family(s) = Family(x) /\ Family(s)' = Family(s)
      BY <1>1, <1>5
    <2>2. CASE Entitled(s) /\ Entitled(x)
      BY <1>5, <1>r, <1>f, <2>1, <2>2 DEF RightInv
    <2>3. CASE Entitled(s) /\ Losing(x)
      BY <1>5, <1>r, <1>f, <1>t, <2>1, <2>3 DEF RightInv, Family, Checked
    <2>4. CASE Losing(s) /\ Entitled(x)
      BY <1>5, <1>r, <1>f, <1>t, <2>1, <2>4 DEF RightInv, Family, Checked
    <2>5. CASE Losing(s) /\ Losing(x)
      <3>1. CASE calls[s].token = calls[x].token
        <4>1. calls[s].token \in raced
          BY <1>5, <1>r, <2>5, <3>1 DEF RightInv
        <4>2. RacedFamily(Family(s))
          BY <4>1 DEF RacedFamily, Family
        <4> QED
          BY <1>f, <2>1, <4>2
      <3>2. CASE calls[s].token # calls[x].token
        <4>1. RacedFamily(Family(s))
          BY <1>r, <1>t, <2>1, <2>5, <3>2
             DEF RightInv, OneSessionPerLogin, SameFamily, Family, Checked
        <4> QED
          BY <1>f, <2>1, <4>1
      <3> QED
        BY <3>1, <3>2
    <2> QED
      BY <1>1, <1>5, <2>2, <2>3, <2>4, <2>5
  <1>6. \A s, x \in Slots :
          Checked(s)' /\ Checked(x)' /\ calls'[s].token = calls'[x].token
            => s = x \/ calls'[s].token \in raced'
    BY <1>2, <1>r, <1>i DEF RightInv
  <1>7. RightInv'
    BY <1>3, <1>4, <1>5, <1>6, <1>r, <1>i DEF RightInv
  <1>8. OriginInv'
    BY <1>r DEF OriginInv, OldPasswordIsOut, Lowered, Follows, Writing
  <1> QED
    BY <1>7, <1>8

\* A second check before the first revocation doubles the right, and is noted.
LEMMA RightCheck ==
    ASSUME TypeOK, IInv, NEW s \in Slots, RefreshCheck(s),
           sessions[calls[s].token].state = "live"
    PROVE  RightInv' /\ OriginInv'
  <1> DEFINE k == calls[s].token
  <1>r. RightInv /\ OriginInv
    BY DEF IInv
  <1>t. k \in Pairs /\ k \in Issued
    BY TokenIssued DEF RefreshCheck, At, IInv, CallsInv, CallInv
  <1>1. /\ calls' = [calls EXCEPT ![s] =
               [@ EXCEPT !.pc = "revoke", !.origin = sessions[k].origin]]
        /\ raced' = IF AlsoChecked(s) THEN raced \union {k} ELSE raced
        /\ sessions' = sessions /\ issued' = issued
        /\ calls[s].kind = "refresh" /\ calls[s].pc = "check"
    BY DEF RefreshCheck, At, rows
  <1>2. /\ calls'[s].kind = "refresh" /\ calls'[s].pc = "revoke"
        /\ calls'[s].token = k /\ calls'[s].origin = sessions[k].origin
        /\ \A x \in Slots \ {s} : calls'[x] = calls[x]
    BY <1>1 DEF TypeOK, Call
  <1>3. \A f : RacedFamily(f) => RacedFamily(f)'
    BY <1>1 DEF RacedFamily
  <1>4. ~Entitled(s)' /\ \A x \in Slots \ {s} : Entitled(x)' => Entitled(x)
    BY <1>1, <1>2 DEF Entitled
  <1>5. OneSessionPerLogin'
    BY <1>1, <1>3, <1>r DEF RightInv, OneSessionPerLogin, SameFamily
  <1>6. \A x \in Slots \ {s} : Family(x)' = Family(x)
    BY <1>1, <1>2 DEF Family
  <1>7. \A x \in Slots, n \in Pairs :
          Entitled(x)' /\ sessions'[n].state = "live" /\ sessions'[n].family = Family(x)'
            => RacedFamily(Family(x))'
    BY <1>1, <1>3, <1>4, <1>6, <1>r DEF RightInv
  <1>8. \A x, y \in Slots :
          Entitled(x)' /\ Entitled(y)' /\ Family(x)' = Family(y)'
            => x = y \/ RacedFamily(Family(x))'
    BY <1>3, <1>4, <1>6, <1>r DEF RightInv
  <1>9. \A x \in Slots \ {s} : Checked(x) /\ calls[x].token = k => k \in raced'
    BY <1>1 DEF Checked, AlsoChecked, At
  <1>10. \A x, y \in Slots :
          Checked(x)' /\ Checked(y)' /\ calls'[x].token = calls'[y].token
            => x = y \/ calls'[x].token \in raced'
    <2>1. \A x \in Slots \ {s} : Checked(x)' => Checked(x)
      BY <1>2 DEF Checked
    <2>2. raced \subseteq raced'
      BY <1>1
    <2> QED
      BY <1>2, <1>9, <1>r, <2>1, <2>2 DEF RightInv
  <1>11. raced' \subseteq Issued'
    BY <1>1, <1>t, <1>r DEF RightInv, Issued
  <1>12. RightInv'
    BY <1>5, <1>7, <1>8, <1>10, <1>11 DEF RightInv
  <1>13. sessions[k].origin # "past"
    BY <1>r, <1>t DEF OriginInv, OldPasswordIsOut
  <1>14. OriginInv'
    BY <1>1, <1>2, <1>13, <1>r DEF OriginInv, OldPasswordIsOut, Writing
  <1> QED
    BY <1>12, <1>14

\* The call that inserts a row of a family gives up its right to it.
LEMMA RightInsert ==
    ASSUME TypeOK, IInv, NEW s \in Slots, Insert(s)
    PROVE  RightInv' /\ OriginInv'
  <1> DEFINE n == issued + 1
             k == calls[s].token
             family == IF k = NoPair THEN n ELSE sessions[k].family
             RacedAfter(f) == \E m \in raced' : sessions'[m].family = f
  <1>r. RightInv /\ OriginInv /\ RowsInv /\ Issued \subseteq Pairs /\ issued \in Nat
    BY IssuedPairs DEF IInv
  <1>1. /\ n \in Pairs /\ n \notin Issued /\ Issued' = Issued \union {n}
        /\ raced' = raced
    BY <1>r DEF Insert, Issued
  <1>2. /\ sessions'[n].state = "live"
        /\ sessions'[n].family = family
        /\ sessions'[n].origin = calls[s].origin
        /\ \A m \in Pairs \ {n} : sessions'[m] = sessions[m]
    BY <1>1 DEF Insert, TypeOK
  <1>3. calls'[s].pc = "reply" /\ \A x \in Slots \ {s} : calls'[x] = calls[x]
    BY DEF Insert, TypeOK, Call
  <1>4. (calls[s].kind = "login" /\ k = NoPair) \/ (Entitled(s) /\ k \in Issued)
    <2>1. calls[s].kind \in {"login", "refresh"} /\ calls[s].pc = "insert"
      BY DEF Insert
    <2>2. CallInv(s)
      BY DEF IInv, CallsInv
    <2>3. CASE calls[s].kind = "login"
      BY <2>2, <2>3 DEF CallInv
    <2>4. CASE calls[s].kind = "refresh"
      <3>1. Entitled(s)
        BY <2>1, <2>4 DEF Entitled
      <3> QED
        BY <2>2, <2>4, <3>1 DEF CallInv
    <2> QED
      BY <2>1, <2>3, <2>4
  <1>5. \A x \in Slots : calls[x].kind = "refresh" => calls[x].token \in Issued
    BY DEF IInv, CallsInv, CallInv
  <1>6. \A x \in Slots \ {s} : Entitled(x)' =>
           Entitled(x) /\ Family(x)' = Family(x) /\ Family(x) \in Issued
    <2> SUFFICES ASSUME NEW x \in Slots \ {s}, Entitled(x)'
                 PROVE  Entitled(x) /\ Family(x)' = Family(x) /\ Family(x) \in Issued
      OBVIOUS
    <2>1. calls'[x] = calls[x] /\ calls[x].kind = "refresh" /\ calls[x].token \in Issued
      BY <1>3, <1>5 DEF Entitled
    <2>2. sessions'[calls[x].token] = sessions[calls[x].token]
      BY <1>1, <1>2, <1>r, <2>1
    <2> QED
      BY <1>r, <2>1, <2>2 DEF Entitled, Family, RowsInv
  <1>7. ~Entitled(s)' /\ ~Checked(s)'
    BY <1>3 DEF Entitled, Checked
  <1>8. \A f : RacedFamily(f) => RacedAfter(f)
    BY <1>1, <1>2, <1>r DEF RacedFamily, RightInv
  <1>9. k # NoPair => k \in Issued /\ Entitled(s) /\ family = Family(s) /\ family \in Issued
    BY <1>4, <1>r DEF Family, RowsInv, NoPair
  <1>10. ASSUME NEW m \in Pairs \ {n}, sessions'[m].state = "live",
                sessions'[m].family = family
         PROVE  RacedAfter(family)
    <2>1. sessions[m].state = "live" /\ sessions[m].family = family /\ m \in Issued
      BY <1>2, <1>10, <1>r DEF RowsInv
    <2>2. k # NoPair
      BY <1>1, <1>r, <2>1 DEF RowsInv
    <2> QED
      BY <1>8, <1>9, <1>r, <2>1, <2>2 DEF RightInv
  <1>11. OneSessionPerLogin'
    <2> SUFFICES ASSUME NEW i \in Pairs, NEW j \in Pairs,
                        sessions'[i].state = "live", sessions'[j].state = "live",
                        sessions'[i].family = sessions'[j].family, i # j
                 PROVE  RacedAfter(sessions'[i].family)
      BY DEF OneSessionPerLogin, SameFamily, RacedFamily
    <2>1. CASE i = n \/ j = n
      BY <1>2, <1>10, <2>1
    <2>2. CASE i # n /\ j # n
      BY <1>2, <1>8, <1>r, <2>2 DEF RightInv, OneSessionPerLogin, SameFamily
    <2> QED
      BY <2>1, <2>2
  <1>12. ASSUME NEW x \in Slots, NEW m \in Pairs, Entitled(x)',
                sessions'[m].state = "live", sessions'[m].family = Family(x)'
         PROVE  RacedAfter(Family(x)')
    <2>1. x # s /\ Entitled(x) /\ Family(x)' = Family(x) /\ Family(x) \in Issued
      BY <1>6, <1>7, <1>12
    <2>2. CASE m = n
      <3>1. family = Family(x)
        BY <1>2, <1>12, <2>1, <2>2
      <3>2. k # NoPair
        BY <1>1, <2>1, <3>1
      <3> QED
        BY <1>8, <1>9, <1>r, <2>1, <3>1, <3>2 DEF RightInv
    <2>3. CASE m # n
      BY <1>2, <1>8, <1>12, <1>r, <2>1, <2>3 DEF RightInv
    <2> QED
      BY <2>2, <2>3
  <1>13. \A x, y \in Slots :
          Entitled(x)' /\ Entitled(y)' /\ Family(x)' = Family(y)'
            => x = y \/ RacedAfter(Family(x)')
    BY <1>6, <1>7, <1>8, <1>r DEF RightInv
  <1>14. \A x, y \in Slots :
          Checked(x)' /\ Checked(y)' /\ calls'[x].token = calls'[y].token
            => x = y \/ calls'[x].token \in raced'
    <2>1. \A x \in Slots : Checked(x)' => Checked(x) /\ calls'[x] = calls[x]
      BY <1>3, <1>7 DEF Checked
    <2> QED
      BY <1>1, <1>r, <2>1 DEF RightInv
  <1>15. RightInv'
    BY <1>1, <1>11, <1>12, <1>13, <1>14, <1>r DEF RightInv, RacedFamily
  <1>16. calls[s].origin # "past"
    BY <1>r DEF Insert, OriginInv, Writing
  <1>17. OriginInv'
    BY <1>2, <1>3, <1>16, <1>r DEF OriginInv, OldPasswordIsOut, Writing
  <1> QED
    BY <1>15, <1>17

\* The right and the origin are kept by every step.
LEMMA RightStep ==
    ASSUME TypeOK, IInv, [Next]_vars
    PROVE  RightInv' /\ OriginInv'
  BY Shape, RightLowered, RightCheck, RightInsert

------------------------------------------------------------------------------
(***************************************************************************)
(* The token a browser keeps.  The number of a row that is on its way is   *)
(* known to its answer alone, so no two browsers keep one token, and a     *)
(* refresh exchanges the token of the browser that waits for it or that is *)
(* signing out (HeardOrLeaving).                                           *)
(***************************************************************************)
Refreshing(s) == calls[s].kind = "refresh"

\* a browser keeps token k, a refresh carries it, or a row descends from it
Known(k) ==
    \/ \E b \in Browsers : storage[b].refresh = k
    \/ \E s \in Slots : Refreshing(s) /\ calls[s].token = k
    \/ Exchanged(k)

ParentsIssued == \A n \in Pairs : sessions[n].parent \in Issued \union {NoPair}

HeardOrLeaving ==
    \A b \in Browsers, s \in Slots :
        Refreshing(s) /\ calls[s].token = storage[b].refresh =>
            \/ calls[s].tab # NoTab /\ Home[calls[s].tab] = b
            \/ SigningOutUnderWay(b)

NewIsUnknown ==
    \A s \in Slots :
        Answering(s) =>
            /\ ~Known(calls[s].new)
            /\ \A x \in Slots \ {s} : Answering(x) => calls[x].new # calls[s].new

OwnToken ==
    \A b, c \in Browsers :
        storage[b].refresh = storage[c].refresh => b = c \/ storage[b].refresh = NoPair

LastInv ==
    /\ StoredTokenIsLast
    /\ ParentsIssued
    /\ HeardOrLeaving
    /\ NewIsUnknown
    /\ OwnToken

\* browser b has given up its token, or is about to
Leaves(b) == storage'[b].refresh = NoPair \/ SigningOutUnderWay(b)'

\* The call in slot s gets no new token and no new answer; when it ends, or
\* its tab stops waiting, the browser of the tab leaves.
Moves(s) ==
    LET c == calls[s]
        d == calls'[s]
    IN  /\ d.kind = "refresh" => c.kind = "refresh" /\ d.token = c.token
        /\ Answering(s)' => Answering(s) /\ d.new = c.new
        /\ \/ \A b \in Browsers :
                 /\ c.kind \in {"refresh", "signOut"}
                 /\ c.tab # NoTab /\ Home[c.tab] = b
                 => Leaves(b)
           \/ /\ d.kind = c.kind /\ d.tab = c.tab
              /\ c.kind = "refresh" /\ c.pc = "reply" => d.pc = "reply"

KeepsParents ==
    /\ issued' = issued
    /\ \A n \in Pairs :
         /\ sessions'[n].parent = sessions[n].parent
         /\ sessions'[n].state = "none" <=> sessions[n].state = "none"

\* a step that hands no token to a browser or to a refresh, and exchanges none
Quiet ==
    /\ KeepsParents
    /\ \A b \in Browsers : storage'[b].refresh \in {storage[b].refresh, NoPair}
    /\ \A s \in Slots : Moves(s)

\* The rows of a step that inserts none descend from the same tokens.
LEMMA ExchangedKept ==
    ASSUME KeepsParents
    PROVE  /\ \A k : Exchanged(k)' <=> Exchanged(k)
           /\ Issued' = Issued
           /\ ParentsIssued => ParentsIssued'
  BY DEF KeepsParents, Exchanged, Issued, ParentsIssued

\* A browser that was signing out, or that an answer was on its way to, still
\* is after a quiet step, or leaves.
LEMMA QuietCalls ==
    ASSUME TypeOK, Quiet, NEW b \in Browsers
    PROVE  /\ SigningOutUnderWay(b) => Leaves(b)
           /\ \A k : ReplyUnderWay(b, k) => ReplyUnderWay(b, k)' \/ Leaves(b)
  <1>1. ASSUME SigningOutUnderWay(b) PROVE Leaves(b)
    <2>1. PICK s \in Slots : /\ calls[s].kind = "signOut" /\ calls[s].tab # NoTab
                             /\ Home[calls[s].tab] = b
      BY <1>1 DEF SigningOutUnderWay
    <2>2. CASE calls'[s].kind = calls[s].kind /\ calls'[s].tab = calls[s].tab
      BY <2>1, <2>2 DEF SigningOutUnderWay, Leaves
    <2> QED
      BY <2>1, <2>2 DEF Quiet, Moves
  <1>2. ASSUME NEW k, ReplyUnderWay(b, k) PROVE ReplyUnderWay(b, k)' \/ Leaves(b)
    <2>1. PICK s \in Slots :
            /\ calls[s].kind = "refresh" /\ calls[s].token = k /\ calls[s].pc = "reply"
            /\ calls[s].tab # NoTab /\ Home[calls[s].tab] = b
      BY <1>2 DEF ReplyUnderWay
    <2>2. Moves(s)
      BY DEF Quiet
    <2>3. CASE /\ calls'[s].kind = calls[s].kind /\ calls'[s].tab = calls[s].tab
               /\ calls'[s].pc = "reply"
      <3>1. calls'[s].token = k
        BY <2>1, <2>2, <2>3 DEF Moves
      <3> QED
        BY <2>1, <2>3, <3>1 DEF ReplyUnderWay
    <2> QED
      BY <2>1, <2>2, <2>3 DEF Moves
  <1> QED
    BY <1>1, <1>2

\* A quiet step keeps the invariant.
LEMMA QuietKeeps ==
    ASSUME TypeOK, IInv, LastInv, Quiet
    PROVE  LastInv'
  <1>t. \A s \in Slots : Refreshing(s) => calls[s].token # NoPair
    BY SessionsAssumption DEF Refreshing, IInv, CallsInv, CallInv, Issued, TypeOK, NoPair
  <1>s. \A b \in Browsers : storage'[b].refresh \in {storage[b].refresh, NoPair}
    BY DEF Quiet
  <1>e. /\ \A k : Exchanged(k)' <=> Exchanged(k)
        /\ ParentsIssued'
    BY ExchangedKept DEF Quiet, LastInv
  <1>1. StoredTokenIsLast'
    <2> SUFFICES ASSUME NEW b \in Browsers, NEW k, k = storage'[b].refresh, k # NoPair,
                        Exchanged(k)'
                 PROVE  ReplyUnderWay(b, k)' \/ SigningOutUnderWay(b)'
      BY DEF StoredTokenIsLast, ReplyUnderWay, Exchanged
    <2>1. storage[b].refresh = k /\ Exchanged(k)
      BY <1>s, <1>e
    <2>2. ReplyUnderWay(b, k) \/ SigningOutUnderWay(b)
      BY <2>1 DEF LastInv, StoredTokenIsLast
    <2> QED
      BY <2>2, QuietCalls DEF Leaves
  <1>2. HeardOrLeaving'
    <2> SUFFICES ASSUME NEW b \in Browsers, NEW s \in Slots, Refreshing(s)',
                        calls'[s].token = storage'[b].refresh
                 PROVE  \/ calls'[s].tab # NoTab /\ Home[calls'[s].tab] = b
                        \/ SigningOutUnderWay(b)'
      BY DEF HeardOrLeaving
    <2>1. /\ Moves(s) /\ Refreshing(s)
          /\ calls'[s].token = calls[s].token /\ calls[s].token # NoPair
      BY <1>t DEF Quiet, Moves, Refreshing
    <2>2. calls[s].token = storage[b].refresh /\ storage'[b].refresh # NoPair
      BY <1>s, <2>1
    <2>3. \/ calls[s].tab # NoTab /\ Home[calls[s].tab] = b
          \/ SigningOutUnderWay(b)
      BY <2>1, <2>2 DEF LastInv, HeardOrLeaving
    <2>4. CASE SigningOutUnderWay(b)
      BY <2>2, <2>4, QuietCalls DEF Leaves
    <2>5. CASE calls[s].tab # NoTab /\ Home[calls[s].tab] = b
      BY <2>1, <2>2, <2>5 DEF Moves, Leaves, Refreshing
    <2> QED
      BY <2>3, <2>4, <2>5
  <1>3. NewIsUnknown'
    <2> SUFFICES ASSUME NEW s \in Slots, Answering(s)', NEW n, n = calls'[s].new
                 PROVE  /\ ~Known(n)'
                        /\ \A x \in Slots \ {s} : Answering(x)' => calls'[x].new # n
      BY DEF NewIsUnknown, Known, Exchanged, Refreshing
    <2>1. /\ \A x \in Slots : Answering(x)' => Answering(x) /\ calls'[x].new = calls[x].new
          /\ \A x \in Slots : Refreshing(x)' => Refreshing(x) /\ calls'[x].token = calls[x].token
      BY DEF Quiet, Moves, Refreshing
    <2>2. Answering(s) /\ calls[s].new = n
      BY <2>1
    <2>3. n \in Issued /\ n # NoPair
      BY <2>2, SessionsAssumption DEF IInv, CallsInv, CallInv, Issued, NoPair, TypeOK
    <2>4. /\ ~Known(n)
          /\ \A x \in Slots \ {s} : Answering(x) => calls[x].new # n
      BY <2>2 DEF LastInv, NewIsUnknown
    <2>5. ~Known(n)'
      BY <1>s, <1>e, <2>1, <2>3, <2>4 DEF Known
    <2> QED
      BY <2>1, <2>4, <2>5
  <1>4. OwnToken'
    <2> SUFFICES ASSUME NEW b \in Browsers, NEW c \in Browsers,
                        storage'[b].refresh = storage'[c].refresh, b # c
                 PROVE  storage'[b].refresh = NoPair
      BY DEF OwnToken
    <2>1. storage[b].refresh = storage[c].refresh => storage[b].refresh = NoPair
      BY DEF LastInv, OwnToken
    <2> QED
      BY <1>s, <2>1
  <1> QED
    BY <1>e, <1>1, <1>2, <1>3, <1>4 DEF LastInv

\* The statements of a handler are quiet, but for the INSERT.
LEMMA QuietServer ==
    ASSUME TypeOK, IInv, NEW s \in Slots, ServerStep(s), ~Insert(s)
    PROVE  Quiet
  <1>c. calls \in [Slots -> Call] /\ calls[s] \in Call
    BY DEF TypeOK
  <1>1. KeepsParents
    <2>1. CASE Lowered
      BY <2>1 DEF Lowered, KeepsParents
    <2>2. CASE RefreshCheck(s)
      BY <2>2 DEF RefreshCheck, rows, KeepsParents
    <2> QED
      BY <2>1, <2>2, ServerShape
  <1>2. storage' = storage /\ \A x \in Slots \ {s} : calls'[x] = calls[x]
    BY <1>c DEF ServerStep, Insert, RefreshCheck, RefreshRevoke, RefreshAlarm,
       SignOutRevoke, StatementFails, client, MovesTo, Ends
  <1>3. RefreshCheck(s) \/ RefreshRevoke(s) \/ RefreshAlarm(s) =>
          /\ calls'[s].kind = "refresh" /\ calls[s].kind = "refresh"
          /\ calls'[s].token = calls[s].token /\ calls'[s].tab = calls[s].tab
          /\ calls[s].pc # "reply" /\ calls'[s].pc # "reply"
    BY <1>c DEF RefreshCheck, RefreshRevoke, RefreshAlarm, At, MovesTo, Call
  <1>4. SignOutRevoke(s) =>
          /\ calls'[s].kind = "signOut" /\ calls[s].kind = "signOut"
          /\ calls'[s].tab = calls[s].tab
    BY <1>c DEF SignOutRevoke, At, Call
  <1>5. StatementFails(s) =>
          \/ /\ calls'[s].kind = "refresh" /\ calls[s].kind = "refresh"
             /\ calls'[s].token = calls[s].token /\ calls'[s].tab = calls[s].tab
             /\ calls[s].pc # "reply" /\ calls'[s].pc # "reply"
          \/ calls[s].kind = "login" /\ calls'[s].kind = "none"
    BY <1>c DEF StatementFails, At, Ends, NoCall, Call
  <1>6. Moves(s)
    BY <1>3, <1>4, <1>5 DEF ServerStep, Moves, Answering
  <1>7. \A x \in Slots \ {s} : Moves(x)
    BY <1>2 DEF Moves, Answering
  <1> QED
    BY <1>1, <1>2, <1>6, <1>7 DEF Quiet

\* A slot a step leaves alone moves, in the sense above.
LEMMA SameMoves == ASSUME NEW s \in Slots, calls'[s] = calls[s] PROVE Moves(s)
  BY DEF Moves, Answering

\* After a failed refresh the browser has no token, or is signing out.
LEMMA FailsLeaves ==
    ASSUME TypeOK, IInv, NEW t \in Tabs, NEW s \in Slots,
           NEW rest \in [Slots -> Call], Fails(t, s, rest),
           NEW b \in Browsers, b = Home[t]
    PROVE  Leaves(b)
  <1>1. CASE storage[b].refresh = NoPair
    <2>1. storage'[b] = SignedOut
      BY <1>1 DEF Fails, Forget, TypeOK
    <2> QED
      BY <2>1 DEF SignedOut, Leaves
  <1>2. CASE storage[b].refresh # NoPair
    <2>1. calls'[s] = SigningOut(t)
      BY <1>2 DEF Fails
    <2>2. calls'[s].kind = "signOut" /\ calls'[s].tab = t /\ t # NoTab
      BY <2>1, SessionsAssumption DEF SigningOut, NoCall
    <2> QED
      BY <2>2 DEF SigningOutUnderWay, Leaves
  <1> QED
    BY <1>1, <1>2

\* Forgetting the tokens of a browser hands none out.
LEMMA ForgetQuiet ==
    ASSUME TypeOK, storage' = storage \/ \E b \in Browsers : Forget(b)
    PROVE  \A b \in Browsers : storage'[b].refresh \in {storage[b].refresh, NoPair}
  BY DEF TypeOK, Forget, SignedOut

\* A failed refresh is quiet in every slot but those of its call.
LEMMA FailsQuiet ==
    ASSUME TypeOK, IInv, NEW t \in Tabs, NEW s \in Slots,
           NEW rest \in [Slots -> Call], Fails(t, s, rest), UNCHANGED rows,
           calls[s].kind = "none" \/ (calls[s].kind = "refresh" /\ calls[s].tab = t),
           \A x \in Slots \ {s} : rest[x] = calls[x] \/ Moves(x)
    PROVE  Quiet
  <1>1. KeepsParents
    BY DEF rows, KeepsParents
  <1>2. \A b \in Browsers : storage'[b].refresh \in {storage[b].refresh, NoPair}
    BY FailsShape, ForgetQuiet, SessionsAssumption DEF Forget
  <1>3. calls'[s].kind \in {"none", "signOut"} /\ \A x \in Slots \ {s} : calls'[x] = rest[x]
    BY FailsShape
  <1>4. Moves(s)
    BY <1>3, FailsLeaves DEF Moves, Answering
  <1>5. \A x \in Slots \ {s} : Moves(x)
    BY <1>3, SameMoves
  <1> QED
    BY <1>1, <1>2, <1>4, <1>5 DEF Quiet

\* An answer that brings no pair, or none at all, is quiet.
LEMMA QuietReply ==
    ASSUME TypeOK, IInv, NEW s \in Slots, ReplyStep(s),
           ~LoginReply(s), ~RefreshReply(s)
    PROVE  Quiet
  <1>c. calls \in [Slots -> Call] /\ calls[s] \in Call
    BY DEF TypeOK
  <1>r. UNCHANGED rows
    BY DEF ReplyStep, LoginReplyLost, RefreshFails, Unheard, SignOutEnds,
       SignOutUnheard, CutOff
  <1>1. KeepsParents
    BY <1>r DEF rows, KeepsParents
  <1>2. CASE LoginReplyLost(s) \/ Unheard(s) \/ SignOutUnheard(s)
    <2>1. calls'[s] = NoCall /\ \A x \in Slots \ {s} : calls'[x] = calls[x]
      BY <1>c, <1>2 DEF LoginReplyLost, Unheard, SignOutUnheard, Ends
    <2>2. calls[s].kind = "login" \/ calls[s].tab = NoTab
      BY <1>2 DEF LoginReplyLost, Unheard, SignOutUnheard, At
    <2>3. Moves(s)
      BY <2>1, <2>2 DEF NoCall, Moves, Answering
    <2>4. storage' = storage
      BY <1>2 DEF LoginReplyLost, Unheard, SignOutUnheard, client
    <2> QED
      BY <1>1, <2>1, <2>3, <2>4, SameMoves, ForgetQuiet DEF Quiet
  <1>3. CASE SignOutEnds(s)
    <2>1. /\ \A x \in Slots \ {s} : calls'[x] = calls[x]
          /\ calls'[s].kind \in {"none", "signOut"}
          /\ calls[s].kind = "signOut" /\ calls[s].tab \in Tabs
      BY <1>c, <1>3 DEF SignOutEnds, Ends, NoCall, Call
    <2>2. Home[calls[s].tab] \in Browsers /\ Forget(Home[calls[s].tab])
      BY <1>3, <2>1, SessionsAssumption DEF SignOutEnds
    <2>3. ASSUME NEW b \in Browsers, b = Home[calls[s].tab] PROVE Leaves(b)
      BY <2>2, <2>3 DEF Forget, SignedOut, Leaves, TypeOK
    <2>4. Moves(s)
      BY <2>1, <2>3 DEF Moves, Answering
    <2> QED
      BY <1>1, <2>1, <2>2, <2>4, SameMoves, ForgetQuiet DEF Quiet
  <1>4. CASE RefreshFails(s)
    <2>1. calls[s].tab \in Tabs /\ calls[s].kind = "refresh"
      BY <1>c, <1>4 DEF RefreshFails, Call
    <2>2. CASE Fails(calls[s].tab, s, calls)
      BY <1>c, <1>r, <2>1, <2>2, FailsQuiet
    <2>3. CASE /\ calls[s].pc = "error"
               /\ calls' = [calls EXCEPT ![s].pc = "check", ![s].tries = @ + 1]
               /\ UNCHANGED storage
      <3>1. /\ calls'[s].kind = calls[s].kind /\ calls'[s].tab = calls[s].tab
            /\ calls'[s].token = calls[s].token /\ calls'[s].pc = "check"
            /\ \A x \in Slots \ {s} : calls'[x] = calls[x]
        BY <1>c, <2>3 DEF Call
      <3>2. Moves(s)
        BY <2>1, <2>3, <3>1 DEF Moves, Answering
      <3> QED
        BY <1>1, <2>3, <3>1, <3>2, SameMoves, ForgetQuiet DEF Quiet
    <2> QED
      BY <1>4, <2>2, <2>3 DEF RefreshFails
  <1>5. ASSUME NEW y \in Slots, CutOff(s, y) PROVE Quiet
    <2> DEFINE rest == [calls EXCEPT ![s].tab = NoTab, ![s].tries = 0]
    <2>1. [calls[s] EXCEPT !.tab = NoTab, !.tries = 0] \in Call
      BY <1>c, Edits DEF Token, Origins
    <2>2. rest \in [Slots -> Call]
      BY <1>c, <2>1
    <2>3. /\ rest[s].kind = calls[s].kind /\ rest[s].pc = calls[s].pc
          /\ rest[s].token = calls[s].token /\ rest[s].new = calls[s].new
          /\ calls[s].kind = "refresh" /\ calls[y].kind = "none"
          /\ \A x \in Slots \ {s} : rest[x] = calls[x]
      BY <1>5, <1>c DEF CutOff, IsFree, Call
    <2>4. Fails(calls[s].tab, y, rest) /\ calls[s].tab \in Tabs
      BY <1>5, <1>c DEF CutOff, Call
    <2> HIDE DEF rest
    <2>5. calls'[s] = rest[s]
      BY <2>2, <2>3, <2>4, FailsShape
    <2>6. \A b \in Browsers : Home[calls[s].tab] = b => Leaves(b)
      BY <2>2, <2>4, FailsLeaves
    <2>7. Moves(s)
      BY <2>3, <2>5, <2>6 DEF Moves, Answering
    <2> QED
      BY <1>r, <2>2, <2>3, <2>4, <2>7, FailsQuiet
  <1> QED
    BY <1>2, <1>3, <1>4, <1>5 DEF ReplyStep

\* the tab asks for another pair, with the token its browser keeps
Asks(t, s) ==
    /\ IsFree(s)
    /\ storage[Home[t]].refresh # NoPair
    /\ calls' = [calls EXCEPT ![s] =
           [NoCall EXCEPT !.kind = "refresh", !.tab = t, !.token = storage[Home[t]].refresh]]
    /\ UNCHANGED <<rows, storage>>

\* The other requests of a tab are quiet.
LEMMA QuietTab ==
    ASSUME TypeOK, IInv, NEW t \in Tabs, TabStep(t), ~\E s \in Slots : Asks(t, s)
    PROVE  Quiet
  <1>c. calls \in [Slots -> Call]
    BY DEF TypeOK
  <1>1. KeepsParents
    BY DEF TabStep, Ask, Mount, Verified, LoginCheck, Denied401, SignOut, rows, KeepsParents
  <1>2. CASE Ask(t) \/ Mount(t) \/ Verified(t)
    <2>1. calls' = calls
      BY <1>2 DEF Ask, Mount, Verified
    <2>2. \A b \in Browsers : storage'[b].refresh = storage[b].refresh
      BY <1>2 DEF Ask, Mount, Verified, TypeOK
    <2> QED
      BY <1>1, <2>1, <2>2, SameMoves DEF Quiet
  <1>3. ASSUME NEW s \in Slots, LoginCheck(s, t) \/ SignOut(t, s) PROVE Quiet
    <2>1. /\ \A x \in Slots \ {s} : calls'[x] = calls[x]
          /\ calls[s].kind = "none"
          /\ storage' = storage
      BY <1>3, <1>c DEF LoginCheck, SignOut, Opens, IsFree, client
    <2>2. \/ calls'[s].kind = "login" /\ calls'[s].pc = "insert"
          \/ calls'[s].kind = "signOut"
      BY <1>3, <1>c DEF LoginCheck, SignOut, Opens, SigningOut, NoCall
    <2>3. Moves(s)
      BY <2>1, <2>2 DEF Moves, Answering
    <2> QED
      BY <1>1, <2>1, <2>3, SameMoves, ForgetQuiet DEF Quiet
  <1>4. ASSUME NEW s \in Slots, Denied401(t, s) PROVE Quiet
    <2>1. Fails(t, s, calls)
      BY <1>4 DEF Denied401, Opens, Asks
    <2>2. calls[s].kind = "none" /\ UNCHANGED rows
      BY <1>4 DEF Denied401, IsFree
    <2> QED
      BY <1>c, <2>1, <2>2, FailsQuiet
  <1> QED
    BY <1>2, <1>3, <1>4 DEF TabStep

\* Revocations, a reset and time are quiet.
LEMMA QuietOther ==
    ASSUME TypeOK, IInv, RabbiStep \/ TimeStep \/ UNCHANGED vars
    PROVE  Quiet
  <1>1. KeepsParents
    BY OtherShape DEF Lowered, KeepsParents
  <1>2. \A b \in Browsers : storage'[b].refresh = storage[b].refresh
    BY DEF RabbiStep, ResetPassword, LogoutAll, RevokeOne, TimeStep, AccessExpires,
       SessionExpires, vars, client, TypeOK
  <1>3. \A s \in Slots :
          /\ calls'[s].kind = calls[s].kind /\ calls'[s].pc = calls[s].pc
          /\ calls'[s].tab = calls[s].tab /\ calls'[s].token = calls[s].token
          /\ calls'[s].new = calls[s].new
    <2>1. CASE UNCHANGED calls
      BY <2>1
    <2>2. CASE ResetPassword
      BY <2>2 DEF ResetPassword, Credited, Call, TypeOK
    <2> QED
      BY <2>1, <2>2 DEF RabbiStep, LogoutAll, RevokeOne, TimeStep, AccessExpires,
         SessionExpires, vars
  <1>4. \A s \in Slots : Moves(s)
    BY <1>3 DEF Moves, Answering
  <1> QED
    BY <1>1, <1>2, <1>4 DEF Quiet

\* A refresh that starts carries the token of its own browser, and of no other.
LEMMA AsksKeeps ==
    ASSUME TypeOK, IInv, LastInv, NEW t \in Tabs, NEW s \in Slots, Asks(t, s)
    PROVE  LastInv'
  <1> DEFINE k == storage[Home[t]].refresh
  <1>c. /\ calls'[s].kind = "refresh" /\ calls'[s].pc = "check" /\ calls'[s].tab = t
        /\ calls'[s].token = k
        /\ \A x \in Slots \ {s} : calls'[x] = calls[x]
        /\ calls[s].kind = "none" /\ k # NoPair
    BY DEF Asks, NoCall, IsFree, TypeOK
  <1>r. storage' = storage /\ sessions' = sessions /\ issued' = issued
    BY DEF Asks, rows
  <1>h. Home[t] \in Browsers /\ t # NoTab
    BY SessionsAssumption
  <1>e. \A j : Exchanged(j)' <=> Exchanged(j)
    BY <1>r DEF Exchanged
  <1>o. \A b \in Browsers : SigningOutUnderWay(b) => SigningOutUnderWay(b)'
    BY <1>c DEF SigningOutUnderWay
  <1>1. StoredTokenIsLast'
    <2> SUFFICES ASSUME NEW b \in Browsers, NEW j, j = storage'[b].refresh, j # NoPair,
                        Exchanged(j)'
                 PROVE  ReplyUnderWay(b, j)' \/ SigningOutUnderWay(b)'
      BY DEF StoredTokenIsLast, ReplyUnderWay, Exchanged
    <2>1. ReplyUnderWay(b, j) \/ SigningOutUnderWay(b)
      BY <1>r, <1>e DEF LastInv, StoredTokenIsLast
    <2>2. ReplyUnderWay(b, j) => ReplyUnderWay(b, j)'
      BY <1>c DEF ReplyUnderWay
    <2> QED
      BY <1>o, <2>1, <2>2
  <1>2. HeardOrLeaving'
    <2> SUFFICES ASSUME NEW b \in Browsers, NEW x \in Slots, Refreshing(x)',
                        calls'[x].token = storage'[b].refresh
                 PROVE  \/ calls'[x].tab # NoTab /\ Home[calls'[x].tab] = b
                        \/ SigningOutUnderWay(b)'
      BY DEF HeardOrLeaving
    <2>1. CASE x = s
      <3>1. storage[b].refresh = storage[Home[t]].refresh /\ storage[b].refresh # NoPair
        BY <1>c, <1>r, <2>1
      <3>2. b = Home[t]
        BY <1>h, <3>1 DEF LastInv, OwnToken
      <3> QED
        BY <1>c, <1>h, <2>1, <3>2
    <2>2. CASE x # s
      BY <1>c, <1>r, <1>o, <2>2 DEF LastInv, HeardOrLeaving, Refreshing
    <2> QED
      BY <2>1, <2>2
  <1>3. NewIsUnknown'
    <2> SUFFICES ASSUME NEW x \in Slots, Answering(x)', NEW n, n = calls'[x].new
                 PROVE  /\ ~Known(n)'
                        /\ \A y \in Slots \ {x} : Answering(y)' => calls'[y].new # n
      BY DEF NewIsUnknown, Known, Exchanged, Refreshing
    <2>1. ~Answering(s)' /\ \A y \in Slots \ {s} : Answering(y)' => Answering(y)
      BY <1>c DEF Answering
    <2>2. ~Known(n) /\ \A y \in Slots \ {x} : Answering(y) => calls[y].new # n
      BY <1>c, <2>1 DEF LastInv, NewIsUnknown
    <2>3. \A y \in Slots : Refreshing(y)' /\ calls'[y].token = n =>
            \/ Refreshing(y) /\ calls[y].token = n
            \/ storage[Home[t]].refresh = n
      BY <1>c DEF Refreshing
    <2>4. ~Known(n)'
      BY <1>r, <1>h, <1>e, <2>2, <2>3 DEF Known
    <2> QED
      BY <1>c, <2>1, <2>2, <2>4
  <1>4. ParentsIssued' /\ OwnToken'
    BY <1>r DEF LastInv, ParentsIssued, OwnToken, Issued
  <1> QED
    BY <1>1, <1>2, <1>3, <1>4 DEF LastInv

\* An answer hands its pair to one browser, which had been waiting for it: a
\* token that no refresh carries, no other browser keeps and no row descends
\* from.
LEMMA StoresKeeps ==
    ASSUME TypeOK, IInv, LastInv, NEW s \in Slots, LoginReply(s) \/ RefreshReply(s)
    PROVE  LastInv'
  <1> DEFINE n == calls[s].new
             h == Home[calls[s].tab]
  <1>c. /\ calls'[s] = NoCall
        /\ \A x \in Slots \ {s} : calls'[x] = calls[x]
        /\ Answering(s) /\ sessions' = sessions /\ issued' = issued
    BY DEF LoginReply, RefreshReply, At, Ends, rows, Answering, TypeOK
  <1>h. calls[s].tab \in Tabs /\ h \in Browsers
    <2>1. calls[s].tab # NoTab /\ calls[s] \in Call
      BY DEF LoginReply, RefreshReply, At, IInv, CallsInv, CallInv, TypeOK
    <2> QED
      BY <2>1, SessionsAssumption DEF Call
  <1>s. /\ storage'[h].refresh = n
        /\ \A b \in Browsers \ {h} : storage'[b] = storage[b]
    <2>1. storage' = [storage EXCEPT ![h] = [access |-> "good", refresh |-> n]]
      BY DEF LoginReply, RefreshReply
    <2> QED
      BY <1>h, <2>1 DEF TypeOK
  <1>u. /\ ~Known(n)
        /\ \A x \in Slots \ {s} : Answering(x) => calls[x].new # n
    BY <1>c DEF LastInv, NewIsUnknown
  <1>e. \A j : Exchanged(j)' <=> Exchanged(j)
    BY <1>c DEF Exchanged
  <1>n. ~Refreshing(s)' /\ ~Answering(s)'
    BY <1>c DEF NoCall, Refreshing, Answering
  <1>o. \A b \in Browsers : SigningOutUnderWay(b) => SigningOutUnderWay(b)'
    BY <1>c DEF SigningOutUnderWay, Answering
  <1>1. StoredTokenIsLast'
    <2> SUFFICES ASSUME NEW b \in Browsers, NEW j, j = storage'[b].refresh, j # NoPair,
                        Exchanged(j)'
                 PROVE  ReplyUnderWay(b, j)' \/ SigningOutUnderWay(b)'
      BY DEF StoredTokenIsLast, ReplyUnderWay, Exchanged
    <2>1. b # h
      BY <1>s, <1>e, <1>u DEF Known
    <2>2. ReplyUnderWay(b, j) \/ SigningOutUnderWay(b)
      BY <1>s, <1>e, <2>1 DEF LastInv, StoredTokenIsLast
    <2>3. ReplyUnderWay(b, j) => ReplyUnderWay(b, j)'
      BY <1>c, <2>1 DEF ReplyUnderWay
    <2> QED
      BY <1>o, <2>2, <2>3
  <1>2. HeardOrLeaving'
    <2> SUFFICES ASSUME NEW b \in Browsers, NEW x \in Slots, Refreshing(x)',
                        calls'[x].token = storage'[b].refresh
                 PROVE  \/ calls'[x].tab # NoTab /\ Home[calls'[x].tab] = b
                        \/ SigningOutUnderWay(b)'
      BY DEF HeardOrLeaving
    <2>1. x # s /\ calls'[x] = calls[x] /\ Refreshing(x)
      BY <1>c, <1>n DEF Refreshing
    <2>2. b # h
      BY <1>s, <1>u, <2>1 DEF Known
    <2> QED
      BY <1>s, <1>o, <2>1, <2>2 DEF LastInv, HeardOrLeaving
  <1>3. NewIsUnknown'
    <2> SUFFICES ASSUME NEW x \in Slots, Answering(x)', NEW m, m = calls'[x].new
                 PROVE  /\ ~Known(m)'
                        /\ \A y \in Slots \ {x} : Answering(y)' => calls'[y].new # m
      BY DEF NewIsUnknown, Known, Exchanged, Refreshing
    <2>1. x # s /\ \A y \in Slots : Answering(y)' => Answering(y) /\ calls'[y] = calls[y]
      BY <1>c, <1>n DEF Answering
    <2>2. ~Known(m) /\ \A y \in Slots \ {x} : Answering(y) => calls[y].new # m
      BY <2>1 DEF LastInv, NewIsUnknown
    <2>3. m # n
      BY <1>u, <2>1
    <2>4. \A y \in Slots : Refreshing(y)' => Refreshing(y) /\ calls'[y] = calls[y]
      BY <1>c, <1>n DEF Refreshing
    <2>5. ~Known(m)'
      BY <1>s, <1>e, <2>2, <2>3, <2>4 DEF Known
    <2> QED
      BY <2>1, <2>2, <2>5
  <1>4. OwnToken'
    <2> SUFFICES ASSUME NEW b \in Browsers, NEW c \in Browsers,
                        storage'[b].refresh = storage'[c].refresh, b # c
                 PROVE  storage'[b].refresh = NoPair
      BY DEF OwnToken
    <2>1. b # h /\ c # h
      BY <1>s, <1>u DEF Known
    <2> QED
      BY <1>s, <2>1 DEF LastInv, OwnToken
  <1>5. ParentsIssued'
    BY <1>c DEF LastInv, ParentsIssued, Issued
  <1> QED
    BY <1>1, <1>2, <1>3, <1>4, <1>5 DEF LastInv

\* The INSERT of a refresh exchanges the token of the browser that waits for
\* the answer, or that is signing out; the new number is known to nobody.
LEMMA InsertKeeps ==
    ASSUME TypeOK, IInv, LastInv, NEW s \in Slots, Insert(s)
    PROVE  LastInv'
  <1> DEFINE n == issued + 1
             k == calls[s].token
  <1>p. /\ issued \in Nat /\ Issued \subseteq Pairs
        /\ n \in Pairs /\ n \notin Issued /\ n # NoPair /\ Issued' = Issued \union {n}
    <2>1. issued \in Nat /\ Issued \subseteq Pairs
      BY IssuedPairs
    <2> QED
      BY <2>1 DEF Insert, Issued, NoPair
  <1>c. /\ calls'[s].kind = calls[s].kind /\ calls'[s].pc = "reply"
        /\ calls'[s].tab = calls[s].tab /\ calls'[s].token = k
        /\ calls'[s].new = n
        /\ \A x \in Slots \ {s} : calls'[x] = calls[x]
        /\ calls[s].kind \in {"login", "refresh"} /\ calls[s].pc = "insert"
        /\ storage' = storage
    BY DEF Insert, client, TypeOK, Call
  <1>r. /\ sessions'[n].parent = k /\ sessions'[n].state = "live"
        /\ sessions[n].state = "none"
        /\ \A m \in Pairs \ {n} : sessions'[m] = sessions[m]
    <2>1. sessions[n].state = "none"
      BY <1>p DEF IInv, RowsInv, TypeOK
    <2> QED
      BY <1>p, <2>1 DEF Insert, TypeOK
  <1>k. /\ k \in Issued \union {NoPair}
        /\ calls[s].kind = "refresh" \/ k = NoPair
    BY <1>c DEF IInv, CallsInv, CallInv
  <1>e. \A j : Exchanged(j)' <=> Exchanged(j) \/ j = k
    BY <1>p, <1>r DEF Exchanged
  <1>o. \A b \in Browsers : SigningOutUnderWay(b) => SigningOutUnderWay(b)'
    BY <1>c DEF SigningOutUnderWay
  <1>u. ~Known(n)
    <2>1. \A b \in Browsers : storage[b].refresh # n
      BY <1>p DEF IInv, CallsInv
    <2>2. \A x \in Slots : Refreshing(x) => calls[x].token # n
      BY <1>p DEF IInv, CallsInv, CallInv, Refreshing
    <2>3. ~Exchanged(n)
      BY <1>p DEF LastInv, ParentsIssued, Exchanged
    <2> QED
      BY <2>1, <2>2, <2>3 DEF Known
  <1>1. StoredTokenIsLast'
    <2> SUFFICES ASSUME NEW b \in Browsers, NEW j, j = storage'[b].refresh, j # NoPair,
                        Exchanged(j)'
                 PROVE  ReplyUnderWay(b, j)' \/ SigningOutUnderWay(b)'
      BY DEF StoredTokenIsLast, ReplyUnderWay, Exchanged
    <2>1. j = storage[b].refresh
      BY <1>c
    <2>2. CASE j = k
      <3>1. \/ calls[s].tab # NoTab /\ Home[calls[s].tab] = b
            \/ SigningOutUnderWay(b)
        BY <1>k, <2>1, <2>2 DEF LastInv, HeardOrLeaving, Refreshing
      <3>2. calls[s].tab # NoTab /\ Home[calls[s].tab] = b => ReplyUnderWay(b, j)'
        BY <1>c, <1>k, <2>2 DEF ReplyUnderWay
      <3> QED
        BY <1>o, <3>1, <3>2
    <2>3. CASE j # k
      <3>1. ReplyUnderWay(b, j) \/ SigningOutUnderWay(b)
        BY <1>e, <2>1, <2>3 DEF LastInv, StoredTokenIsLast
      <3>2. ReplyUnderWay(b, j) => ReplyUnderWay(b, j)'
        BY <1>c DEF ReplyUnderWay
      <3> QED
        BY <1>o, <3>1, <3>2
    <2> QED
      BY <2>2, <2>3
  <1>2. HeardOrLeaving'
    <2> SUFFICES ASSUME NEW b \in Browsers, NEW x \in Slots, Refreshing(x)',
                        calls'[x].token = storage'[b].refresh
                 PROVE  \/ calls'[x].tab # NoTab /\ Home[calls'[x].tab] = b
                        \/ SigningOutUnderWay(b)'
      BY DEF HeardOrLeaving
    <2>1. /\ Refreshing(x) /\ calls'[x].tab = calls[x].tab
          /\ calls[x].token = storage[b].refresh
      BY <1>c DEF Refreshing
    <2> QED
      BY <1>o, <2>1 DEF LastInv, HeardOrLeaving
  <1>3. NewIsUnknown'
    <2> SUFFICES ASSUME NEW x \in Slots, Answering(x)', NEW m, m = calls'[x].new
                 PROVE  /\ ~Known(m)'
                        /\ \A y \in Slots \ {x} : Answering(y)' => calls'[y].new # m
      BY DEF NewIsUnknown, Known, Exchanged, Refreshing
    <2>1. \A y \in Slots : Refreshing(y)' => Refreshing(y) /\ calls'[y].token = calls[y].token
      BY <1>c DEF Refreshing
    <2>2. \A y \in Slots \ {s} : Answering(y)' =>
            Answering(y) /\ calls'[y] = calls[y] /\ calls[y].new \in Issued
      BY <1>c DEF Answering, IInv, CallsInv, CallInv
    <2>3. ~Known(m) /\ m # k => ~Known(m)'
      BY <1>c, <1>e, <2>1 DEF Known
    <2>4. CASE x = s
      BY <1>c, <1>k, <1>p, <1>u, <2>2, <2>3, <2>4
    <2>5. CASE x # s
      <3>1. /\ Answering(x) /\ m = calls[x].new /\ m \in Issued
            /\ ~Known(m) /\ \A y \in Slots \ {x} : Answering(y) => calls[y].new # m
        BY <2>2, <2>5 DEF LastInv, NewIsUnknown
      <3>2. m # k
        BY <1>k, <1>p, <3>1 DEF Known, Refreshing, Issued, NoPair
      <3>3. calls'[s].new # m
        BY <1>c, <1>p, <3>1
      <3> QED
        BY <2>2, <2>3, <3>1, <3>2, <3>3
    <2> QED
      BY <2>4, <2>5
  <1>4. ParentsIssued'
    BY <1>p, <1>r, <1>k DEF LastInv, ParentsIssued
  <1>5. OwnToken'
    BY <1>c DEF LastInv, OwnToken
  <1> QED
    BY <1>1, <1>2, <1>3, <1>4, <1>5 DEF LastInv

\* Every step keeps it.
LEMMA LastStep == IInv /\ LastInv /\ [Next]_vars => LastInv'
  <1> SUFFICES ASSUME IInv, LastInv, [Next]_vars PROVE LastInv'
    OBVIOUS
  <1>0. TypeOK
    BY DEF IInv
  <1>1. ASSUME NEW s \in Slots, ServerStep(s) PROVE LastInv'
    BY <1>0, <1>1, InsertKeeps, QuietServer, QuietKeeps
  <1>2. ASSUME NEW s \in Slots, ReplyStep(s) PROVE LastInv'
    BY <1>0, <1>2, StoresKeeps, QuietReply, QuietKeeps
  <1>3. ASSUME NEW t \in Tabs, TabStep(t) PROVE LastInv'
    BY <1>0, <1>3, AsksKeeps, QuietTab, QuietKeeps
  <1>4. CASE RabbiStep \/ TimeStep \/ UNCHANGED vars
    BY <1>0, <1>4, QuietOther, QuietKeeps
  <1> QED
    BY <1>1, <1>2, <1>3, <1>4 DEF Next

\* At the start no browser keeps a token and no call is under way.
LEMMA LastInit == Init => LastInv
  BY DEF Init, LastInv, StoredTokenIsLast, ParentsIssued, HeardOrLeaving, NewIsUnknown,
     OwnToken, NoRow, SignedOut, NoCall, Refreshing, Answering

------------------------------------------------------------------------------
(***************************************************************************)
(* What a refresh token is exchanged for.  A call that has passed the      *)
(* check of a token holds it until its row is inserted or the call fails;  *)
(* a token has one holder or one row, and a row that was exchanged is not  *)
(* live, so that nobody passes its check any more.                         *)
(***************************************************************************)
\* A refresh token is exchanged for one pair at most, however often the call
\* is sent again and whoever else has the token, unless two calls found its
\* row live before either revoked it (refreshTokens of authService.js).
ExchangedOnce ==
    \A m, n \in Pairs :
        sessions[m].parent = sessions[n].parent /\ sessions[m].parent # NoPair
          => m = n \/ sessions[m].parent \in raced

Holds(s) == Refreshing(s) /\ calls[s].pc \in {"revoke", "insert"}

ExchangeInv ==
    /\ ExchangedOnce
    /\ \A s, x \in Slots :
         Holds(s) /\ Holds(x) /\ calls[s].token = calls[x].token
           => s = x \/ calls[s].token \in raced
    /\ \A s \in Slots, n \in Pairs :
         Holds(s) /\ sessions[n].parent = calls[s].token => calls[s].token \in raced
    /\ \A s \in Slots :
         Holds(s) /\ calls[s].pc = "insert" => sessions[calls[s].token].state # "live"
    /\ \A m, n \in Pairs : sessions[n].parent = m => sessions[m].state # "live"

\* A statement that inserts no row and checks none hands no token on.
LEMMA ExchangeLowered ==
    ASSUME TypeOK, IInv, ExchangeInv, Lowered, \A s \in Slots : Follows(s)
    PROVE  ExchangeInv'
  <1>t. \A s \in Slots : Holds(s) => calls[s].token \in Pairs
    BY TokenIssued DEF Holds, Refreshing
  <1>1. \A s \in Slots : Holds(s)' =>
          /\ Holds(s) /\ calls'[s].token = calls[s].token
          /\ calls'[s].pc = "insert" => \/ calls[s].pc = "insert"
                                        \/ sessions'[calls[s].token].state # "live"
    BY DEF Follows, Holds, Refreshing
  <1>2. raced' = raced /\ \A n \in Pairs : sessions'[n].parent = sessions[n].parent
    BY DEF Lowered
  <1>3. \A n \in Pairs : sessions'[n].state = "live" => sessions[n].state = "live"
    BY DEF Lowered
  <1>4. ExchangedOnce'
    BY <1>2 DEF ExchangeInv, ExchangedOnce
  <1>5. \A s, x \in Slots :
          Holds(s)' /\ Holds(x)' /\ calls'[s].token = calls'[x].token
            => s = x \/ calls'[s].token \in raced'
    BY <1>1, <1>2 DEF ExchangeInv
  <1>6. \A s \in Slots, n \in Pairs :
          Holds(s)' /\ sessions'[n].parent = calls'[s].token => calls'[s].token \in raced'
    BY <1>1, <1>2 DEF ExchangeInv
  <1>7. \A s \in Slots :
          Holds(s)' /\ calls'[s].pc = "insert" => sessions'[calls'[s].token].state # "live"
    BY <1>t, <1>1, <1>3 DEF ExchangeInv
  <1>8. \A m, n \in Pairs : sessions'[n].parent = m => sessions'[m].state # "live"
    BY <1>2, <1>3 DEF ExchangeInv
  <1> QED
    BY <1>4, <1>5, <1>6, <1>7, <1>8 DEF ExchangeInv

\* A call that finds the row live is its first holder, or raced knows.
LEMMA ExchangeCheck ==
    ASSUME TypeOK, IInv, ExchangeInv, NEW s \in Slots, RefreshCheck(s),
           sessions[calls[s].token].state = "live"
    PROVE  ExchangeInv'
  <1> DEFINE k == calls[s].token
  <1>t. k \in Pairs
    BY TokenIssued DEF RefreshCheck, At
  <1>1. /\ calls' = [calls EXCEPT ![s] =
               [@ EXCEPT !.pc = "revoke", !.origin = sessions[k].origin]]
        /\ raced' = IF AlsoChecked(s) THEN raced \union {k} ELSE raced
        /\ sessions' = sessions
    BY DEF RefreshCheck, rows
  <1>2. /\ calls'[s].pc = "revoke" /\ calls'[s].token = k
        /\ \A x \in Slots \ {s} : calls'[x] = calls[x]
    BY <1>1 DEF TypeOK, Call
  <1>3. \A x \in Slots \ {s} : Holds(x)' => Holds(x)
    BY <1>2 DEF Holds, Refreshing
  <1>4. \A x \in Slots \ {s} : Holds(x) /\ calls[x].token = k => k \in raced'
    <2> SUFFICES ASSUME NEW x \in Slots \ {s}, Holds(x), calls[x].token = k
                 PROVE  k \in raced'
      OBVIOUS
    <2>1. calls[x].pc = "revoke"
      BY DEF Holds, ExchangeInv
    <2>2. AlsoChecked(s)
      BY <2>1 DEF AlsoChecked, At, Holds, Refreshing
    <2> QED
      BY <1>1, <2>2
  <1>5. raced \subseteq raced'
    BY <1>1
  <1>6. ExchangedOnce'
    BY <1>1, <1>5 DEF ExchangeInv, ExchangedOnce
  <1>7. \A x, y \in Slots :
          Holds(x)' /\ Holds(y)' /\ calls'[x].token = calls'[y].token
            => x = y \/ calls'[x].token \in raced'
    BY <1>2, <1>3, <1>4, <1>5 DEF ExchangeInv
  <1>8. \A x \in Slots, n \in Pairs :
          Holds(x)' /\ sessions'[n].parent = calls'[x].token => calls'[x].token \in raced'
    <2>1. \A n \in Pairs : sessions[n].parent # k
      BY <1>t DEF ExchangeInv
    <2> QED
      BY <1>1, <1>2, <1>3, <1>5, <2>1 DEF ExchangeInv
  <1>9. \A x \in Slots :
          Holds(x)' /\ calls'[x].pc = "insert" => sessions'[calls'[x].token].state # "live"
    BY <1>1, <1>2, <1>3 DEF ExchangeInv
  <1>10. \A m, n \in Pairs : sessions'[n].parent = m => sessions'[m].state # "live"
    BY <1>1 DEF ExchangeInv
  <1> QED
    BY <1>6, <1>7, <1>8, <1>9, <1>10 DEF ExchangeInv

\* The call that inserts the row gives up the token, and the new row has no
\* holder and no descendant.
LEMMA ExchangeInsert ==
    ASSUME TypeOK, IInv, ParentsIssued, ExchangeInv, NEW s \in Slots, Insert(s)
    PROVE  ExchangeInv'
  <1> DEFINE n == issued + 1
             k == calls[s].token
  <1>r. RowsInv /\ Issued \subseteq Pairs /\ issued \in Nat
    BY IssuedPairs DEF IInv
  <1>1. n \in Pairs /\ n \notin Issued /\ n # NoPair /\ raced' = raced
    BY <1>r DEF Insert, Issued, NoPair
  <1>2. /\ sessions'[n].parent = k
        /\ \A m \in Pairs \ {n} : sessions'[m] = sessions[m]
    BY <1>1 DEF Insert, TypeOK
  <1>3. calls'[s].pc = "reply" /\ \A x \in Slots \ {s} : calls'[x] = calls[x]
    BY DEF Insert, TypeOK, Call
  <1>4. \A x \in Slots : Holds(x)' => x # s /\ Holds(x) /\ calls'[x] = calls[x]
    BY <1>3 DEF Holds, Refreshing
  <1>5. \A x \in Slots : Holds(x) => calls[x].token \in Issued
    BY DEF IInv, CallsInv, CallInv, Holds, Refreshing
  <1>6. \A m \in Pairs : sessions[m].parent # n
    BY <1>1 DEF ParentsIssued
  <1>7. k = NoPair \/ (Holds(s) /\ calls[s].pc = "insert" /\ k \in Issued)
    <2>1. calls[s].kind \in {"login", "refresh"} /\ calls[s].pc = "insert"
      BY DEF Insert
    <2>2. CallInv(s)
      BY DEF IInv, CallsInv
    <2> QED
      BY <1>5, <2>1, <2>2 DEF CallInv, Holds, Refreshing
  <1>8. \A m \in Pairs : sessions[m].parent = k /\ k # NoPair => k \in raced
    BY <1>7 DEF ExchangeInv
  <1>9. ExchangedOnce'
    <2> SUFFICES ASSUME NEW i \in Pairs, NEW j \in Pairs, i # j,
                        sessions'[i].parent = sessions'[j].parent,
                        sessions'[i].parent # NoPair
                 PROVE  sessions'[i].parent \in raced'
      BY DEF ExchangedOnce
    <2>1. CASE i = n \/ j = n
      BY <1>1, <1>2, <1>8, <2>1
    <2>2. CASE i # n /\ j # n
      BY <1>1, <1>2, <2>2 DEF ExchangeInv, ExchangedOnce
    <2> QED
      BY <2>1, <2>2
  <1>10. \A x, y \in Slots :
          Holds(x)' /\ Holds(y)' /\ calls'[x].token = calls'[y].token
            => x = y \/ calls'[x].token \in raced'
    BY <1>1, <1>4 DEF ExchangeInv
  <1>11. ASSUME NEW x \in Slots, NEW m \in Pairs, Holds(x)',
                sessions'[m].parent = calls'[x].token
         PROVE  calls'[x].token \in raced'
    <2>1. x # s /\ Holds(x) /\ calls'[x] = calls[x] /\ calls[x].token \in Issued
      BY <1>4, <1>5, <1>11
    <2>2. CASE m = n
      <3>1. calls[x].token = k
        BY <1>2, <1>11, <2>1, <2>2
      <3>2. Holds(s)
        BY <1>7, <2>1, <3>1 DEF Issued, NoPair
      <3> QED
        BY <1>1, <2>1, <3>1, <3>2 DEF ExchangeInv
    <2>3. CASE m # n
      BY <1>1, <1>2, <1>11, <2>1, <2>3 DEF ExchangeInv
    <2> QED
      BY <2>2, <2>3
  <1>12. \A x \in Slots :
          Holds(x)' /\ calls'[x].pc = "insert" => sessions'[calls'[x].token].state # "live"
    BY <1>1, <1>2, <1>4, <1>5, <1>r DEF ExchangeInv
  <1>13. ASSUME NEW m \in Pairs, NEW i \in Pairs, sessions'[i].parent = m
         PROVE  sessions'[m].state # "live"
    <2>1. CASE i = n
      <3>1. m = k /\ k \in Issued /\ sessions[k].state # "live"
        BY <1>2, <1>7, <1>13, <2>1, SessionsAssumption DEF ExchangeInv, Pairs, NoPair
      <3> QED
        BY <1>1, <1>2, <1>r, <3>1
    <2>2. CASE i # n
      BY <1>2, <1>6, <1>13, <2>2 DEF ExchangeInv
    <2> QED
      BY <2>1, <2>2
  <1> QED
    BY <1>9, <1>10, <1>11, <1>12, <1>13 DEF ExchangeInv

\* Every step keeps the exchange of a token single.
LEMMA ExchangeStep == IInv /\ LastInv /\ ExchangeInv /\ [Next]_vars => ExchangeInv'
  <1> SUFFICES ASSUME IInv, LastInv, ExchangeInv, [Next]_vars PROVE ExchangeInv'
    OBVIOUS
  <1>1. TypeOK /\ ParentsIssued
    BY DEF IInv, LastInv
  <1> QED
    BY <1>1, Shape, ExchangeLowered, ExchangeCheck, ExchangeInsert

\* At the start nothing is exchanged.
LEMMA ExchangeInit == Init => ExchangeInv
  BY SessionsAssumption DEF Init, ExchangeInv, ExchangedOnce, Holds, Refreshing, NoRow, NoCall,
     NoPair, Pairs

------------------------------------------------------------------------------
(* The invariant, and what follows.                                        *)

\* The invariant holds at the start.
LEMMA InitIInv == Init => IInv
  <1> SUFFICES ASSUME Init PROVE IInv
    OBVIOUS
  <1>1. RowsInv
    BY SessionsAssumption DEF Init, RowsInv, NoRow, Issued, Pairs
  <1>2. CallsInv
    BY DEF Init, CallsInv, CallInv, Answering, NoCall, SignedOut
  <1>3. RightInv
    BY DEF Init, RightInv, OneSessionPerLogin, NoRow, NoCall, Entitled, Checked
  <1>4. OriginInv
    BY DEF Init, OriginInv, OldPasswordIsOut, NoRow, NoCall
  <1> QED
    BY <1>1, <1>2, <1>3, <1>4, TypeInit DEF IInv

\* Every step keeps the invariant.
LEMMA IInvStep == IInv /\ [Next]_vars => IInv'
  <1> SUFFICES ASSUME IInv, [Next]_vars PROVE IInv'
    OBVIOUS
  <1>1. TypeOK
    BY DEF IInv
  <1> QED
    BY <1>1, TypeStep, RowsStep, CallsStep, RightStep DEF IInv

\* The invariant holds always.
LEMMA Invariant == Spec => []IInv
  BY InitIInv, IInvStep, PTL DEF Spec

\* The state keeps its type.
THEOREM SessionsTyped == Spec => []TypeOK
  <1>1. IInv => TypeOK
    BY DEF IInv
  <1> QED
    BY <1>1, Invariant, PTL

\* However many tabs, calls, retries, lost answers and sign-outs there are, a
\* sign-in and the refreshes after it have one live session, unless two
\* refreshes found the same token live (generateTokens, refreshTokens).
THEOREM OneSession == Spec => []OneSessionPerLogin
  <1>1. IInv => OneSessionPerLogin
    BY DEF IInv, RightInv
  <1> QED
    BY <1>1, Invariant, PTL

\* After resetPassword no live session goes back to a sign-in with an older
\* password, except through a call that had passed its check.
THEOREM ResetIsComplete == Spec => []OldPasswordIsOut
  <1>1. IInv => OldPasswordIsOut
    BY DEF IInv, OriginInv
  <1> QED
    BY <1>1, Invariant, PTL

\* However many browsers, tabs and calls there are, no browser keeps a token
\* that has been exchanged, unless the answer is on its way to it or it is
\* signing out (persistAuth and the interceptor of AuthContext.jsx).
THEOREM StoredIsLast == Spec => []StoredTokenIsLast
  <1>1. LastInv => StoredTokenIsLast
    BY DEF LastInv
  <1>2. Spec => []LastInv
    BY LastInit, LastStep, Invariant, PTL DEF Spec
  <1> QED
    BY <1>1, <1>2, PTL

\* A refresh token becomes one pair at most, unless two refreshes of it race.
THEOREM TokenIsExchangedOnce == Spec => []ExchangedOnce
  <1>1. ExchangeInv => ExchangedOnce
    BY DEF ExchangeInv
  <1>2. Spec => []ExchangeInv
    BY LastInit, LastStep, ExchangeInit, ExchangeStep, Invariant, PTL DEF Spec
  <1> QED
    BY <1>1, <1>2, PTL
==============================================================================
