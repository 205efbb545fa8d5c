------------------------------- MODULE Sessions -------------------------------
(***************************************************************************)
(* The sessions of one rabbi: the rows of the table sessions, the handlers *)
(* of /auth that open, rotate and revoke them, and the tabs of the         *)
(* dashboard, which keep a pair of tokens in the localStorage of their     *)
(* browser.                                                                *)
(*                                                                         *)
(* A number names a row and its refresh token; of an access token only its *)
(* age matters.  Every statement of a handler commits on its own; only     *)
(* resetPassword has a transaction.                                        *)
(***************************************************************************)
EXTENDS Integers, FiniteSets

CONSTANTS
    Browsers,
    Tabs,
    Home,         \* Home[t] is the browser whose localStorage tab t shares
    Slots,        \* calls that can be under way at once
    NoTab,
    MaxPairs,     \* bound: pairs of tokens
    MaxRetries,   \* MAX_RETRIES of the client, for answers with status 500
    Faults        \* whether statements fail and answers are lost

ASSUME SessionsAssumption ==
    /\ Home \in [Tabs -> Browsers]
    /\ NoTab \notin Tabs
    /\ MaxPairs \in Nat
    /\ MaxRetries \in Nat
    /\ Faults \in BOOLEAN

VARIABLES
    sessions, \* sessions[n] is the row of pair n
    issued,   \* number of pairs issued
    storage,  \* localStorage of each browser
    tabs,     \* what each tab waits for
    calls,    \* the call in each slot
    raced     \* history: tokens that two refreshes found live at the same time

vars == <<sessions, issued, storage, tabs, calls, raced>>

rows     == <<sessions, issued>>
client   == <<storage, tabs>>

Pairs    == 1 .. MaxPairs
NoPair   == 0
Token    == Pairs \union {NoPair}

\* an access token a browser has: none, one that is accepted, one that expired
Access   == {"none", "good", "old"}

\* history: whether a row, or the row a call is to insert, goes back to a
\* sign-in since the last reset of the password, to one before it, or to a call
\* that had passed its check when that reset committed
Origins  == {"present", "past", "overtaken"}

\* parent is the token that was exchanged for this row, family the row of the
\* login both descend from
Row == [state : {"none", "live", "revoked", "expired"},
        parent : Token, family : Token, origin : Origins]

NoRow == [state |-> "none", parent |-> NoPair, family |-> NoPair,
          origin |-> "present"]

Call == [kind  : {"none", "login", "refresh", "signOut"},
         pc    : {"check", "revoke", "insert", "alarm", "reply", "denied", "error"},
         tab   : Tabs \union {NoTab}, token : Token, new : Token,
         origin : Origins, tries : 0 .. MaxRetries]

NoCall == [kind |-> "none", pc |-> "check", tab |-> NoTab, token |-> NoPair,
           new |-> NoPair, origin |-> "present", tries |-> 0]

SignedOut == [access |-> "none", refresh |-> NoPair]

\* mounted is the access token verifySession found when the page was loaded
Idle == [pc |-> "idle", mounted |-> "none"]

TypeOK ==
    /\ sessions \in [Pairs -> Row]
    /\ issued \in 0 .. MaxPairs
    /\ storage \in [Browsers -> [access : Access, refresh : Token]]
    /\ tabs \in [Tabs -> [pc : {"idle", "asking", "refreshing", "retrying"},
                          mounted : Access]]
    /\ calls \in [Slots -> Call]
    /\ raced \in SUBSET Pairs

Init ==
    /\ sessions = [n \in Pairs |-> NoRow]
    /\ issued = 0
    /\ storage = [b \in Browsers |-> SignedOut]
    /\ tabs = [t \in Tabs |-> Idle]
    /\ calls = [s \in Slots |-> NoCall]
    /\ raced = {}

------------------------------------------------------------------------------
(* Calls and statements.                                                   *)

IsFree(s) == calls[s].kind = "none"

Opens(s, call) == IsFree(s) /\ calls' = [calls EXCEPT ![s] = call]

At(s, kind, pc) == calls[s].kind = kind /\ calls[s].pc = pc

MovesTo(s, pc) == calls' = [calls EXCEPT ![s].pc = pc]

Ends(s) == calls' = [calls EXCEPT ![s] = NoCall]

\* bound: a call that will insert a row opens only if a number is left for it
Room == issued + Cardinality({s \in Slots : calls[s].kind \in {"login", "refresh"}})
            < MaxPairs

Revoked(row) == [row EXCEPT !.state = "revoked"]

\* revokeAllSessions, and the second statement of the transaction of a reset
AllRevoked ==
    [n \in Pairs |-> IF sessions[n].state \in {"live", "expired"}
                     THEN Revoked(sessions[n]) ELSE sessions[n]]

\* createTokens, the end of every login and of every refresh
Insert(s) ==
    LET call == calls[s]
        n    == issued + 1
    IN  /\ call.kind \in {"login", "refresh"}
        /\ call.pc = "insert"
        /\ n \in Pairs
        /\ issued' = n
        /\ sessions' = [sessions EXCEPT ![n] =
               [state |-> "live", parent |-> call.token,
                family |-> IF call.token = NoPair THEN n ELSE sessions[call.token].family,
                origin |-> call.origin]]
        /\ calls' = [calls EXCEPT ![s] = [@ EXCEPT !.pc = "reply", !.new = n,
                                                   !.origin = "present", !.tries = 0]]
        /\ UNCHANGED <<client, raced>>

------------------------------------------------------------------------------
(* POST /login, and the Google sign-in.  Signing in again after a failure  *)
(* is another call.                                                        *)

\* The row of rabbis is read and the password compared.  The login page is for
\* a browser that holds no tokens.
LoginCheck(s, t) ==
    /\ Room
    /\ storage[Home[t]].access = "none"
    /\ tabs[t] = Idle
    /\ \A x \in Slots : ~(calls[x].kind = "login" /\ calls[x].tab = t)
    /\ Opens(s, [NoCall EXCEPT !.kind = "login", !.pc = "insert", !.tab = t])
    /\ UNCHANGED <<rows, client, raced>>

LoginReply(s) ==
    /\ At(s, "login", "reply")
    /\ storage' = [storage EXCEPT ![Home[calls[s].tab]] =
           [access |-> "good", refresh |-> calls[s].new]]
    /\ Ends(s)
    /\ UNCHANGED <<rows, tabs, raced>>

LoginReplyLost(s) ==
    /\ Faults
    /\ At(s, "login", "reply")
    /\ Ends(s)
    /\ UNCHANGED <<rows, client, raced>>

------------------------------------------------------------------------------
(* The requests of a tab, up to the 401 that makes it refresh.             *)

\* Fifteen minutes, after which the access tokens a browser has are expired,
\* those a tab has found there included.
AccessExpires(b) ==
    /\ storage[b].access = "good"
    /\ storage' = [storage EXCEPT ![b].access = "old"]
    /\ tabs' = [t \in Tabs |-> IF Home[t] = b /\ tabs[t].mounted = "good"
                               THEN [tabs[t] EXCEPT !.mounted = "old"] ELSE tabs[t]]
    /\ UNCHANGED <<rows, calls, raced>>

\* a request that carries an access token already expired
Ask(t) ==
    /\ tabs[t] = Idle
    /\ storage[Home[t]].access = "old"
    /\ tabs' = [tabs EXCEPT ![t].pc = "asking"]
    /\ UNCHANGED <<rows, storage, calls, raced>>

\* the page is loaded: verifySession asks for GET /me
Mount(t) ==
    /\ tabs[t] = Idle
    /\ storage[Home[t]].access # "none"
    /\ tabs' = [tabs EXCEPT ![t] = [pc |-> "asking", mounted |-> storage[Home[t]].access]]
    /\ UNCHANGED <<rows, storage, calls, raced>>

\* persistAuth: the access token found at the start is stored again, beside
\* the refresh token stored by now
Verified(t) ==
    /\ \/ tabs[t].pc = "asking" /\ tabs[t].mounted = "good"
       \/ tabs[t].pc = "retrying"
    /\ storage' = [storage EXCEPT ![Home[t]].access = tabs[t].mounted]
    /\ tabs' = [tabs EXCEPT ![t] = Idle]
    /\ UNCHANGED <<rows, calls, raced>>

SigningOut(t) ==
    [NoCall EXCEPT !.kind = "signOut", !.tab = t, !.token = storage[Home[t]].refresh]

Forget(b) == storage' = [storage EXCEPT ![b] = SignedOut]

\* The refresh of tab t has failed: logout() tells the server in a call that
\* takes slot s of rest, and verifySession forgets the tokens at once.
Fails(t, s, rest) ==
    LET b == Home[t] IN
    /\ tabs' = [tabs EXCEPT ![t] = Idle]
    /\ IF storage[b].refresh = NoPair
         THEN calls' = [rest EXCEPT ![s] = NoCall] /\ Forget(b)
         ELSE /\ calls' = [rest EXCEPT ![s] = SigningOut(t)]
              /\ IF tabs[t].mounted # "none" THEN Forget(b) ELSE UNCHANGED storage

\* 401: the token to exchange is the one stored now, by whichever tab
Denied401(t, s) ==
    /\ tabs[t].pc = "asking"
    /\ tabs[t].mounted # "good"
    /\ IsFree(s)
    /\ IF storage[Home[t]].refresh = NoPair
         THEN Fails(t, s, calls)
         ELSE /\ Room
              /\ Opens(s, [NoCall EXCEPT !.kind = "refresh", !.tab = t,
                                         !.token = storage[Home[t]].refresh])
              /\ tabs' = [tabs EXCEPT ![t].pc = "refreshing"]
              /\ UNCHANGED storage
    /\ UNCHANGED <<rows, raced>>

------------------------------------------------------------------------------
(* POST /refresh.                                                          *)

\* Mutants: a refresh that looks at the expiry only; one that revokes nothing;
\* an answer whose refresh token is not stored; retries without an end.
RefreshCheckExpiryOnly(s) ==
    LET row == sessions[calls[s].token] IN
    /\ At(s, "refresh", "check")
    /\ \/ /\ row.state # "expired"
          /\ calls' = [calls EXCEPT ![s].pc = "revoke", ![s].origin = row.origin]
       \/ row.state = "expired" /\ MovesTo(s, "denied")
    /\ UNCHANGED <<rows, client, raced>>

RefreshRevokesNothing(s) ==
    /\ At(s, "refresh", "revoke")
    /\ MovesTo(s, "insert")
    /\ UNCHANGED <<rows, client, raced>>

RefreshReplyAccessOnly(s) ==
    LET t == calls[s].tab IN
    /\ At(s, "refresh", "reply")
    /\ t # NoTab
    /\ storage' = [storage EXCEPT ![Home[t]].access = "good"]
    /\ tabs' = [tabs EXCEPT ![t] = Idle]
    /\ Ends(s)
    /\ UNCHANGED <<rows, raced>>

RefreshFailsForever(s) ==
    /\ calls[s].kind = "refresh"
    /\ calls[s].pc = "error"
    /\ calls' = [calls EXCEPT ![s].pc = "check", ![s].tries = @ + 1]
    /\ UNCHANGED <<rows, client, raced>>

\* another refresh of the same token has passed the check and not revoked it
AlsoChecked(s) ==
    \E x \in Slots \ {s} : At(x, "refresh", "revoke") /\ calls[x].token = calls[s].token

RefreshCheck(s) ==
    LET row == sessions[calls[s].token] IN
    /\ At(s, "refresh", "check")
    /\ \/ /\ row.state = "live"
          /\ calls' = [calls EXCEPT ![s].pc = "revoke", ![s].origin = row.origin]
          /\ raced' = IF AlsoChecked(s) THEN raced \union {calls[s].token} ELSE raced
       \/ row.state = "revoked" /\ MovesTo(s, "alarm") /\ UNCHANGED raced
       \/ row.state = "expired" /\ MovesTo(s, "denied") /\ UNCHANGED raced
    /\ UNCHANGED <<rows, client>>

\* UPDATE ... WHERE id: whatever the row has become since
RefreshRevoke(s) ==
    /\ At(s, "refresh", "revoke")
    /\ sessions' = [sessions EXCEPT ![calls[s].token] = Revoked(@)]
    /\ MovesTo(s, "insert")
    /\ UNCHANGED <<issued, client, raced>>

\* a revoked token: every session of the rabbi is revoked
RefreshAlarm(s) ==
    /\ At(s, "refresh", "alarm")
    /\ sessions' = AllRevoked
    /\ MovesTo(s, "denied")
    /\ UNCHANGED <<issued, client, raced>>

RefreshReply(s) ==
    LET t == calls[s].tab IN
    /\ At(s, "refresh", "reply")
    /\ t # NoTab
    /\ storage' = [storage EXCEPT ![Home[t]] =
           [access |-> "good", refresh |-> calls[s].new]]
    /\ tabs' = [tabs EXCEPT ![t] =
           IF @.mounted = "none" THEN Idle ELSE [@ EXCEPT !.pc = "retrying"]]
    /\ Ends(s)
    /\ UNCHANGED <<rows, raced>>

\* status 500 is tried again with the same token, 401 is final
RefreshFails(s) ==
    LET call == calls[s] IN
    /\ call.kind = "refresh"
    /\ call.tab # NoTab
    /\ \/ /\ call.pc = "error"
          /\ call.tries < MaxRetries
          /\ calls' = [calls EXCEPT ![s].pc = "check", ![s].tries = @ + 1]
          /\ UNCHANGED <<storage, tabs>>
       \/ /\ call.pc = "denied" \/ (call.pc = "error" /\ call.tries = MaxRetries)
          /\ Fails(call.tab, s, calls)
    /\ UNCHANGED <<rows, raced>>

\* No answer in thirty seconds, or the connection breaks: for the tab the
\* refresh has failed, and the handler goes on.
CutOff(s, x) ==
    /\ Faults
    /\ calls[s].kind = "refresh"
    /\ calls[s].tab # NoTab
    /\ IsFree(x)
    /\ Fails(calls[s].tab, x, [calls EXCEPT ![s].tab = NoTab, ![s].tries = 0])
    /\ UNCHANGED <<rows, raced>>

\* an answer nobody waits for
Unheard(s) ==
    /\ calls[s].kind = "refresh"
    /\ calls[s].tab = NoTab
    /\ calls[s].pc \in {"reply", "denied", "error"}
    /\ Ends(s)
    /\ UNCHANGED <<rows, client, raced>>

------------------------------------------------------------------------------
(* POST /logout, DELETE /sessions/:id, POST /logout-all.                   *)

\* the rabbi may sign out while the tab is refreshing
SignOut(t, s) ==
    /\ storage[Home[t]].refresh # NoPair
    /\ \A x \in Slots : ~(calls[x].kind = "signOut" /\ calls[x].tab = t)
    /\ Opens(s, SigningOut(t))
    /\ UNCHANGED <<rows, client, raced>>

\* the row is revoked by the hash of its token
SignOutRevoke(s) ==
    /\ At(s, "signOut", "check")
    /\ sessions' = [sessions EXCEPT ![calls[s].token] = Revoked(@)]
    /\ calls' = [calls EXCEPT ![s].pc = "reply", ![s].token = NoPair]
    /\ UNCHANGED <<issued, client, raced>>

\* Whatever the answer is, or if there is none, the storage is emptied.
SignOutEnds(s) ==
    /\ calls[s].kind = "signOut"
    /\ calls[s].tab # NoTab
    /\ \/ calls[s].pc = "reply" /\ Ends(s)
       \/ Faults /\ calls[s].pc = "check" /\ calls' = [calls EXCEPT ![s].tab = NoTab]
    /\ Forget(Home[calls[s].tab])
    /\ UNCHANGED <<rows, tabs, raced>>

SignOutUnheard(s) ==
    /\ calls[s].kind = "signOut"
    /\ calls[s].tab = NoTab
    /\ Ends(s)
    /\ UNCHANGED <<rows, client, raced>>

\* authenticate looks at the access token only, not at its session
Authenticated(b) == storage[b].access = "good"

RevokeOne(b, n) ==
    /\ Authenticated(b)
    /\ sessions[n].state = "live"
    /\ sessions' = [sessions EXCEPT ![n] = Revoked(@)]
    /\ UNCHANGED <<issued, client, calls, raced>>

LogoutAll(b) ==
    /\ Authenticated(b)
    /\ sessions' = AllRevoked
    /\ UNCHANGED <<issued, client, calls, raced>>

\* thirty days; it matters for the tokens a browser still has
SessionExpires(n) ==
    /\ sessions[n].state = "live"
    /\ \E b \in Browsers : storage[b].refresh = n
    /\ sessions' = [sessions EXCEPT ![n].state = "expired"]
    /\ UNCHANGED <<issued, client, calls, raced>>

------------------------------------------------------------------------------
(* POST /reset-password.  (A change of the password by a rabbi who is      *)
(* signed in touches no session.)                                          *)

\* a call that has passed its check and will insert a row
Credited(call) ==
    call.kind \in {"login", "refresh"} /\ call.pc \in {"revoke", "insert"}

Past(row) == [row EXCEPT !.origin = IF row.state = "none" THEN @ ELSE "past"]

\* one transaction: the new password, and all sessions revoked
ResetPassword ==
    /\ issued > 0
    /\ sessions' = [n \in Pairs |-> Past(AllRevoked[n])]
    /\ calls' = [s \in Slots |->
           IF Credited(calls[s]) THEN [calls[s] EXCEPT !.origin = "overtaken"]
           ELSE calls[s]]
    /\ UNCHANGED <<issued, client, raced>>

------------------------------------------------------------------------------
\* A statement fails, or the server restarts: what is written stays.
StatementFails(s) ==
    /\ Faults
    /\ \/ /\ calls[s].kind = "refresh"
          /\ calls[s].pc \in {"check", "revoke", "insert", "alarm"}
          /\ calls' = [calls EXCEPT ![s].pc = "error", ![s].origin = "present"]
       \/ At(s, "login", "insert") /\ Ends(s)
    /\ UNCHANGED <<rows, client, raced>>

ServerStep(s) ==
    \/ Insert(s) \/ RefreshCheck(s) \/ RefreshRevoke(s) \/ RefreshAlarm(s)
    \/ SignOutRevoke(s) \/ StatementFails(s)

ReplyStep(s) ==
    \/ LoginReply(s) \/ LoginReplyLost(s) \/ RefreshReply(s) \/ RefreshFails(s)
    \/ Unheard(s) \/ SignOutEnds(s) \/ SignOutUnheard(s)
    \/ \E x \in Slots : CutOff(s, x)

TabStep(t) ==
    \/ Ask(t) \/ Mount(t) \/ Verified(t)
    \/ \E s \in Slots : LoginCheck(s, t) \/ Denied401(t, s) \/ SignOut(t, s)

RabbiStep ==
    \/ ResetPassword
    \/ \E b \in Browsers :
          \/ LogoutAll(b)
          \/ \E n \in Pairs : RevokeOne(b, n)

TimeStep ==
    \/ \E b \in Browsers : AccessExpires(b)
    \/ \E n \in Pairs : SessionExpires(n)

Next ==
    \/ \E s \in Slots : ServerStep(s) \/ ReplyStep(s)
    \/ \E t \in Tabs : TabStep(t)
    \/ RabbiStep
    \/ TimeStep

Spec == Init /\ [][Next]_vars

------------------------------------------------------------------------------
(* What the code guarantees.                                               *)

SameFamily(m, n) == sessions[m].family = sessions[n].family

RacedFamily(f) == \E k \in raced : sessions[k].family = f

\* Rotation keeps one session per sign-in: a login and all the refreshes after
\* it, with their retries, lost answers and sign-outs in between, never have
\* two live rows, unless two refreshes of one token both found it live before
\* either revoked it.
OneSessionPerLogin ==
    \A m, n \in Pairs :
        /\ sessions[m].state = "live"
        /\ sessions[n].state = "live"
        /\ SameFamily(m, n)
        => m = n \/ RacedFamily(sessions[m].family)

\* After a reset by link no session opened with an older password goes on,
\* however often its browser refreshes, except by a login or a refresh that
\* had passed its check when the transaction of the reset committed.
OldPasswordIsOut ==
    \A n \in Pairs : sessions[n].state = "live" => sessions[n].origin # "past"

Exchanged(k) == \E n \in Pairs : sessions[n].state # "none" /\ sessions[n].parent = k

ReplyUnderWay(b, k) ==
    \E s \in Slots :
        /\ calls[s].kind = "refresh"
        /\ calls[s].token = k
        /\ calls[s].pc = "reply"
        /\ calls[s].tab # NoTab
        /\ Home[calls[s].tab] = b

SigningOutUnderWay(b) ==
    \E s \in Slots :
        calls[s].kind = "signOut" /\ calls[s].tab # NoTab /\ Home[calls[s].tab] = b

\* A browser does not keep a token that has been exchanged, whichever of its
\* tabs refreshed it, restored a page, signed in or gave up waiting: the pair
\* that replaced it is on its way, or the browser is signing out.  A token that
\* was kept would be taken for a stolen one at the next refresh.
StoredTokenIsLast ==
    \A b \in Browsers :
        LET k == storage[b].refresh IN
        k # NoPair /\ Exchanged(k) => ReplyUnderWay(b, k) \/ SigningOutUnderWay(b)

------------------------------------------------------------------------------
(* What a comment says, and the code does not guarantee.                   *)

\* refreshTokens: "Detected reuse (token already revoked) revokes all sessions
\* for the rabbi as a theft-response": sessions are lost only if the token had
\* been exchanged before.
AlarmMeansReuse ==
    [][\A s \in Slots :
          RefreshAlarm(s) /\ sessions' # sessions => Exchanged(calls[s].token)]_vars
==============================================================================
