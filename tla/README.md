# Aneh haShoel: a verification development

TLA+ models, model-checking runs and machine-checked proofs for the server of
"Aneh haShoel" ("answer the asker"): people ask on a WordPress site, rabbis
claim and answer on a dashboard, and the answers return to the site.  Paths are
relative to `backend/src/` unless they start at the root of the repository.

Contents: [inventory](#1-the-system) · [what is modelled](#2-modules) ·
[runs](#3-runs) · [divergences](#4-where-code-and-documents-disagree) ·
[proofs](#5-proofs) · [only model-checked](#6-only-model-checked) ·
[not modelled](#7-not-modelled) · [order](#8-how-the-modules-were-chosen) · [use](#9-use)

## 1. The system

One Node process (Express, socket.io, node-cron), PostgreSQL, Redis, and a
WordPress site that only talks HTTP.  JavaScript runs one callback at a time, so
the unit of atomicity is what happens between two awaits: at most one SQL
statement, Redis command or HTTP call.  Statements sent by `query()` commit on
their own; only `withTransaction` and `getClient` group them.  Everything
concurrent is therefore an interleaving of *statements* of handlers and jobs, and
everything hard comes from three places: a handler that reads in one statement
and writes in a later one, a job that remembers what it read, and a call to
WordPress that fails after it has taken effect.

### Parts that decide something

| Part | State | Operations | Talks to | Hard | Correct when |
|---|---|---|---|---|---|
| **Question desk** (`services/questionService.js`, `services/answers.js`, `middleware/questionOwnership.js`, `routes/questions.js`) | `questions.status`, `assigned_rabbi_id`, `lock_timestamp`, `warning_sent`; `answers` (UNIQUE `question_id`) | claim, release, transfer, answer, draft, self-heal | sockets, notifications, delivery | check and write in two statements; two rabbis on one question | one author; who works on a question keeps it; answered stays answered |
| **Timeout and warning jobs** (`cron/jobs/timeoutCheck.js`, `warningCheck.js`) | the same columns; the list of rows a run read | evict, audit, notify; mark, notify | desk, mail | notifying from rows read earlier; a run that dies half way | full term for each owner; no expired lock stays; the evicted one is told |
| **Answer delivery** (`services/questionSyncService.js`, `wordpress.js`, `wpService.js`, `cron/jobs/wpSyncRetry.js`) | `answers.content`, `content_versions`, `is_private`, `questions.wp_synced_at`; the page | own push, two-minute job, hourly retry, manual retry, follow-up push, edit | WordPress | calls that time out after success; overlapping pushes; refused rows at the head of a LIMIT | public answers arrive; private ones stay off; no text is lost |
| **Question intake** (`routes/wpWebhook.js`, `services/questions.js`, `questionSyncService.js`, `wpService.js`) | `questions` by `wp_post_id`, `updated_at`; posts | new-question, question-updated, five-minute import | WordPress, notifications | calls lost, late, twice, out of order; runs that overlap | every post is stored and announced; no old text returns |
| **Database access** (`db/pool.js` and its users) | connections, the transaction open on each | `query`, `getClient`, `withTransaction`, `BEGIN` through `query` | PostgreSQL | an exhausted pool; errors inside a transaction; a lost COMMIT | transactions are atomic; what was acknowledged stays |
| **Rabbi mail and links** (`cron/jobs/imapPoller.js`, `routes/emailInbound.js`, `routes/auth.js` 888-942, `routes/actionLinks.js`) | the mailbox, the same tables | claim, release, answer by reply | desk | replies handled all at once, written by id; seen before processed | a reply is handled once; same guarantees as the desk |
| **Asker feedback** (`questionService.js` 678-739 and 1005-1100, `wpWebhook.js` 708-845) | `thank_count`, `follow_up_count`, Redis keys | thank, follow up | Redis, notifications | check, set, count in three steps | one thank per address and key; one follow-up per question; the post shows the count |
| **Administration** (`routes/admin/*`, `routes/admin.js`, `services/admin.js`) | the same tables | set status, assign, delete, bulk, remove a rabbi | desk, pool | writes without the desk's guards | the desk's invariants survive |
| **Sessions** (`services/authService.js`, `routes/auth.js`, and in the browser `AuthContext.jsx`, `lib/api.js`) | `sessions`, Redis reset tokens, the tokens in localStorage | login, refresh, revoke, reset; retries of the client | Redis, mail | rotation in three statements; tabs that share tokens; lost answers | one live session per sign-in; a reset ends the old ones |
| **Discussions** (`services/discussionService.js`, `socket/discussionEvents.js`, `DiscussionChat.jsx`) | `discussions`, members, messages, last read; the open page | create, join, post, read, lock, close, delete | sockets | check, INSERT and mark in separate statements; a client that sends again | one row for a message; what counts as read was shown; the gate holds |
| **Queues and imports** (`onboardingDrip.js`, `pendingReminder.js`, `syncNedarimHistory.js`, `donationsWebhook.js`) | `onboarding_queue`, `last_reminder_at`, donations by transaction | send, remind, import | mail, Nedarim | overlapping runs, LIMIT, twice-delivered transactions | once each; nobody starves |

`PROJECT.json` lists these and all other parts with the reason why a part is not
modelled, and every hazard at its line.

### How they interact

```
WordPress --new-question, question-updated--> intake --INSERT--> questions --announce--> rabbis
    ^                                           ^                    |
    |                                      five-minute job     claim/transfer/release (desk)
    |                                                                |   timeout, warning jobs
    +---- own push, 2-minute job, retries <---- delivery <--- answers (submitAnswer, editAnswer)
                         all of it through the connection pool
```

The tables are the only shared state; parts never call back into each other.
`wp_synced_at` is all that delivery goes by, `updated_at` all that the stale update
guard of the intake goes by, and `status`, `assigned_rabbi_id` and `lock_timestamp`
all that desk and jobs go by.  That is why the parts can be modelled apart: what
another part may do to a column is an action of each model (`DeskWrites` in
`QuestionIntake`, `Answer` in `AnswerDelivery`).

## 2. Modules

| Module | Models | Extended by |
|---|---|---|
| `QuestionStore` | the two tables of the desk, the assignments of the UPDATE statements, ageing of locks | `QuestionLifecycle` |
| `QuestionLifecycle` | desk and both jobs | `MCLifecycle`, `QuestionLifecycle_proofs` |
| `AnswerOnce` | abstract: what the desk promises the asker | instance in `QuestionLifecycle` |
| `AnswerDelivery` | everything between the stored answer and the page | `MCDelivery`, `AnswerDelivery_proofs` |
| `AtomicStore` | abstract: what `withTransaction` promises its callers | instance in `ConnectionPool` |
| `ConnectionPool` | pool, connections, transactions and the four ways handlers use them | `MCPool`, `ConnectionPool_proofs` |
| `QuestionIntake` | webhook calls, import job, createFromWebhook | `MCIntake`, `QuestionIntake_proofs` |
| `DeskWriters` | extends `QuestionLifecycle` with everybody else who writes its tables: mailbox reader, links, inbound webhook, administrators, removal of an account | `MCDeskWriters`, `DeskWriters_proofs` |
| `Sessions` | the table of sessions, its handlers, and the tabs of a browser that keep the tokens | `MCSessions`, `Sessions_proofs` |
| `Discussions` | one discussion: members, messages, reading marks, the pages of the rabbis and the retries of their client | `MCDiscussions`, `Discussions_proofs` |
| `AskerFeedback` | thanks with their keys in Redis, the number on the post, follow-up questions | `MCFeedback`, `AskerFeedback_proofs` |

`PROJECT.json` maps each definition to the lines it translates.

**QuestionLifecycle.**  A handler is a *request* in a slot.  Its `pc` says which
statement comes next; the row it read is not kept, for all the code carries over
is the decision it took.  `ReleaseCheck` and `ReleaseWrite` are the two statements
of `releaseQuestion`; `Gate`, `SelfHeal` and `Reread` are the middleware before
transfer, answer and draft; `AnswerCheck`, `AnswerWrite` and `AnswerAutoClaim` are
`submitAnswer`, whose transaction is one step because INSERT, claim and UPDATE
commit together (how a transaction behaves on a real pool is `ConnectionPool`).
`RequestFails` stops a handler before any of its statements.  The jobs keep the
rows they read (`timeoutJob`, `warningJob`); `JobFails` is both an exception
caught by `safeJob` and a restart.  `Claim` stands for every caller of
`claimQuestion`: the dashboard, the claim link of an e-mail with a `rabbiId`
(`GET /api/action/claim`; without one, and as `/claim/:token`, it redirects), and
WhatsApp.  In `AnswerOnce` a release is a *recall*, granted by `ReleaseCheck` and
in effect with `ReleaseWrite`, whatever became of the question in between.
`lock_timestamp` is kept as an age in hours;
`held` and `told` are history variables for the properties.

**AnswerDelivery.**  A *push* is one run of any of the five functions that publish:
it reads rows, then per row calls WordPress and marks the row in a later
statement.  `Published`, `Refused` (which includes a time-out after WordPress has
published), `Mark`, `Unmark`, `MarkFails` and `PushStops` are what may become of
each.  Texts of an answer are numbered.  An edit reads and writes in two
statements.

**ConnectionPool.**  Each program is the sequence of statements of a handler:
`query` one write, `transaction` any `withTransaction`, `deleteRabbi` the removal
of a rabbi with its ignored errors (`routes/admin/rabbis.js`), `webhook` the part
of `POST /question-updated` that stores an answer given on the site
(`routes/wpWebhook.js:523-600`), whose BEGIN and COMMIT go through `query()`.  A
statement runs in whatever transaction is open on its connection; an error aborts
that; a `query()` that fails removes its connection from the pool; a handler that
sends its next statement at once gets the connection it just gave back, unless
the pool is exhausted and somebody waits.  `AtomicStore` knows nothing of all
this: to its clients a transaction is one step.  `Effect` reads off what is
committed how much of a transaction the others see, `Assured` who was told of
success.

**QuestionIntake.**  A webhook call, or a run of the import job, is a *task*: look
up the post, look for a twin, INSERT, announce.  Both use `createFromWebhook`.
Texts are numbered by the revision of the post that carries them, which makes the
stale update guard a comparison of revisions: `seen` is the revision of the post
at the last write of its row, so "modified before updated_at" is `rev <= seen`.

**DeskWriters.**  Composes the dashboard and the jobs of `QuestionLifecycle`
(`DashboardStep`) with the writers that do not go through its services.  A *mail*
is one reply of a poll, or one clicked link: `MailRead` is the look at the row
with the decision it leads to, and every UPDATE or INSERT after it is a step that
asks for the id only (`MailClaim`, `MailRelease`, `MailAutoClaim`, `MailLookup`,
`MailReplace` or `MailInsert`, `MailFinish`); all mails run at once, as the poller
starts them.  `MailFails` is a failed statement or a restart: the reply is marked
as seen already, so nothing resumes it.  Administrators set a status
(`PatchStatus`), assign and release; `PageAssign` is what the page really sends;
`RemoveCheck` and `RemoveWrite` are the two halves of the removal of a rabbi.
`text` says whose text is stored, which the table does not.

**Sessions.**  A *call* is a login, a refresh or a sign-out in a slot, one statement
a step.  A row remembers the token it replaces (`parent`) and the login it goes
back to (`family`), which the code does not.  The client is part of the model,
because it decides which tokens survive: tabs of one browser share `storage`,
each refreshes on its own, sends a 500 again, gives up waiting, and writes back
what it had read (`mounted`).

**Discussions.**  A message is its place in the order of `created_at`, and
`last_read_at` the number of messages stored by then.  The three calls that check
and then write (`sendMessage`, `getMessages` with its mark, `joinDiscussion`) are
split at their statements; lock, end, deletion and the membership of others are
one statement each.  `Retried` is the client's repetition of an answer with 500.

**AskerFeedback.**  A thank is visitor check, address check, key, UPDATE, key of
the visitor, push to the post; `Hook` is the site's own call, which starts at the
UPDATE with the number it read.  `KeyLost` is the end of the 30 days, the
`allkeys-lru` of `docker-compose.yml`, or the last second of the log.  The history
variables name who raced (`raced`, `crowded`) and which thanks failed after their
key was set (`wasted`).

## 3. Runs

| Run | Instance | Shows | States |
|---|---|---|---|
| `desk` | 3 rabbis, one an administrator; 1 question; 2 requests at once; timeout 1 h; faults | `InProcessIsLocked`, `AnsweredIsAuthored`, `AuthorIsFinal`, `TakenOnlyByTransfer`, `OnlyStaleReleaseReopens`, `ImplementsAnswerOnce` | 613 000 |
| `timeouts` | 2 rabbis; timeout 2 h, so the warning hour exists; transfers and answers, no release by hand, which only ends a lock sooner; faults, fairness | `LockWithinTenure`, `EvictionNamesOwner`, `ExpiredLockIsLost` | 786 000 |
| `delivery` | 1 answer, 2 pushes of any of the five kinds and 2 edits at once, 4 texts, faults | `SyncedIsShown`, `PrivateShownByOthers`, `TextLostToOverlap` | 352 000 |
| `arrives` | 2 answers, one whose post is gone; all retries, 1 push at a time; faults, fairness | `PublicAnswerArrives` | 12 000 |
| `pool` | 3 handlers on 2 connections, any mix of the four programs | `ImplementsAtomicStore`, `AcknowledgedIsKept`, `IdleIsClean` | 1 570 000 |
| `intake` | 2 posts of one asker, one changed twice; 2 calls and 1 job run at once; faults | `StoredIsAnnounced`, `OldTextFromStaleRead` | 1 370 000 |
| `writers` | a rabbi and an administrator, 1 question, 1 dashboard request (release, transfer, answer) and 2 mails at once, faults | `UnforcedIsSound`, `ForeignTextNeedsRace`, `TakenOnlyInRace`, `AuthorsOnlyRemoved` | 787 000 |
| `sessions` | 2 tabs of one browser, 2 calls at once, 3 pairs of tokens, 1 retry, faults | `OneSessionPerLogin`, `OldPasswordIsOut`, `StoredTokenIsLast` | 966 000 |
| `discussions` | 2 rabbis, 2 calls at once, 1 message with 2 retries, pages of 1 message, faults | `OneCopyPerSend`, `ReadIsSeen`, `GateHolds` | 827 000 |
| `feedback` | 1 visitor at 2 addresses, 2 calls at once, 2 thanks, 2 follow-ups, faults | `OneThankPerAddress`, `KeyMeansThank`, `OneFollowUp`, `ShownIsCounted` | 3 640 000 |
| `warning`, `private` | the smallest instance that shows it | section 4 | |

Each passing run also checks its module's type invariant, except `timeouts`
and `arrives`, whose modules have it in `desk` and `delivery`.  For every property
there is a mutant: one definition changed as a plausible slip would change it, with
which TLC finds the property violated in the same run.

**Why the bounds are enough.**  No statement of the desk relates two questions but
the jobs' lists, so one question with two requests is every race of two handlers;
a third rabbi is needed for the one who takes the question in between.  Delivery
needs two pushes of one answer for a stale mark, and two editors with four texts for
an edit that is overtaken twice; two answers matter only to a batch that goes on
after a refused row: `arrives` has it, and the safety of any batch is proved.  Two
connections and three handlers are the smallest exhausted pool in which one
handler waits while another is between two statements.  The intake needs one post
with three revisions for two changes that overtake each other and two calls at
once; the second post is the one a job goes on to.

Two mails are every pair of replies that cross, and an administrator who is also
a rabbi is the one who may answer what he does not own.  Three pairs of tokens
are a login and two refreshes, or two refreshes of one token and the alarm.  One
message that is sent again is two rows, and with pages of one message the second
is already on another page.  Two thanks under way are a race for one key; the
second address shows that it concerns no other.  The invariants proved in section
5 hold for all bounds.

**Bounds by name.**  `MaxPairs`, `MaxSends`, `MaxThanks`, `MaxFollowUps` (tokens,
messages, thanks, follow-ups), `Mails` (replies at once); `MaxRetries` is the
client's constant, made small; `MaxContent` (texts per answer), `MaxRev` (revisions per
post), `Slots`, `Pushes`, `Editors`, `Requests`, `Polls` (things in progress at
once); `TimeoutHours` caps the age of a lock.  `Limit` and `PerPage` are the LIMIT
and the page size of the code, made small.

**Deadlock** is checked where rabbis can always do something (`desk`, `timeouts`,
`warning`, `writers`) and off where the system may stop: all answers
delivered, all handlers done, all posts stored.

**Fairness.**

- *Jobs of the desk* (`TimeoutFairness`): node-cron starts the timeout job every
  30 minutes, `safeJob` lets no failure prevent the next run, and its loops end.
  Rabbis need not do anything.  The clock waits for nobody: an hour may pass
  (`HourPasses`) while the server is down or a run hangs.  Only with `Faults` off, in
  the run `warning`, has each job run and ended within the hour, as both start twice
  in one.
- *Delivery* (`Fairness`): the two-minute job runs again and again.  It has strong
  fairness since the slots are a bound of the model, which the code has not.  A call
  that is tried for ever succeeds some time unless the post is gone (`Broken`),
  and so does the UPDATE after it.
- *Intake* (`FairSpec`): the five-minute job starts again and again and is not
  stopped at the same statement for the same post for ever.  Webhook calls have
  no fairness: all may be lost.
- The other modules state safety only: a reply that failed is never fetched again,
  a key in Redis may be lost at any time, and a call that was given up is gone.

## 4. Where code and documents disagree

Two of these are runs that TLC ends with a counterexample; the property of each of
the others is in its module, and a configuration that names it shows the same.

- `warning` (a run), `EvictedWereWarned`: `cron/index.js:83` promises a warning one
  hour before eviction.  `warning_sent` survives claim and transfer, so the next
  owner is evicted without one.
- `private` (a run), `PrivateStaysOff`: the hourly retry selects every answered
  question that is not synced, private answers included, and publishes them.
- `EveryContentKept` of `AnswerDelivery` (two `Editors`, `Offered = {"edit"}`):
  `editAnswer` "pushes the old content to content_versions" (`answers.js:214`), and
  `PROJECT_SUMMARY.md:69` promises the full history of versions.  It reads the row
  in one statement and writes it in a later one, so of two edits that overlap the
  text of the first is nowhere.
- `ReleasesOnlyInProcess` of `QuestionLifecycle`: `releaseQuestion` documents an
  error "if not in_process" (`questionService.js:148`), but its UPDATE asks for the
  id only.  An answer stored after the check goes back to the queue as an
  unanswered question that nobody can answer, because `answers.question_id` is
  UNIQUE.  `OnlyStaleReleaseReopens` is what holds.
- `EditArrives` of `AnswerDelivery`: `editAnswer` triggers a sync that skips what is
  already marked; an edit of a published answer never gets to the site.
- `StatusOnlyWithAnswer` of `ConnectionPool` (`Offered = {"webhook"}`): BEGIN,
  INSERT, UPDATE and COMMIT of the webhook may use different connections of an
  exhausted pool: the status is set and the answer is not, and the next user of
  the first connection writes into a transaction that nobody will commit.
- `EveryPostArrives` of `QuestionIntake` (under `FairSpec`, a post with the urgency
  high): the form offers that urgency, the CHECK of the column refuses it, and the
  question never gets to a rabbi.
- `AssignGivesOwner` of `DeskWriters`: the administrators' page sends
  `assigned_rabbi_id`, the handler reads `assignedRabbiId`: the page says that the
  question was attached to the rabbi, and it is in process without owner or lock,
  where no job finds it.
- `AlarmMeansReuse` of `Sessions`: "token already revoked" is taken for theft
  (`authService.js:231`), but a session removed from the list is revoked too; its
  browser, which still has the token, refreshes, and every session of the rabbi
  ends.

What holds instead is stated next to each: `OnlyStaleReleaseReopens`,
`LockWithinTenure`, `PrivateShownByOthers`, `TextLostToOverlap`, `IdleIsClean` without
the webhook, `OldTextFromStaleRead`, `UnforcedIsSound`, `OneSessionPerLogin`.

Observations made while modelling, which no property states:

- *Mail.*  A reply is marked as seen when it is fetched, so one that fails half way
  is lost.  Answers by mail are never pushed to the site, though the confirmation
  says published.  A claim by mail that was decided on an old look opens an
  answered question again.  `actionLinks.js` first queries a column that no
  migration creates, so its release links change nothing.
- *Sessions.*  No cookie parser is mounted, so the refresh token always comes from
  the body.  "Disconnect all" calls a route that does not exist.  Two refreshes of
  one token at once both succeed.  A refresh does not look at `is_active`.
- *Discussions.*  Live messages are never shown: the event carries `discussionId`,
  the page compares `msg.discussion_id` (`DiscussionChat.jsx:131`).  The cursor of
  older pages compares random UUIDs.  `assertMember` documents 410 for closed
  discussions and never sends it; `sendMessage` does not look at `is_open`.  A
  page of 40 marks all unread messages as read.
- *Feedback.*  The comment of `wp-thank` says that without Redis the address takes
  over, but that check needs Redis too.  The second of two visitors behind one
  address is told that he has thanked already.  The key is set before the UPDATE:
  when that fails the thank is lost for 30 days.  `thank-click` counts every call.
  Of two follow-ups that slipped through, only the newer can be answered.
- *Onboarding.*  A mail that always fails stays at the head of its LIMIT of 20.

## 5. Proofs

All are checked by TLAPS for every value of the constants under the named
`ASSUME` of the module.  Properties that only a theorem states are defined in the
module of its proof: `EvictedHadTheirTerm`, `StatusFollows`,
`ExchangedOnce`, `CopiesAreLimited`, `FollowUpsWithinCalls`; TLC found each of them
true on an instance of the size of section 3 before it was proved.

**QuestionLifecycle_proofs.**  From `StoreAssumption` and `LifecycleAssumption`.
`IInv` is `TypeOK`, the row and answer invariants (`TableInv`) and
`EvictionNamesOwner`.  Lemma `StepKinds` first reduces the twenty-odd actions to
eight kinds of write to a row; preservation is then one case per kind.
`TypeCorrect`, `InProcessAlwaysLocked`, `FullTerm`, `AnsweredAlwaysAuthored` and
`EvictionsNamed` are its conjuncts; the last needs the first property, since only
a row in process is evicted.  `AuthorsAreFinal`, `OnlyStaleReleases` and
`OnlyTransfersTake` are action properties from the same invariant.  `FullTermBeforeEviction`
draws the conclusion for the rabbi: whoever loses a question to the timeout job has
held it himself for at least `hours_to_timeout`.

`AnswersOnce` is the refinement, for all operations and both jobs.  A step is looked
at twice: for what it does to the tables, each kind of write being a step of
`AnswerOnce` or a stutter (`QuietStep`), and for what it does to the releases under
way (`RecallKinds`): their check grants a recall, their UPDATE is it, a failure
between the two drops it, and no other step touches one.

**AnswerDelivery_proofs.**  From `DeliveryAssumption`.  `SyncedIsShown` is not
inductive: a push sets the mark in a later step than it wrote the page.  `IInv`
adds that answered rows have a content (`AnsweredHasContent`) and others none
(`UnansweredIsBlank`), that what is in flight was answered (`InFlightIsAnswered`)
and that a push about to mark has filled the page (`MarkAfterText`).
`MarksAreTrue` follows.  `PrivateOnlyByOthers` holds beside all retries and
follow-ups: the pushes meant for public answers have nothing private in hand
(`OrdinaryIsPublic`), and a page changes only by the call of a push for one of its
rows (`PageChanges`).  `TextsLostToOverlapOnly` holds for any number of edits: the
present text is the last one saved (`ContentIsLast`), so an edit that finds the text
it had read finds the versions it had read too (`EditKnowsVersions`).

**ConnectionPool_proofs.**  From `PoolAssumption`.  `IInv` relates a handler's place
in its program to the transaction on its connection: between BEGIN and COMMIT the
writes so far are pending there, or the transaction is aborted and all that is
left is to end it (`TransactionInv`); a new handler has written nothing (`NewInv`);
closed and automatic connections have nothing pending (`PoolInv`); and without the
webhook the idle ones are clean (`CleanInv`).  From it: `TransactionsAreAtomic`,
`AcknowledgementsAreKept`, `IdleConnectionsAreClean`.

`TransactionsTakeEffectOnce` is the refinement of `AtomicStore`.  In every state a
transaction has no effect or all of it, and all of it where success was reported
(`EffectOf`).  What is committed stays, and a step commits on one connection, the
writes of the handler that holds it and what was pending there (`OneCommits`).  No
other transaction in progress has anything pending there, so only one effect
changes (`CommitsAlone`), from none to all; every other step, those of the webhook
and a COMMIT whose answer is lost included, is that step or a stutter
(`StoreStep`).

**QuestionIntake_proofs.**  From `IntakeAssumption`.  `IInv` orders revisions: a
row's text is no newer than its last write (`RowOK`), and neither that nor any call
or task is newer than the post (`CallOK`, `TaskOK`); a task that is about to update
a row has a call newer than its lookup.  All steps but those of WordPress leave
the posts alone, and lemma `Moves` says once what such a step must respect.
`EveryQuestionIsAnnounced` is a conjunct; `OldTextsAreStaleReads` follows because
only the UPDATE of a webhook call can lower a text, to a revision that is newer
than its lookup and older than the row's last write.

**DeskWriters_proofs.**  From the assumptions of `QuestionLifecycle`, whose
invariants it extends.  `UnforcedIsSound` is preserved row by row: every write is
one of a few kinds (`WritesRow`), each of which leaves a sound row or marks it
`forced`.  `ForeignTextNeedsRace` needs what an open mail knows: as long as its
question has not raced, the row is still as the mail read it (`ViewsHold`), the
text is stored before the status (`StoredFirst`) and the status says whether it is
(`StatusFollows`).  `StepFacts` states once what a step may do to the others'
views, and each action is shown to satisfy it.  `AuthorsOnlyRemoved` follows from
the foreign keys of a removal.  `TakenOnlyInRace` needs no more than the same
invariant: the dashboard takes a question away by a transfer only (`OthersTake`,
from the kinds of write of `QuestionLifecycle`), and a mail that does not belong to
an administrator writes an owner only to the row it read (`MailTakes`).
`OnlyRacesLeaveAnswersOpen` states `StatusFollows` for its own sake: a stored answer
whose question is not answered is a race, or a mail between its two statements.

**Sessions_proofs.**  From `SessionsAssumption`.  `RowsInv` numbers the rows in the
order of their INSERT; `CallsInv` says what each call carries.  The heart is
`RightInv`: only one call is *entitled* to insert the next row of a family, the
one that revoked its live row, or two that had found it live at once, and then the
family has raced.  `OneSessionPerLogin` follows.  `OriginInv` does the same for
the reset: no call past its check has an origin from before it that is not marked
as overtaken.

`StoredIsLast` needs to know who can have a token at all (`LastInv`): the number of
a new row is known to its answer alone (`NewIsUnknown`), so two browsers never keep
the same token (`OwnToken`), and a refresh under way carries the token of a browser
that waits for it or is signing out (`HeardOrLeaving`).  Most steps hand no token to
anybody (`Quiet`); an answer that is stored, a refresh that starts and an INSERT are
the three that do.

`TokenIsExchangedOnce` is a statement about tokens, not about families: a token has
at most one successor, however often its refresh is retried after a lost answer.
`ExchangeInv` lets a call *hold* a token from its check to its INSERT.  There is one
holder or one successor, and once the row is revoked nobody passes the check
again; only two calls that found the row live at once hold it both.

**Discussions_proofs.**  From `DiscussionsAssumption`.  Four invariants:
`SendInv` (a message has at most one call under way, and a row only if that call
is past its INSERT), `GateInv` (when the gate is shut, the calls past their check
are in `late`) and `ReadInv` (a rabbi whose page is open and not loading has every
stored message shown or excused).  For each a predicate says what a step may do
(`Follows`, `Asked`, `Reads`), and one lemma per action shows that it does.  The
fourth, `CopyInv`, counts where `OneCopyPerSend` gives way: a send has stored at most
one row on each of its tries (`Tried`), so `RetriesLimitCopies`: never more rows
than MAX_RETRIES and one.  It rests on `SendInv`, by which no other call stores a
row of that message.

**AskerFeedback_proofs.**  From `FeedbackAssumption`.  `AddressFollows` says of an
address that has not raced: at most one call is past its check; before the key is
set there is no key and nothing is counted; after it there is a key and still
nothing counted.  `KeyHasSource` gives every key a counted thank, a failed one, or
a call about to count.  `FollowInv` does for follow-ups what `AddressFollows` does
for thanks; `ShownInv` says that unless a push was missed the post shows the
count or some call carries it.  `FollowUpsAreBounded` says how far `OneFollowUp`
gives way when calls race, for any finite number of slots: the follow-ups stored and
the calls past the check are together never more than the slots (`PendingInv`),
for the check lets nobody through once one is stored.

## 6. Only model-checked

Liveness under fairness (`ExpiredLockIsLost`, `PublicAnswerArrives`) is outside
what the provers support, as is ENABLED, and stays with TLC at the bounds of
section 3.  Every other property of the passing runs is a theorem of section 5.
The divergences are counterexamples and need no proof.  No module has a
recursive operator, and nothing here rests on induction over data.

## 7. Not modelled

`PROJECT.json` gives the reason for each part.  In short: texts (mail parsing,
sanitising, templates, formatting), reads (statistics, reports, export),
single-statement handlers whose atomicity is PostgreSQL's (categories, leads,
donations by transaction, profiles, support), mails sent from a list
(onboarding, reminders, digests), the React pages but for the three whose
behaviour decides something (sessions, discussions, the administrators'
questions), deployment, and code that nothing reaches (`services/wpSyncQueue.js`,
`wordpressService.js`, `whatsappQueue.js`, `analytics.js`, `discussions.js`,
`utils/crypto.js`, `routes/wordpressWebhook.js`).  Most of the lines of the
repository are of these kinds: pages, templates, queries for reports.  The models
cover the statements that decide something and the order they come in.

Limits of the modules that exist:

- `DeskWriters` has no deletion or deactivation of questions and rabbis other than
  the removal of an account; the reply to a follow-up is left out; the SELECTs of
  the rabbi and of the question are one step with the decision they lead to.
- `AnswerDelivery` has one page per question; where WordPress keeps the text is
  left out, as are taxonomy terms, counters and the order of `content_versions`.
- `ConnectionPool` has no row locks and no isolation levels: its handlers write
  different rows.
- `QuestionIntake` has no deletion of rows, no answers from the WordPress side
  (`ConnectionPool` has that statement sequence), no attachments and no leads.  An
  administrator's deletion lets the import job bring the question back, since
  nothing fills `wp_post_blocklist`.
- `Sessions` has one rabbi; the second factor, the links of setup and Google's
  callback are not in it beyond the sign-in they end with; an access token is only
  its age.
- `Discussions` has no edits, deletions, pins and reactions of a message, no
  events, and no notifications of members who are away.
- `AskerFeedback` has one question; views, leads and the notifications of a thank
  are left out.  `number` of a push is the argument of the call, not what the site
  does with it.

## 8. How the modules were chosen

The order was that of the harm a wrong interleaving does: first who owns and
answers a question (`QuestionLifecycle`, then `DeskWriters` with everybody else who
writes those rows), then what the asker sees (`AnswerDelivery`, `AskerFeedback`),
what carries both (`ConnectionPool`), what gets lost on the way in
(`QuestionIntake`), who is signed in (`Sessions`) and what the rabbis tell each
other (`Discussions`).  What remains are the queues of mails (`onboardingDrip`,
`pendingReminder`) and the import of donations, each a read and one idempotent or
repeatable UPDATE per row that no other part reads.

## 9. Use

    tlc -workers 2 -config MCLifecycle_desk.cfg MCLifecycle
    tlapm QuestionLifecycle_proofs.tla

The name of a `.cfg` is that of its module, `_` and the run.
