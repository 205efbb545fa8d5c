---------------------------- MODULE QuestionIntake ----------------------------
(***************************************************************************)
(* How a question asked on the WordPress site becomes a row of questions   *)
(* and is announced to the rabbis.  WordPress calls the webhook once for a *)
(* new post and once for every change; calls are lost, delayed, repeated   *)
(* and overtake each other.  A job asks WordPress every five minutes for   *)
(* its newest posts and imports the missing ones through the same function *)
(* as the webhook, createFromWebhook.                                      *)
(*                                                                         *)
(* Texts are numbered by the revision of the post that carries them.  No   *)
(* clock is needed for the stale update guard: with seen, the revision of  *)
(* the post when its row was last written, "modified before updated_at"    *)
(* is "revision <= seen"; every call carries post_modified_gmt.  Rows are  *)
(* not deleted here, no answer is written on the WordPress side            *)
(* (ConnectionPool has that part of the webhook) and meta.status is        *)
(* absent, as no code calls updateQuestionStatus.                          *)
(***************************************************************************)
EXTENDS Integers, FiniteSets

CONSTANTS
    Posts,     \* wp_post_ids; a greater one was posted later
    NoPost,
    Form,      \* [Posts -> ...]: the title and address typed into the form
    Urgency,   \* [Posts -> {"normal", "high", "urgent"}]: chosen in the form
    Blocked,   \* wp_post_blocklist, filled by hand
    PerPage,   \* posts WordPress lists at once (50)
    Requests,  \* slots: webhook calls in progress at once
    Polls,     \* slots: runs of the job at once; safeJob lets runs overlap
    Faults,    \* whether statements and calls fail and the server restarts
    MaxRev     \* bound: [Posts -> Nat], revisions of each post

ASSUME IntakeAssumption ==
    /\ Posts \subseteq Nat
    /\ IsFiniteSet(Posts)
    /\ NoPost \in Int \ Posts
    /\ Urgency \in [Posts -> {"normal", "high", "urgent"}]
    /\ Blocked \subseteq Posts
    /\ PerPage \in Nat \ {0}
    /\ Requests \intersect Polls = {}
    /\ Faults \in BOOLEAN
    /\ MaxRev \in [Posts -> Nat \ {0}]

VARIABLES
    site,    \* the posts of the WordPress site
    calls,   \* webhook calls WordPress made, not yet arrived or to be repeated
    rows,    \* the table questions, by wp_post_id
    tasks,   \* what each webhook call and job run is about to do
    told,    \* history: rows that were announced
    lost     \* history: rows whose announcement a restart cut off

vars == <<site, calls, rows, tasks, told, lost>>

Revs == UNION {1 .. MaxRev[w] : w \in Posts}
Tasks == Requests \union Polls

\* encryptField draws a new IV every time: two ciphertexts of one address
\* differ, so a ciphertext is named by the use it was made for
Encrypted(w, use) == <<Form[w], w, use>>

SitePost == [status : {"none", "publish", "trash"}, rev : Revs \union {0}]
Call == [kind : {"new", "updated"}, post : Posts, rev : Revs, trashed : BOOLEAN]

NoRow == [status |-> "none", text |-> 0, seen |-> 0]
\* open: pending, in process or answered
Row == [status : {"open", "hidden"}, text : Revs, seen : Revs]

Item == [post : Posts, rev : Revs]
Task ==
    [at : {"idle", "check", "post", "twin", "insert", "tell", "apply"},
     post : Posts \union {NoPost},  \* the post at hand ...
     rev : Revs \union {0},         \* ... the revision of it in the payload
     trashed : BOOLEAN,             \* ... whether it says trash
     row : Posts \union {NoPost},   \* the row createFromWebhook returned
     seen : Revs \union {0},        \* updated_at and status as looked up
     hidden : BOOLEAN,
     todo : SUBSET Item]            \* the job's posts still to be imported

\* on the way to store a post
Storing(at, post, rev, todo) ==
    [at |-> at, post |-> post, rev |-> rev, trashed |-> FALSE, row |-> NoPost,
     seen |-> 0, hidden |-> FALSE, todo |-> todo]
Idle == Storing("idle", NoPost, 0, {})

TypeOK ==
    /\ site \in [Posts -> SitePost]
    /\ calls \in SUBSET Call
    /\ rows \in [Posts -> Row \union {NoRow}]
    /\ tasks \in [Tasks -> Task]
    /\ told \in SUBSET Posts
    /\ lost \in SUBSET Posts

Init ==
    /\ site = [w \in Posts |-> [status |-> "none", rev |-> 0]]
    /\ calls = {}
    /\ rows = [w \in Posts |-> NoRow]
    /\ tasks = [t \in Tasks |-> Idle]
    /\ told = {}
    /\ lost = {}

Stored(w) == rows[w] # NoRow

\* the newest PerPage posts that are not in the trash
Page ==
    LET listed == {w \in Posts : site[w].status = "publish"}
    IN  {w \in listed : Cardinality({v \in listed : v > w}) < PerPage}

\* the call arrives; it may come again
Arrives(call) ==
    /\ call \in calls
    /\ calls' \in {calls, calls \ {call}}

At(t, at) == tasks[t].at = at
Goes(t, at) == tasks' = [tasks EXCEPT ![t].at = at]

\* the job goes on to the newest post left; a webhook call, or a job with none
\* left, is over
Following(todo) ==
    IF todo = {} THEN {Idle}
    ELSE {Storing("check", item.post, item.rev, todo \ {item}) :
             item \in {i \in todo : \A j \in todo : j.post <= i.post}}
GoesOn(t) ==
    \E next \in Following(tasks[t].todo) : tasks' = [tasks EXCEPT ![t] = next]

------------------------------------------------------------------------------
(* Mutants: what a plausible slip would make of the definitions below.     *)

\* after storing a post the next one is taken at once
AfterInsert(t) == CHOOSE next \in Following(tasks[t].todo) : TRUE

\* the change is compared with nothing
StaleNever(rev, seen) == FALSE

\* a row is written that was never inserted
DeskWritesAnywhere(w) ==
    /\ rows' = [rows EXCEPT ![w].seen = site[w].rev]
    /\ UNCHANGED <<site, calls, tasks, told, lost>>

------------------------------------------------------------------------------
(* WordPress.                                                              *)

\* the asker sends the form
Submit(w) ==
    /\ site[w].status = "none"
    /\ \A v \in Posts : v < w => site[v].status # "none"
    /\ site' = [site EXCEPT ![w] = [status |-> "publish", rev |-> 1]]
    /\ calls' = calls \union
           {[kind |-> "new", post |-> w, rev |-> 1, trashed |-> FALSE]}
    /\ UNCHANGED <<rows, tasks, told, lost>>

\* an editor of the site changes the post or puts it in the trash
Change(w) ==
    /\ site[w].status = "publish"
    /\ site[w].rev < MaxRev[w]
    /\ \E trashed \in BOOLEAN :
        /\ site' = [site EXCEPT ![w] =
               [status |-> IF trashed THEN "trash" ELSE "publish", rev |-> @.rev + 1]]
        /\ calls' = calls \union
               {[kind |-> "updated", post |-> w, rev |-> site[w].rev + 1,
                 trashed |-> trashed]}
    /\ UNCHANGED <<rows, tasks, told, lost>>

CallLost ==
    /\ \E call \in calls : calls' = calls \ {call}
    /\ UNCHANGED <<site, rows, tasks, told, lost>>

------------------------------------------------------------------------------
(* POST /new-question and the job, up to their common part.                *)

\* the webhook looks the post up; when that fails it goes on
NewQuestion(t) ==
    /\ At(t, "idle")
    /\ \E call \in calls :
        /\ call.kind = "new"
        /\ Arrives(call)
        /\ \/ /\ Stored(call.post)
              /\ UNCHANGED tasks
           \/ /\ ~Stored(call.post) \/ Faults
              /\ tasks' = [tasks EXCEPT ![t] =
                     Storing("post", call.post, call.rev, {})]
    /\ UNCHANGED <<site, rows, told, lost>>

\* getNewQuestions: the newest posts, less what is stored or blocked
PollStart(t) ==
    /\ At(t, "idle")
    /\ LET missing == {w \in Page : ~Stored(w) /\ w \notin Blocked}
       IN  /\ missing # {}
           /\ \E next \in Following({[post |-> w, rev |-> site[w].rev] : w \in missing}) :
                  tasks' = [tasks EXCEPT ![t] = next]
    /\ UNCHANGED <<site, calls, rows, told, lost>>

\* the job looks each post up once more; when that fails it goes on
Check(t) ==
    /\ At(t, "check")
    /\ \/ /\ Stored(tasks[t].post) \/ tasks[t].post \in Blocked
          /\ GoesOn(t)
       \/ /\ ~(Stored(tasks[t].post) \/ tasks[t].post \in Blocked) \/ Faults
          /\ Goes(t, "post")
    /\ UNCHANGED <<site, calls, rows, told, lost>>

------------------------------------------------------------------------------
(* createFromWebhook and what its callers do with the row it returns.      *)

Returning(t, w) == [tasks[t] EXCEPT !.at = "tell", !.row = w]
Returns(t, w) == tasks' = [tasks EXCEPT ![t] = Returning(t, w)]

\* is there a row for the post?
FindPost(t) ==
    /\ At(t, "post")
    /\ IF Stored(tasks[t].post) THEN Returns(t, tasks[t].post)
       ELSE Goes(t, "twin")
    /\ UNCHANGED <<site, calls, rows, told, lost>>

\* is there a row with the same title and the ciphertext just made of the
\* address?  The posts of one form are all sent within the 24 hours it looks back
Twins(w) ==
    {v \in Posts : /\ Stored(v)
                   /\ Form[v] = Form[w]
                   /\ Encrypted(v, "store") = Encrypted(w, "check")}

FindTwin(t) ==
    /\ At(t, "twin")
    /\ IF Twins(tasks[t].post) = {} THEN Goes(t, "insert")
       ELSE \E v \in Twins(tasks[t].post) : Returns(t, v)
    /\ UNCHANGED <<site, calls, rows, told, lost>>

\* what the CHECK of the column urgency lets in
UrgencyAllowed(w) == Urgency[w] \in {"normal", "urgent"}

Inserted(t) == Returning(t, tasks[t].post)

\* UNIQUE wp_post_id or the CHECK may refuse the row: the webhook call fails,
\* the job counts a failure
Insert(t) ==
    LET w == tasks[t].post
    IN  /\ At(t, "insert")
        /\ IF ~Stored(w) /\ UrgencyAllowed(w)
           THEN /\ rows' = [rows EXCEPT ![w] =
                       [status |-> "open", text |-> tasks[t].rev,
                        seen |-> site[w].rev]]
                /\ tasks' = [tasks EXCEPT ![t] = Inserted(t)]
           ELSE GoesOn(t) /\ UNCHANGED rows
        /\ UNCHANGED <<site, calls, told, lost>>

\* the socket broadcast and notifyAll, whichever row was returned
Announce(t) ==
    /\ At(t, "tell")
    /\ told' = told \union {tasks[t].row}
    /\ GoesOn(t)
    /\ UNCHANGED <<site, calls, rows, lost>>

------------------------------------------------------------------------------
(* POST /question-updated, the desk, and faults.                           *)

\* modified before the row was last written
Stale(rev, seen) == rev <= seen

\* the webhook looks the row up: there is none, or the change is stale, or it
\* is applied
QuestionUpdated(t) ==
    /\ At(t, "idle")
    /\ \E call \in calls :
        LET w == call.post
        IN  /\ call.kind = "updated"
            /\ Arrives(call)
            /\ IF ~Stored(w) \/ Stale(call.rev, rows[w].seen) THEN UNCHANGED tasks
               ELSE tasks' = [tasks EXCEPT ![t] =
                       [at |-> "apply", post |-> w, rev |-> call.rev,
                        trashed |-> call.trashed, row |-> NoPost, seen |-> rows[w].seen,
                        hidden |-> rows[w].status = "hidden", todo |-> {}]]
    /\ UNCHANGED <<site, rows, told, lost>>

\* UPDATE questions ... WHERE id: title, content and urgency, and the status of
\* a trashed post that was not hidden when it was looked up
Apply(t) ==
    LET task == tasks[t]
    IN  /\ At(t, "apply")
        /\ rows' = [rows EXCEPT ![task.post] =
               [status |-> IF task.trashed /\ ~task.hidden THEN "hidden" ELSE @.status,
                text |-> task.rev, seen |-> site[task.post].rev]]
        /\ GoesOn(t)
        /\ UNCHANGED <<site, calls, told, lost>>

\* any other UPDATE of the row, be it a claim, an answer or the address that the
\* webhook fetches three seconds later: the trigger sets updated_at
DeskWrites(w) ==
    /\ Stored(w)
    /\ rows' = [rows EXCEPT ![w].seen = site[w].rev]
    /\ UNCHANGED <<site, calls, tasks, told, lost>>

\* a statement of createFromWebhook or the UPDATE fails
StatementFails(t) ==
    /\ Faults
    /\ tasks[t].at \in {"post", "twin", "insert", "apply"}
    /\ GoesOn(t)
    /\ UNCHANGED <<site, calls, rows, told, lost>>

Restart ==
    /\ Faults
    /\ \E t \in Tasks : ~At(t, "idle")
    /\ tasks' = [t \in Tasks |-> Idle]
    /\ lost' = lost \union {tasks[t].row : t \in {u \in Tasks : At(u, "tell")}}
    /\ UNCHANGED <<site, calls, rows, told>>

------------------------------------------------------------------------------
TaskStep(t) == FindPost(t) \/ FindTwin(t) \/ Insert(t) \/ Announce(t) \/ StatementFails(t)

Next ==
    \/ \E w \in Posts : Submit(w) \/ Change(w) \/ DeskWrites(w)
    \/ CallLost
    \/ \E t \in Requests : NewQuestion(t) \/ QuestionUpdated(t) \/ Apply(t)
    \/ \E t \in Polls : PollStart(t) \/ Check(t)
    \/ \E t \in Tasks : TaskStep(t)
    \/ Restart

Spec == Init /\ [][Next]_vars

\* cron starts the job every five minutes, and neither WordPress nor the database
\* fails for ever, nor does the server restart at the same point for ever
FairSpec ==
    /\ Spec
    /\ \A t \in Polls :
        /\ SF_vars(PollStart(t))
        /\ SF_vars(Announce(t))
        /\ \A w \in Posts :
            /\ SF_vars(tasks[t].post = w /\ Check(t))
            /\ SF_vars(tasks[t].post = w /\ FindPost(t))
            /\ SF_vars(tasks[t].post = w /\ FindTwin(t))
            /\ SF_vars(tasks[t].post = w /\ Insert(t))

------------------------------------------------------------------------------
(* Properties.                                                             *)

\* Every stored question was announced to the rabbis, or somebody is about to
\* announce it, or a restart came between the INSERT and the announcement: no
\* path that stores a post returns without notifyAll (wpWebhook.js:251-268,
\* questionSyncService.js:185-215), and a post once stored is never looked at
\* again by the job.
StoredIsAnnounced ==
    \A w \in Posts : Stored(w) =>
        \/ w \in told
        \/ w \in lost
        \/ \E t \in Tasks : At(t, "tell") /\ tasks[t].row = w

\* The text of a question goes back to an older revision only through a call
\* that looked the row up before its last write: the stale update guard
\* (wpWebhook.js:433-445) stops every call that arrives late, but holds only
\* from the lookup to the UPDATE.
OldTextFromStaleRead ==
    [][\A w \in Posts : rows'[w].text < rows[w].text =>
          \E t \in Requests : /\ At(t, "apply")
                              /\ tasks[t].post = w
                              /\ tasks[t].seen < rows[w].seen]_vars

\* A post that stays among the newest of the site is stored, even when all its
\* webhook calls are lost: the job finds it (questionSyncService.js:61-62, "in
\* pull mode for resilience").  Not so a post sent as high: the form of the site
\* offers that urgency, and the CHECK of the column refuses it at every attempt.
EveryPostArrives ==
    \A w \in Posts : w \in Page \ Blocked ~> Stored(w) \/ w \notin Page
==============================================================================
