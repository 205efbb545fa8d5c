------------------------ MODULE QuestionIntake_proofs ------------------------
(***************************************************************************)
(* QuestionIntake for any posts, forms, urgencies, slots and faults: no    *)
(* question is stored in silence, and only a call with a stale lookup puts *)
(* an old text back.                                                       *)
(*                                                                         *)
(* The invariant orders the revisions: a row carries a text no newer than  *)
(* its last write, and neither that nor anything in flight is newer than   *)
(* the post.  All steps but those of WordPress leave the posts alone, and  *)
(* lemma Moves says what such a step has to do to keep the invariant.      *)
(***************************************************************************)
EXTENDS QuestionIntake, TLAPS

\* the revisions of a post
SiteOK(w) ==
    /\ site[w].rev \in 0 .. MaxRev[w]
    /\ site[w].status = "none" <=> site[w].rev = 0

CallOK(call) == call.rev <= site[call.post].rev

RowOK(w, row) ==
    /\ row.text <= row.seen
    /\ row.seen <= site[w].rev

\* what the task of slot t knows of posts and rows
TaskOK(t, task) ==
    /\ task.at # "idle" =>
        /\ task.post \in Posts
        /\ task.rev # 0
        /\ task.rev <= site[task.post].rev
    /\ \A item \in task.todo : item.rev <= site[item.post].rev
    /\ task.at = "tell" => task.row \in Posts
    /\ task.at = "apply" => /\ t \in Requests
                            /\ Stored(task.post)
                            /\ task.seen < task.rev

IInv ==
    /\ TypeOK
    /\ \A w \in Posts : SiteOK(w) /\ RowOK(w, rows[w])
    /\ \A call \in calls : CallOK(call)
    /\ \A t \in Tasks : TaskOK(t, tasks[t])
    /\ StoredIsAnnounced

------------------------------------------------------------------------------
\* Revisions are positive numbers; 1 is one, and so is the next one of a post.
LEMMA RevsArePositive ==
    /\ Revs \subseteq Nat \ {0}
    /\ Revs \union {0} \subseteq Nat
    /\ \A w \in Posts, n \in Nat : n < MaxRev[w] => n + 1 \in Revs
    /\ \A w \in Posts : 1 \in Revs
  BY IntakeAssumption DEF Revs

\* What a row is.
LEMMA RowsAreTyped ==
    ASSUME TypeOK, NEW w \in Posts
    PROVE  /\ Stored(w) => rows[w] \in Row
           /\ ~Stored(w) => rows[w] = NoRow
           /\ rows[w].text \in Nat /\ rows[w].seen \in Nat
           /\ ~Stored(w) <=> rows[w].text = 0
           /\ site[w].rev \in Nat
  <1>1. rows[w] \in Row \/ rows[w] = NoRow
    BY DEF TypeOK
  <1>2. ASSUME rows[w] \in Row
        PROVE  Stored(w) /\ rows[w].text \in Nat \ {0} /\ rows[w].seen \in Nat
    <2>1. rows[w].text \in Revs /\ rows[w].seen \in Revs
      BY <1>2 DEF Row
    <2>2. rows[w].text \in Nat \ {0} /\ rows[w].seen \in Nat
      BY <2>1, RevsArePositive
    <2> QED
      BY <2>2 DEF NoRow, Stored
  <1>3. ASSUME rows[w] = NoRow
        PROVE  ~Stored(w) /\ rows[w].text = 0 /\ rows[w].seen = 0
    BY <1>3 DEF NoRow, Stored
  <1>4. site[w] \in SitePost
    BY DEF TypeOK
  <1>5. site[w].rev \in Nat
    <2>1. site[w].rev \in Revs \union {0}
      BY <1>4 DEF SitePost
    <2> QED
      BY <2>1, RevsArePositive
  <1> QED
    BY <1>1, <1>2, <1>3, <1>5

\* A step that leaves the posts alone keeps the invariant when whatever it
\* writes respects the revisions, the rows it adds are about to be announced and
\* no announcement is forgotten.
LEMMA Moves ==
    ASSUME IInv,
           UNCHANGED site,
           calls' \subseteq calls,
           told \subseteq told', told' \subseteq Posts,
           lost \subseteq lost', lost' \subseteq Posts,
           tasks' \in [Tasks -> Task],
           \A t \in Tasks : tasks'[t] = tasks[t] \/ TaskOK(t, tasks'[t]),
           rows' \in [Posts -> Row \union {NoRow}],
           \A w \in Posts : rows'[w] = rows[w] \/ (rows'[w] \in Row /\ RowOK(w, rows'[w])),
           \A w \in Posts : Stored(w)' /\ ~Stored(w) =>
               \E t \in Tasks : tasks'[t].at = "tell" /\ tasks'[t].row = w,
           \A t \in Tasks : tasks[t].at = "tell" =>
               tasks'[t] = tasks[t] \/ tasks[t].row \in told' \union lost'
    PROVE  IInv'
  <1>1. TypeOK'
    BY DEF IInv, TypeOK
  <1>2. \A w \in Posts : SiteOK(w)' /\ RowOK(w, rows[w])'
    BY DEF IInv, SiteOK, RowOK
  <1>3. \A call \in calls' : CallOK(call)'
    BY DEF IInv, CallOK
  <1>4. \A w \in Posts : Stored(w) => Stored(w)'
    BY RevsArePositive DEF Stored, Row, NoRow
  <1>5. ASSUME NEW t \in Tasks PROVE TaskOK(t, tasks[t])'
    <2>1. TaskOK(t, tasks'[t])
      BY DEF IInv
    <2> QED
      BY <2>1, <1>4 DEF TaskOK
  <1>6. ASSUME NEW w \in Posts, Stored(w)'
        PROVE  \/ w \in told'
               \/ w \in lost'
               \/ \E t \in Tasks : tasks'[t].at = "tell" /\ tasks'[t].row = w
    BY <1>6 DEF IInv, StoredIsAnnounced, At
  <1> QED
    BY <1>1, <1>2, <1>3, <1>5, <1>6 DEF IInv, StoredIsAnnounced, At

\* A step of WordPress: one post gets a newer revision, and a call says so.
LEMMA SiteMoves ==
    ASSUME IInv, NEW w \in Posts, NEW post \in SitePost, NEW call \in Call,
           site' = [site EXCEPT ![w] = post],
           calls' = calls \union {call},
           post.rev = site[w].rev + 1, post.rev \in 1 .. MaxRev[w],
           post.status # "none",
           call.post = w, call.rev = post.rev,
           UNCHANGED <<rows, tasks, told, lost>>
    PROVE  IInv'
  <1>1. \A v \in Posts : site[v].rev \in Nat /\ site'[v].rev \in Nat
                         /\ site[v].rev <= site'[v].rev
    <2>1. \A v \in Posts : site[v].rev \in Nat
      BY RowsAreTyped DEF IInv
    <2>2. site' \in [Posts -> SitePost] /\ site'[w] = post
          /\ \A v \in Posts : v # w => site'[v] = site[v]
      BY DEF IInv, TypeOK
    <2> QED
      BY <2>1, <2>2
  <1>2. TypeOK'
    BY DEF IInv, TypeOK
  <1>3. \A v \in Posts : SiteOK(v)' /\ RowOK(v, rows[v])'
    <2> SUFFICES ASSUME NEW v \in Posts PROVE SiteOK(v)' /\ RowOK(v, rows[v])'
      OBVIOUS
    <2>1. rows[v].text \in Nat /\ rows[v].seen \in Nat
      BY RowsAreTyped DEF IInv
    <2> QED
      BY <1>1, <2>1 DEF IInv, TypeOK, SiteOK, RowOK
  <1>4. ASSUME NEW c \in calls' PROVE CallOK(c)'
    <2>1. CASE c = call
      BY <1>1, <2>1 DEF IInv, TypeOK, CallOK
    <2>2. CASE c \in calls
      <3>1. c.post \in Posts /\ c.rev \in Nat /\ CallOK(c)
        BY <2>2, RevsArePositive DEF IInv, TypeOK, Call
      <3> QED
        BY <3>1, <1>1 DEF CallOK
    <2> QED
      BY <2>1, <2>2, <1>4
  <1>5. ASSUME NEW t \in Tasks PROVE TaskOK(t, tasks[t])'
    <2>1. TaskOK(t, tasks[t]) /\ tasks[t] \in Task
      BY DEF IInv, TypeOK
    <2>2. tasks[t].rev \in Nat /\ tasks[t].todo \subseteq Item
      <3>1. tasks[t].rev \in Revs \union {0} /\ tasks[t].todo \subseteq Item
        BY <2>1 DEF Task
      <3> QED
        BY <3>1, RevsArePositive
    <2>4. \A item \in tasks[t].todo : item.post \in Posts /\ item.rev \in Nat
      BY <2>2, RevsArePositive DEF Item
    <2>3. \A v \in Posts, n \in Nat : n <= site[v].rev => n <= site'[v].rev
      BY <1>1
    <2> QED
      BY <2>1, <2>2, <2>3, <2>4 DEF TaskOK, Stored
  <1>6. StoredIsAnnounced'
    BY DEF IInv, StoredIsAnnounced, Stored, At
  <1> QED
    BY <1>2, <1>3, <1>4, <1>5, <1>6 DEF IInv

\* The same for a step in which one task goes on and no row is written.
LEMMA TaskGoes ==
    ASSUME IInv, NEW t \in Tasks, NEW next \in Task, TaskOK(t, next),
           tasks' = [tasks EXCEPT ![t] = next],
           UNCHANGED <<site, rows, lost>>,
           calls' \subseteq calls,
           told \subseteq told', told' \subseteq Posts,
           tasks[t].at = "tell" => tasks[t].row \in told'
    PROVE  IInv'
  <1>1. tasks \in [Tasks -> Task] /\ rows \in [Posts -> Row \union {NoRow}]
        /\ lost \subseteq Posts
    BY DEF IInv, TypeOK
  <1>2. tasks' \in [Tasks -> Task] /\ tasks'[t] = next
        /\ \A u \in Tasks : u # t => tasks'[u] = tasks[u]
    BY <1>1
  <1>3. \A w \in Posts : Stored(w)' => Stored(w)
    BY DEF Stored
  <1> QED
    BY <1>1, <1>2, <1>3, Moves

\* A task on the way to store a post is typed.
LEMMA StoringTyped ==
    ASSUME NEW at \in {"idle", "check", "post", "twin", "insert", "tell"},
           NEW post \in Posts \union {NoPost}, NEW rev \in Revs \union {0},
           NEW todo \in SUBSET Item
    PROVE  Storing(at, post, rev, todo) \in Task
  BY DEF Storing, Task

\* Whatever follows, it is the end or the next post of the job.
LEMMA FollowingOK ==
    ASSUME NEW t \in Tasks, NEW todo \in SUBSET Item,
           \A item \in todo : item.rev <= site[item.post].rev,
           NEW next \in Following(todo)
    PROVE  next \in Task /\ TaskOK(t, next)
  <1>1. CASE todo = {}
    <2>1. next = Storing("idle", NoPost, 0, {})
      BY <1>1 DEF Following, Idle
    <2>2. next \in Task
      BY <2>1, StoringTyped
    <2> QED
      BY <2>1, <2>2 DEF Storing, TaskOK
  <1>2. CASE todo # {}
    <2>1. PICK item \in todo :
              next = Storing("check", item.post, item.rev, todo \ {item})
      BY <1>2 DEF Following
    <2>2. item.post \in Posts /\ item.rev \in Revs
      BY <2>1 DEF Item
    <2>3. item.rev # 0
      BY <2>2, RevsArePositive
    <2>4. next \in Task
      BY <2>1, <2>2, StoringTyped
    <2> QED
      BY <2>1, <2>2, <2>3, <2>4 DEF Storing, TaskOK
  <1> QED
    BY <1>1, <1>2

\* A task that goes on to the next post, or is over.
LEMMA GoingOn ==
    ASSUME IInv, NEW t \in Tasks, GoesOn(t),
           UNCHANGED <<site, rows, lost>>,
           calls' \subseteq calls,
           told \subseteq told', told' \subseteq Posts,
           tasks[t].at = "tell" => tasks[t].row \in told'
    PROVE  IInv'
  <1>1. PICK next \in Following(tasks[t].todo) : tasks' = [tasks EXCEPT ![t] = next]
    BY DEF GoesOn
  <1>2. tasks[t] \in Task /\ TaskOK(t, tasks[t])
    BY DEF IInv, TypeOK
  <1>3. tasks[t].todo \in SUBSET Item
    BY <1>2 DEF Task
  <1>4. next \in Task /\ TaskOK(t, next)
    BY <1>2, <1>3, FollowingOK DEF TaskOK
  <1> QED
    BY <1>1, <1>4, TaskGoes

\* A busy task takes its next step for the same post.
LEMMA SamePost ==
    ASSUME IInv, NEW t \in Tasks, NEW at \in {"check", "post", "twin", "insert", "tell"},
           tasks[t].at \in {"check", "post", "twin", "insert"},
           tasks' = [tasks EXCEPT ![t].at = at], at # "tell",
           UNCHANGED <<site, calls, rows, told, lost>>
    PROVE  IInv'
  <1> DEFINE next == [tasks[t] EXCEPT !.at = at]
  <1>1. tasks[t] \in Task /\ TaskOK(t, tasks[t]) /\ told \subseteq Posts
    BY DEF IInv, TypeOK
  <1>2. next \in Task
    BY <1>1 DEF Task
  <1>3. TaskOK(t, next)
    BY <1>1 DEF TaskOK, Task
  <1>4. tasks' = [tasks EXCEPT ![t] = next]
    OBVIOUS
  <1> HIDE DEF next
  <1> QED
    BY <1>1, <1>2, <1>3, <1>4, TaskGoes

\* createFromWebhook returns a row.
LEMMA ReturningOK ==
    ASSUME IInv, NEW t \in Tasks, tasks[t].at \in {"post", "twin", "insert"}, NEW w \in Posts
    PROVE  /\ Returning(t, w) \in Task
           /\ TaskOK(t, Returning(t, w))
           /\ Returning(t, w).at = "tell"
           /\ Returning(t, w).row = w
  <1>1. tasks[t] \in Task /\ TaskOK(t, tasks[t])
    BY DEF IInv, TypeOK
  <1>2. /\ tasks[t].post \in Posts /\ tasks[t].rev \in Revs \union {0}
        /\ tasks[t].todo \in SUBSET Item
    BY <1>1 DEF Task, TaskOK
  <1>3. Returning(t, w) \in Task
    BY <1>1 DEF Returning, Task
  <1>4. /\ Returning(t, w).at = "tell" /\ Returning(t, w).row = w
        /\ Returning(t, w).post = tasks[t].post /\ Returning(t, w).rev = tasks[t].rev
        /\ Returning(t, w).todo = tasks[t].todo
    BY <1>1 DEF Returning, Task
  <1>5. TaskOK(t, Returning(t, w))
    BY <1>1, <1>4 DEF TaskOK
  <1> QED
    BY <1>3, <1>4, <1>5

------------------------------------------------------------------------------
(* The steps.                                                              *)

\* No post and no task at first.
LEMMA InitOK == Init => IInv
  <1> SUFFICES ASSUME Init PROVE IInv
    OBVIOUS
  <1>1. Idle \in Task /\ \A t \in Tasks : TaskOK(t, Idle)
    <2>1. Idle \in Task
      BY StoringTyped DEF Idle
    <2> QED
      BY <2>1 DEF Idle, Storing, TaskOK
  <1>2. TypeOK
    BY <1>1 DEF Init, TypeOK, SitePost
  <1>3. \A w \in Posts : SiteOK(w) /\ RowOK(w, rows[w])
    BY IntakeAssumption DEF Init, SiteOK, RowOK, NoRow
  <1>4. StoredIsAnnounced
    BY DEF Init, StoredIsAnnounced, Stored
  <1> QED
    BY <1>1, <1>2, <1>3, <1>4 DEF Init, IInv

\* The site stores a post.
LEMMA SubmitOK == ASSUME IInv, NEW w \in Posts, Submit(w) PROVE IInv'
  <1> DEFINE post == [status |-> "publish", rev |-> 1]
             call == [kind |-> "new", post |-> w, rev |-> 1, trashed |-> FALSE]
  <1>1. site[w] \in SitePost /\ SiteOK(w)
    BY DEF IInv, TypeOK
  <1>2. 1 \in Revs /\ 1 \in 1 .. MaxRev[w]
    BY RevsArePositive, IntakeAssumption
  <1>3. post \in SitePost /\ call \in Call
    BY <1>2 DEF SitePost, Call
  <1>4. site[w].rev = 0
    BY <1>1 DEF Submit, SiteOK
  <1>5. /\ post.rev = site[w].rev + 1 /\ post.rev \in 1 .. MaxRev[w]
        /\ post.status # "none" /\ call.post = w /\ call.rev = post.rev
    BY <1>2, <1>4
  <1>6. site' = [site EXCEPT ![w] = post] /\ calls' = calls \union {call}
        /\ UNCHANGED <<rows, tasks, told, lost>>
    BY DEF Submit
  <1> HIDE DEF post, call
  <1> QED
    BY <1>3, <1>5, <1>6, SiteMoves

\* The site changes a post.
LEMMA ChangeOK == ASSUME IInv, NEW w \in Posts, Change(w) PROVE IInv'
  <1>1. PICK trashed \in BOOLEAN :
          /\ site' = [site EXCEPT ![w] =
               [status |-> IF trashed THEN "trash" ELSE "publish", rev |-> site[w].rev + 1]]
          /\ calls' = calls \union
               {[kind |-> "updated", post |-> w, rev |-> site[w].rev + 1,
                 trashed |-> trashed]}
    BY DEF Change
  <1> DEFINE post == [status |-> IF trashed THEN "trash" ELSE "publish",
                      rev |-> site[w].rev + 1]
             call == [kind |-> "updated", post |-> w, rev |-> site[w].rev + 1,
                      trashed |-> trashed]
  <1>2. site[w].rev \in Nat /\ site[w].rev < MaxRev[w] /\ MaxRev[w] \in Nat
    BY RowsAreTyped, IntakeAssumption DEF IInv, Change
  <1>3. site[w].rev + 1 \in Revs /\ site[w].rev + 1 \in 1 .. MaxRev[w]
    BY <1>2, RevsArePositive
  <1>4. post \in SitePost /\ call \in Call
    BY <1>3 DEF SitePost, Call
  <1>5. /\ post.rev = site[w].rev + 1 /\ post.rev \in 1 .. MaxRev[w]
        /\ post.status # "none" /\ call.post = w /\ call.rev = post.rev
    BY <1>3
  <1>6. site' = [site EXCEPT ![w] = post] /\ calls' = calls \union {call}
        /\ UNCHANGED <<rows, tasks, told, lost>>
    BY <1>1 DEF Change
  <1> HIDE DEF post, call
  <1> QED
    BY <1>4, <1>5, <1>6, SiteMoves

\* A call of the webhook is lost.
LEMMA CallLostOK == ASSUME IInv, CallLost PROVE IInv'
  <1>1. tasks' = tasks /\ rows' = rows /\ calls' \subseteq calls
        /\ UNCHANGED <<site, told, lost>>
    BY DEF CallLost
  <1>2. tasks \in [Tasks -> Task] /\ rows \in [Posts -> Row \union {NoRow}]
        /\ told \subseteq Posts /\ lost \subseteq Posts
    BY DEF IInv, TypeOK
  <1>3. \A w \in Posts : Stored(w)' => Stored(w)
    BY <1>1 DEF Stored
  <1> QED
    BY <1>1, <1>2, <1>3, Moves

\* What a call says of its post.
LEMMA CallsAreTyped ==
    ASSUME IInv, NEW call \in calls
    PROVE  /\ call.post \in Posts
           /\ call.rev \in Revs
           /\ call.trashed \in BOOLEAN
           /\ CallOK(call)
  BY DEF IInv, TypeOK, Call

\* The webhook begins with a new question.
LEMMA NewQuestionOK == ASSUME IInv, NEW t \in Requests, NewQuestion(t) PROVE IInv'
  <1>1. PICK call \in calls :
            /\ Arrives(call)
            /\ \/ UNCHANGED tasks
               \/ tasks' = [tasks EXCEPT ![t] = Storing("post", call.post, call.rev, {})]
    BY DEF NewQuestion, Arrives
  <1>2. calls' \subseteq calls /\ t \in Tasks
    BY <1>1 DEF Arrives, Tasks
  <1>3. told \subseteq Posts /\ UNCHANGED <<site, rows, told, lost>> /\ tasks[t].at = "idle"
        /\ tasks \in [Tasks -> Task] /\ tasks[t] \in Task /\ TaskOK(t, tasks[t])
    BY <1>2 DEF IInv, TypeOK, NewQuestion, At
  <1>4. CASE UNCHANGED tasks
    <2>1. tasks' = [tasks EXCEPT ![t] = tasks[t]]
      BY <1>3, <1>4
    <2> QED
      BY <2>1, <1>2, <1>3, TaskGoes
  <1>5. CASE tasks' = [tasks EXCEPT ![t] = Storing("post", call.post, call.rev, {})]
    <2>1. call.post \in Posts /\ call.rev \in Revs /\ call.rev # 0 /\ CallOK(call)
      BY CallsAreTyped, RevsArePositive
    <2>2. Storing("post", call.post, call.rev, {}) \in Task
      BY <2>1, StoringTyped
    <2>3. TaskOK(t, Storing("post", call.post, call.rev, {}))
      BY <2>1 DEF Storing, TaskOK, CallOK
    <2> QED
      BY <2>2, <2>3, <1>2, <1>3, <1>5, TaskGoes
  <1> QED
    BY <1>1, <1>4, <1>5

\* A run of the import job lists the posts.
LEMMA PollStartOK == ASSUME IInv, NEW t \in Polls, PollStart(t) PROVE IInv'
  <1> DEFINE missing == {w \in Page : ~Stored(w) /\ w \notin Blocked}
             todo == {[post |-> w, rev |-> site[w].rev] : w \in missing}
  <1>1. PICK next \in Following(todo) : tasks' = [tasks EXCEPT ![t] = next]
    BY DEF PollStart
  <1>2. \A w \in missing : w \in Posts /\ site[w].rev \in Revs
    <2> SUFFICES ASSUME NEW w \in missing PROVE w \in Posts /\ site[w].rev \in Revs
      OBVIOUS
    <2>1. w \in Posts /\ site[w].status = "publish"
      BY DEF Page
    <2>2. site[w] \in SitePost
      BY <2>1 DEF IInv, TypeOK
    <2>3. site[w].rev # 0
      BY <2>1 DEF IInv, SiteOK
    <2> QED
      BY <2>1, <2>2, <2>3 DEF SitePost
  <1>3. todo \in SUBSET Item
    BY <1>2 DEF Item
  <1>4. \A item \in todo : item.rev <= site[item.post].rev
    <2>1. \A w \in missing : site[w].rev \in Nat
      BY <1>2, RowsAreTyped DEF IInv
    <2>2. \A w \in missing : site[w].rev <= site[w].rev
      BY <2>1
    <2> QED
      BY <2>2
  <1>5. t \in Tasks
    BY DEF Tasks
  <1> HIDE DEF todo
  <1>6. next \in Task /\ TaskOK(t, next)
    BY <1>3, <1>4, <1>5, FollowingOK
  <1>7. told \subseteq Posts /\ tasks[t].at = "idle" /\ UNCHANGED <<site, calls, rows, told, lost>>
    BY DEF IInv, TypeOK, PollStart, At
  <1> QED
    BY <1>1, <1>5, <1>6, <1>7, TaskGoes

\* The job looks up a post of its list.
LEMMA CheckOK == ASSUME IInv, NEW t \in Polls, Check(t) PROVE IInv'
  <1>1. t \in Tasks /\ tasks[t].at = "check" /\ told \subseteq Posts
        /\ UNCHANGED <<site, calls, rows, told, lost>>
    BY DEF Check, At, Tasks, IInv, TypeOK
  <1>2. CASE GoesOn(t)
    BY <1>1, <1>2, GoingOn
  <1>3. CASE Goes(t, "post")
    BY <1>1, <1>3, SamePost DEF Goes
  <1> QED
    BY <1>2, <1>3 DEF Check

\* A task that is done with a post goes on to the next one or ends.
LEMMA ReturnsOK ==
    ASSUME IInv, NEW t \in Tasks, tasks[t].at \in {"post", "twin"}, NEW w \in Posts,
           Returns(t, w), UNCHANGED <<site, calls, rows, told, lost>>
    PROVE  IInv'
  <1>1. Returning(t, w) \in Task /\ TaskOK(t, Returning(t, w)) /\ told \subseteq Posts
    BY ReturningOK DEF IInv, TypeOK
  <1> QED
    BY <1>1, TaskGoes DEF Returns

\* createFromWebhook looks up the post.
LEMMA FindPostOK == ASSUME IInv, NEW t \in Tasks, FindPost(t) PROVE IInv'
  <1>1. tasks[t].at = "post" /\ tasks[t].post \in Posts
        /\ UNCHANGED <<site, calls, rows, told, lost>>
    BY DEF FindPost, At, IInv, TaskOK
  <1>2. CASE Returns(t, tasks[t].post)
    BY <1>1, <1>2, ReturnsOK
  <1>3. CASE Goes(t, "twin")
    BY <1>1, <1>3, SamePost DEF Goes
  <1> QED
    BY <1>2, <1>3 DEF FindPost

\* createFromWebhook looks for the same question of the same asker.
LEMMA FindTwinOK == ASSUME IInv, NEW t \in Tasks, FindTwin(t) PROVE IInv'
  <1>1. tasks[t].at = "twin" /\ UNCHANGED <<site, calls, rows, told, lost>>
    BY DEF FindTwin, At
  <1>2. ASSUME NEW v \in Twins(tasks[t].post), Returns(t, v) PROVE IInv'
    <2>1. v \in Posts
      BY DEF Twins
    <2> QED
      BY <1>1, <1>2, <2>1, ReturnsOK
  <1>3. CASE Goes(t, "insert")
    BY <1>1, <1>3, SamePost DEF Goes
  <1> QED
    BY <1>2, <1>3 DEF FindTwin

\* The INSERT of a question.
LEMMA InsertOK == ASSUME IInv, NEW t \in Tasks, Insert(t) PROVE IInv'
  <1> DEFINE w == tasks[t].post
             row == [status |-> "open", text |-> tasks[t].rev, seen |-> site[w].rev]
  <1>1. /\ tasks[t].at = "insert" /\ UNCHANGED <<site, calls, told, lost>>
        /\ tasks[t] \in Task /\ TaskOK(t, tasks[t])
    BY DEF Insert, At, IInv, TypeOK
  <1>2. /\ told \subseteq Posts /\ lost \subseteq Posts
        /\ tasks \in [Tasks -> Task] /\ rows \in [Posts -> Row \union {NoRow}]
    BY DEF IInv, TypeOK
  <1>3. CASE GoesOn(t) /\ UNCHANGED rows
    BY <1>1, <1>2, <1>3, GoingOn
  <1>4. CASE /\ ~Stored(w)
             /\ rows' = [rows EXCEPT ![w] = row]
             /\ tasks' = [tasks EXCEPT ![t] = Inserted(t)]
    <2>1. w \in Posts /\ tasks[t].rev # 0 /\ tasks[t].rev <= site[w].rev
      BY <1>1 DEF TaskOK
    <2>2. tasks[t].rev \in Revs /\ site[w].rev \in Revs /\ site[w].rev \in Nat
      <3>1. tasks[t].rev \in Revs
        BY <1>1, <2>1 DEF Task
      <3>2. site[w] \in SitePost
        BY <2>1 DEF IInv, TypeOK
      <3>3. site[w].rev \in Revs \union {0}
        BY <3>2 DEF SitePost
      <3>4. tasks[t].rev \in Nat \ {0} /\ site[w].rev \in Nat
        BY <3>1, <3>3, RevsArePositive
      <3>5. site[w].rev # 0
        BY <2>1, <3>4
      <3> QED
        BY <3>1, <3>3, <3>4, <3>5
    <2>3. row \in Row /\ RowOK(w, row)
      BY <2>1, <2>2 DEF Row, RowOK
    <2> HIDE DEF row
    <2>4. /\ Inserted(t) \in Task /\ TaskOK(t, Inserted(t))
          /\ Inserted(t).at = "tell" /\ Inserted(t).row = w
      BY <1>1, <2>1, ReturningOK DEF Inserted
    <2> HIDE DEF w
    <2>5. /\ tasks' \in [Tasks -> Task] /\ tasks'[t] = Inserted(t)
          /\ \A u \in Tasks : u # t => tasks'[u] = tasks[u]
      BY <1>2, <1>4, <2>4
    <2>6. /\ rows' \in [Posts -> Row \union {NoRow}] /\ rows'[w] = row
          /\ \A v \in Posts : v # w => rows'[v] = rows[v]
      BY <1>2, <1>4, <2>1, <2>3
    <2>7. \A v \in Posts : rows'[v] = rows[v] \/ (rows'[v] \in Row /\ RowOK(v, rows'[v]))
      BY <2>3, <2>6
    <2>8. \A v \in Posts : Stored(v)' /\ ~Stored(v) =>
              \E u \in Tasks : tasks'[u].at = "tell" /\ tasks'[u].row = v
      BY <2>4, <2>5, <2>6 DEF Stored
    <2>9. \A u \in Tasks : tasks'[u] = tasks[u] \/ TaskOK(u, tasks'[u])
      BY <2>4, <2>5
    <2>10. \A u \in Tasks : tasks[u].at = "tell" => tasks'[u] = tasks[u]
      BY <1>1, <2>5
    <2> QED
      BY <1>1, <1>2, <2>5, <2>6, <2>7, <2>8, <2>9, <2>10, Moves
  <1> QED
    BY <1>3, <1>4 DEF Insert

\* The rabbis are told.
LEMMA AnnounceOK == ASSUME IInv, NEW t \in Tasks, Announce(t) PROVE IInv'
  <1>1. tasks[t].row \in Posts
    BY DEF IInv, TaskOK, Announce, At
  <1>2. told \subseteq told' /\ told' \subseteq Posts /\ tasks[t].row \in told'
    BY <1>1 DEF IInv, TypeOK, Announce
  <1> QED
    BY <1>2, GoingOn DEF Announce

\* A statement of a task fails.
LEMMA StatementFailsOK == ASSUME IInv, NEW t \in Tasks, StatementFails(t) PROVE IInv'
  <1>1. told \subseteq Posts /\ tasks[t].at # "tell"
    BY DEF IInv, TypeOK, StatementFails
  <1> QED
    BY <1>1, GoingOn DEF StatementFails

\* The webhook looks up the row of a changed post.
LEMMA QuestionUpdatedOK == ASSUME IInv, NEW t \in Requests, QuestionUpdated(t) PROVE IInv'
  <1>1. t \in Tasks /\ tasks[t].at = "idle" /\ UNCHANGED <<site, rows, told, lost>>
    BY DEF QuestionUpdated, At, Tasks
  <1>2. told \subseteq Posts /\ tasks \in [Tasks -> Task]
        /\ tasks[t] \in Task /\ TaskOK(t, tasks[t])
    BY <1>1 DEF IInv, TypeOK
  <1>3. PICK call \in calls :
            /\ Arrives(call)
            /\ IF ~Stored(call.post) \/ Stale(call.rev, rows[call.post].seen)
               THEN UNCHANGED tasks
               ELSE tasks' = [tasks EXCEPT ![t] =
                       [at |-> "apply", post |-> call.post, rev |-> call.rev,
                        trashed |-> call.trashed, row |-> NoPost,
                        seen |-> rows[call.post].seen,
                        hidden |-> rows[call.post].status = "hidden", todo |-> {}]]
    BY DEF QuestionUpdated, Arrives
  <1> DEFINE next == [at |-> "apply", post |-> call.post, rev |-> call.rev,
                      trashed |-> call.trashed, row |-> NoPost,
                      seen |-> rows[call.post].seen,
                      hidden |-> rows[call.post].status = "hidden", todo |-> {}]
  <1>4. calls' \subseteq calls
    BY <1>3 DEF Arrives
  <1>5. CASE UNCHANGED tasks
    <2>1. tasks' = [tasks EXCEPT ![t] = tasks[t]]
      BY <1>2, <1>5
    <2> QED
      BY <2>1, <1>1, <1>2, <1>4, TaskGoes
  <1>6. CASE /\ Stored(call.post)
             /\ ~Stale(call.rev, rows[call.post].seen)
             /\ tasks' = [tasks EXCEPT ![t] = next]
    <2>1. call.post \in Posts /\ call.rev \in Revs /\ call.trashed \in BOOLEAN /\ CallOK(call)
      BY CallsAreTyped
    <2>2. rows[call.post] \in Row
      BY <1>6, <2>1, RowsAreTyped DEF IInv
    <2>3. rows[call.post].seen \in Revs /\ rows[call.post].seen \in Nat /\ call.rev \in Nat \ {0}
      <3>1. rows[call.post].seen \in Revs
        BY <2>2 DEF Row
      <3> QED
        BY <2>1, <3>1, RevsArePositive
    <2>4. rows[call.post].seen < call.rev
      BY <1>6, <2>3 DEF Stale
    <2>5. next \in Task
      BY <2>1, <2>3 DEF Task
    <2>6. TaskOK(t, next)
      BY <1>6, <2>1, <2>3, <2>4 DEF TaskOK, CallOK
    <2> HIDE DEF next
    <2> QED
      BY <1>1, <1>2, <1>4, <1>6, <2>5, <2>6, TaskGoes
  <1> QED
    BY <1>3, <1>5, <1>6

\* One row that is stored already is written; at most one task goes on, and that
\* one has nothing to announce.
LEMMA RowIsWritten ==
    ASSUME IInv, NEW w \in Posts, NEW row \in Row, Stored(w), RowOK(w, row),
           rows' = [rows EXCEPT ![w] = row],
           UNCHANGED <<site, calls, told, lost>>,
           tasks' \in [Tasks -> Task],
           \A t \in Tasks : \/ tasks'[t] = tasks[t]
                            \/ tasks[t].at # "tell" /\ TaskOK(t, tasks'[t])
    PROVE  IInv'
  <1>1. /\ rows \in [Posts -> Row \union {NoRow}]
        /\ told \subseteq Posts /\ lost \subseteq Posts
    BY DEF IInv, TypeOK
  <1>2. /\ rows' \in [Posts -> Row \union {NoRow}] /\ rows'[w] = row
        /\ \A v \in Posts : v # w => rows'[v] = rows[v]
    BY <1>1
  <1>3. \A v \in Posts : Stored(v)' => Stored(v)
    BY <1>2 DEF Stored
  <1> QED
    BY <1>1, <1>2, <1>3, Moves

\* The UPDATE of a changed post.
LEMMA ApplyOK == ASSUME IInv, NEW t \in Requests, Apply(t) PROVE IInv'
  <1> DEFINE task == tasks[t]
             w == task.post
             row == [status |-> IF task.trashed /\ ~task.hidden THEN "hidden"
                                ELSE rows[w].status,
                     text |-> task.rev, seen |-> site[w].rev]
  <1>1. /\ t \in Tasks /\ task.at = "apply" /\ UNCHANGED <<site, calls, told, lost>>
        /\ tasks \in [Tasks -> Task] /\ rows \in [Posts -> Row \union {NoRow}]
        /\ task \in Task /\ TaskOK(t, task)
    BY DEF Apply, At, Tasks, IInv, TypeOK
  <1>2. w \in Posts /\ task.rev # 0 /\ task.rev <= site[w].rev /\ Stored(w)
    BY <1>1 DEF TaskOK
  <1>3. task.rev \in Revs /\ site[w].rev \in Revs /\ site[w].rev \in Nat
    <2>1. task.rev \in Revs
      BY <1>1, <1>2 DEF Task
    <2>2. site[w] \in SitePost
      BY <1>2 DEF IInv, TypeOK
    <2>3. site[w].rev \in Revs \union {0}
      BY <2>2 DEF SitePost
    <2>4. task.rev \in Nat \ {0} /\ site[w].rev \in Nat
      BY <2>1, <2>3, RevsArePositive
    <2>5. site[w].rev # 0
      BY <1>2, <2>4
    <2> QED
      BY <2>1, <2>3, <2>4, <2>5
  <1>4. rows[w] \in Row
    BY <1>2, RowsAreTyped DEF IInv
  <1>5. rows[w].status \in {"open", "hidden"}
    BY <1>4 DEF Row
  <1>6. row \in Row /\ RowOK(w, row)
    BY <1>2, <1>3, <1>5 DEF Row, RowOK
  <1>7. rows' = [rows EXCEPT ![w] = row]
    BY DEF Apply
  <1>8. PICK next \in Following(task.todo) : tasks' = [tasks EXCEPT ![t] = next]
    BY DEF Apply, GoesOn
  <1>9. next \in Task /\ TaskOK(t, next)
    <2>1. task.todo \in SUBSET Item
      BY <1>1 DEF Task
    <2> QED
      BY <1>1, <2>1, FollowingOK DEF TaskOK
  <1>10. /\ tasks' \in [Tasks -> Task] /\ tasks'[t] = next
         /\ \A u \in Tasks : u # t => tasks'[u] = tasks[u]
    BY <1>1, <1>8, <1>9
  <1>11. \A u \in Tasks : \/ tasks'[u] = tasks[u]
                          \/ tasks[u].at # "tell" /\ TaskOK(u, tasks'[u])
    BY <1>1, <1>9, <1>10
  <1> HIDE DEF row, w
  <1> QED
    BY <1>1, <1>2, <1>6, <1>7, <1>10, <1>11, RowIsWritten

\* The desk writes the row of a question.
LEMMA DeskWritesOK == ASSUME IInv, NEW w \in Posts, DeskWrites(w) PROVE IInv'
  <1> DEFINE row == [rows[w] EXCEPT !.seen = site[w].rev]
  <1>1. /\ Stored(w) /\ rows[w] \in Row /\ RowOK(w, rows[w]) /\ SiteOK(w)
        /\ site[w] \in SitePost /\ tasks \in [Tasks -> Task]
        /\ UNCHANGED <<site, calls, tasks, told, lost>>
    BY RowsAreTyped DEF DeskWrites, IInv, TypeOK
  <1>2. /\ rows[w].text \in Revs /\ rows[w].seen \in Revs
        /\ rows[w].text \in Nat \ {0} /\ rows[w].seen \in Nat
    <2>1. rows[w].text \in Revs /\ rows[w].seen \in Revs
      BY <1>1 DEF Row
    <2> QED
      BY <2>1, RevsArePositive
  <1>3. site[w].rev \in Revs /\ site[w].rev \in Nat
    <2>1. site[w].rev \in Revs \union {0}
      BY <1>1 DEF SitePost
    <2>2. site[w].rev \in Nat
      BY <2>1, RevsArePositive
    <2>3. site[w].rev # 0
      BY <1>1, <1>2, <2>2 DEF RowOK
    <2> QED
      BY <2>1, <2>2, <2>3
  <1>4. row \in Row /\ row.text = rows[w].text /\ row.seen = site[w].rev
    BY <1>1, <1>3 DEF Row
  <1>5. RowOK(w, row)
    BY <1>1, <1>2, <1>3, <1>4 DEF RowOK
  <1>6. rows' = [rows EXCEPT ![w] = row]
    BY DEF DeskWrites
  <1> HIDE DEF row
  <1> QED
    BY <1>1, <1>4, <1>5, <1>6, RowIsWritten

\* The server restarts.
LEMMA RestartOK == ASSUME IInv, Restart PROVE IInv'
  <1>1. /\ tasks' = [t \in Tasks |-> Idle] /\ UNCHANGED <<site, calls, rows, told>>
        /\ lost' = lost \union {tasks[t].row : t \in {u \in Tasks : At(u, "tell")}}
    BY DEF Restart
  <1>2. /\ \A t \in Tasks : TaskOK(t, tasks[t])
        /\ rows \in [Posts -> Row \union {NoRow}]
        /\ told \subseteq Posts /\ lost \subseteq Posts
    BY DEF IInv, TypeOK
  <1>3. lost \subseteq lost' /\ lost' \subseteq Posts
    BY <1>1, <1>2 DEF TaskOK, At
  <1>4. \A t \in Tasks : tasks[t].at = "tell" => tasks[t].row \in lost'
    BY <1>1 DEF At
  <1>5. Idle \in Task
    BY StoringTyped DEF Idle
  <1>6. \A t \in Tasks : TaskOK(t, Idle)
    BY DEF Idle, Storing, TaskOK
  <1>7. tasks' \in [Tasks -> Task] /\ \A t \in Tasks : TaskOK(t, tasks'[t])
    BY <1>1, <1>5, <1>6
  <1>8. \A w \in Posts : Stored(w)' => Stored(w)
    BY <1>1 DEF Stored
  <1> QED
    BY <1>1, <1>2, <1>3, <1>4, <1>7, <1>8, Moves

------------------------------------------------------------------------------
\* Every step keeps the invariant.
LEMMA StepOK == IInv /\ [Next]_vars => IInv'
  <1> SUFFICES ASSUME IInv, [Next]_vars PROVE IInv'
    OBVIOUS
  <1>1. CASE \E w \in Posts : Submit(w) \/ Change(w) \/ DeskWrites(w)
    BY <1>1, SubmitOK, ChangeOK, DeskWritesOK
  <1>2. CASE CallLost
    BY <1>2, CallLostOK
  <1>3. CASE \E t \in Requests : NewQuestion(t) \/ QuestionUpdated(t) \/ Apply(t)
    BY <1>3, NewQuestionOK, QuestionUpdatedOK, ApplyOK
  <1>4. CASE \E t \in Polls : PollStart(t) \/ Check(t)
    BY <1>4, PollStartOK, CheckOK
  <1>5. CASE \E t \in Tasks : TaskStep(t)
    BY <1>5, FindPostOK, FindTwinOK, InsertOK, AnnounceOK, StatementFailsOK DEF TaskStep
  <1>6. CASE Restart
    BY <1>6, RestartOK
  <1>7. CASE UNCHANGED vars
    <2>1. UNCHANGED <<site, calls, rows, tasks, told, lost>>
      BY <1>7 DEF vars
    <2>2. tasks \in [Tasks -> Task] /\ rows \in [Posts -> Row \union {NoRow}]
          /\ told \subseteq Posts /\ lost \subseteq Posts
      BY DEF IInv, TypeOK
    <2>3. \A w \in Posts : Stored(w)' => Stored(w)
      BY <2>1 DEF Stored
    <2> QED
      BY <2>1, <2>2, <2>3, Moves
  <1> QED
    BY <1>1, <1>2, <1>3, <1>4, <1>5, <1>6, <1>7 DEF Next

\* The inductive invariant holds in every reachable state.
THEOREM Invariance == Spec => []IInv
  BY InitOK, StepOK, PTL DEF Spec

\* Every reachable state of the intake is typed.
THEOREM TypeCorrect == Spec => []TypeOK
  <1>1. IInv => TypeOK
    BY DEF IInv
  <1> QED
    BY <1>1, Invariance, PTL

\* A question that is stored was announced to the rabbis, is about to be, or lost
\* its announcement to a restart: wpWebhook.js:251-268, questionSyncService.js:185-215.
THEOREM EveryQuestionIsAnnounced == Spec => []StoredIsAnnounced
  <1>1. IInv => StoredIsAnnounced
    BY DEF IInv
  <1> QED
    BY <1>1, Invariance, PTL

\* The one statement that can bring an older text back is the UPDATE of a webhook
\* call whose lookup is older than the last write of the row.
LEMMA OlderTexts ==
    ASSUME IInv, [Next]_vars, NEW w \in Posts, rows'[w].text < rows[w].text
    PROVE  \E t \in Requests : /\ At(t, "apply")
                               /\ tasks[t].post = w
                               /\ tasks[t].seen < rows[w].seen
  <1>1. rows[w].text \in Nat /\ rows[w].seen \in Nat /\ RowOK(w, rows[w])
        /\ (~Stored(w) <=> rows[w].text = 0)
    BY RowsAreTyped DEF IInv
  <1>2. rows \in [Posts -> Row \union {NoRow}]
    BY DEF IInv, TypeOK
  <1>3. ASSUME rows'[w] = rows[w] PROVE FALSE
    BY <1>1, <1>3
  <1>4. CASE \E t \in Requests : Apply(t)
    <2>1. PICK t \in Requests : Apply(t)
      BY <1>4
    <2>2. t \in Tasks /\ tasks[t] \in Task /\ TaskOK(t, tasks[t]) /\ At(t, "apply")
      BY <2>1 DEF IInv, TypeOK, Apply, Tasks
    <2>3. tasks[t].post = w
      BY <1>2, <1>3, <2>1 DEF Apply
    <2>4. rows'[w].text = tasks[t].rev
      BY <1>2, <2>1, <2>3 DEF Apply
    <2>5. tasks[t].rev \in Nat /\ tasks[t].seen \in Nat /\ tasks[t].seen < tasks[t].rev
      <3>1. tasks[t].rev \in Revs \union {0} /\ tasks[t].seen \in Revs \union {0}
        BY <2>2 DEF Task
      <3> QED
        BY <3>1, <2>2, RevsArePositive DEF TaskOK, At
    <2>6. tasks[t].seen < rows[w].seen
      BY <1>1, <2>4, <2>5 DEF RowOK
    <2> QED
      BY <2>2, <2>3, <2>6
  <1>5. CASE \E v \in Posts : DeskWrites(v)
    <2>1. PICK v \in Posts : DeskWrites(v)
      BY <1>5
    <2>2. rows' = [rows EXCEPT ![v].seen = site[v].rev] /\ Stored(v)
      BY <2>1 DEF DeskWrites
    <2>3. rows[v] \in Row
      BY <2>2, RowsAreTyped DEF IInv
    <2>4. rows'[w].text = rows[w].text
      BY <1>2, <2>2, <2>3 DEF Row
    <2> QED
      BY <1>1, <2>4
  <1>6. CASE \E t \in Tasks : Insert(t)
    <2>1. PICK t \in Tasks : Insert(t)
      BY <1>6
    <2>2. tasks[t].post = w /\ ~Stored(w)
      BY <1>2, <1>3, <2>1 DEF Insert
    <2>3. rows'[w].text = tasks[t].rev
      BY <1>2, <1>3, <2>1, <2>2 DEF Insert
    <2>4. tasks[t].rev \in Nat
      <3>1. tasks[t].rev \in Revs \union {0}
        BY <2>1 DEF IInv, TypeOK, Task
      <3> QED
        BY <3>1, RevsArePositive
    <2> QED
      BY <1>1, <2>2, <2>3, <2>4
  <1>7. CASE UNCHANGED rows
    BY <1>3, <1>7
  <1>8. \/ \E t \in Requests : Apply(t)
        \/ \E v \in Posts : DeskWrites(v)
        \/ \E t \in Tasks : Insert(t)
        \/ UNCHANGED rows
    BY DEF Next, TaskStep, Submit, Change, CallLost, NewQuestion, QuestionUpdated,
           PollStart, Check, FindPost, FindTwin, Announce, StatementFails, Restart, vars
  <1> QED
    BY <1>4, <1>5, <1>6, <1>7, <1>8

\* An older text comes back only past a stale lookup (wpWebhook.js:433-445).
THEOREM OldTextsAreStaleReads == Spec => OldTextFromStaleRead
  <1>1. IInv /\ [Next]_vars =>
          [\A w \in Posts : rows'[w].text < rows[w].text =>
              \E t \in Requests : /\ At(t, "apply")
                                  /\ tasks[t].post = w
                                  /\ tasks[t].seen < rows[w].seen]_vars
    BY OlderTexts
  <1> QED
    BY <1>1, Invariance, PTL DEF Spec, OldTextFromStaleRead
==============================================================================
