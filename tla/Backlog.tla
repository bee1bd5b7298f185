------------------------------- MODULE Backlog ------------------------------
(***************************************************************************)
(* The backlog: the table backlog_tasks (core/backlog_db.py), each of      *)
(* whose operations is one transaction under the write lock, and the       *)
(* decisions a user takes on a task (api/routes/backlog.py), which read    *)
(* the row, look for its branch on origin, then write.                     *)
(*                                                                         *)
(* Branches are numbered per task; 0 is NULL.  The branches of the tasks   *)
(* live in the clones of the slots and on origin, never in the repository  *)
(* the server runs from: the local merge of the route is not modelled.     *)
(***************************************************************************)
EXTENDS Naturals, FiniteSets

CONSTANTS
  NTasks,       \* tasks, numbered in the order of the queue: priority, then age
  MaxAttempts,  \* MAX_TENTATIVES_TACHE
  MaxBranches,  \* branches one task can have at the same time (a bound of the model)
  MaxUpsets,    \* what comes across the workers: decisions of the user, crashes, workers
                \* that die (a bound of the model)
  NoReview      \* the user is deciding nothing

Tasks == 1 .. NTasks
Branch == 0 .. MaxBranches
Verdicts == {"approved", "rejected", "pending", "paused"}

ASSUME BacklogConstants ==
  /\ NTasks \in Nat \ {0} /\ MaxAttempts \in Nat \ {0}
  /\ MaxBranches \in Nat /\ MaxUpsets \in Nat

VARIABLES
  row,      \* backlog_tasks
  origin,   \* the branches on origin
  review,   \* the PUT in progress: the row it read, what it learnt of the branch
  upsets,   \* how much has come across the workers
  \* Kept by the model alone:
  decided,  \* the final status the user gave each task, until a worker that has it ends it
  early,    \* tasks decided on between their reservation by a worker and its last start write
  meddled   \* tasks the user touched while a worker had them

table == <<row, origin, review, upsets, decided, early, meddled>>

Statuses == {"absent", "pending", "running", "completed", "failed", "paused", "abandoned", "deleted"}

\* keep: the error_message is that of a gate which refused a deliverable worth correcting
\* (_faut_conserver_la_branche).
Row == [status : Statuses, retries : Nat, due : BOOLEAN,
        branch : Branch, keep : BOOLEAN]

BacklogTypeOK ==
  /\ row \in [Tasks -> Row]
  /\ origin \subseteq Tasks \X (Branch \ {0})
  /\ review \in {NoReview} \union [task : Tasks, verdict : Verdicts, branch : Branch, remote : BOOLEAN]
  /\ upsets \in 0 .. MaxUpsets
  /\ decided \in [Tasks -> {"none", "completed", "abandoned"}]
  /\ early \subseteq Tasks /\ meddled \subseteq Tasks

NewRow == [status |-> "pending", retries |-> 0, due |-> TRUE, branch |-> 0, keep |-> FALSE]

BacklogInit ==
  /\ row = [t \in Tasks |-> [NewRow EXCEPT !.status = "absent"]]
  /\ origin = {}
  /\ review = NoReview /\ upsets = 0
  /\ decided = [t \in Tasks |-> "none"]
  /\ early = {} /\ meddled = {}

Present(t) == row[t].status \notin {"absent", "deleted"}

-----------------------------------------------------------------------------
(* The table.                                                              *)

\* add_task.  The key of a discovered task is unique: what is in the table is not added again.
AddTask(t) ==
  /\ row[t].status = "absent"
  /\ row' = [row EXCEPT ![t] = NewRow]
  /\ UNCHANGED <<origin, review, upsets, decided, early, meddled>>

\* _sql_et_params_tache_jouable.
Playable(t) ==
  /\ row[t].due
  /\ \/ row[t].status = "pending"
     \/ row[t].status = "failed" /\ row[t].retries < MaxAttempts

\* The task reserver_prochaine_tache selects: the first one that is playable.
Reservable(t, excluded) ==
  /\ t \notin excluded /\ Playable(t)
  /\ \A u \in Tasks \ excluded : Playable(u) => t <= u

\* reserver_prochaine_tache.
Reserve(t) ==
  /\ row' = [row EXCEPT ![t].status = "running"]
  /\ UNCHANGED <<origin, review, upsets, decided, early, meddled>>

\* update_task_status: the row becomes r, whatever its status is now.
Write(t, r) == row' = IF Present(t) THEN [row EXCEPT ![t] = r] ELSE row

\* A worker that starts on its task says so.
Mark(t, r) ==
  /\ Write(t, r)
  /\ UNCHANGED <<review, upsets, decided, early, meddled>>

\* A worker ends its task: its verdict replaces that of the user.
Conclude(t, r) ==
  /\ Write(t, r)
  /\ decided' = [decided EXCEPT ![t] = "none"]
  /\ UNCHANGED <<review, upsets, early, meddled>>

\* Mutant of Release: the status is not checked.
ReleaseAnyway(t) ==
  /\ row' = IF Present(t)
              THEN [row EXCEPT ![t].status = "pending", ![t].branch = 0] ELSE row
  /\ UNCHANGED <<review, upsets, decided, early, meddled>>

\* liberer_tache: back to the queue, only if the row is still running.
Release(t) ==
  /\ row' = IF row[t].status = "running"
              THEN [row EXCEPT ![t].status = "pending", ![t].branch = 0] ELSE row
  /\ UNCHANGED <<review, upsets, decided, early, meddled>>

\* recuperer_taches_running_orphelines, when the server starts.
RecoverOrphans ==
  row' = [t \in Tasks |->
            IF row[t].status # "running" THEN row[t]
            ELSE IF row[t].retries > 0 THEN [row[t] EXCEPT !.status = "failed", !.due = TRUE]
            ELSE [row[t] EXCEPT !.status = "pending"]]

\* The delay before a failed task is played again has elapsed.
FallsDue(t) ==
  /\ ~row[t].due
  /\ row' = [row EXCEPT ![t].due = TRUE]
  /\ UNCHANGED <<origin, review, upsets, decided, early, meddled>>

-----------------------------------------------------------------------------
(* The user.                                                               *)

\* PUT /tasks/{id}: the row is read, and for a verdict on the work its branch is looked for
\* on origin.  A command that fails says that it is not there.
Ask(t, v) ==
  /\ review = NoReview /\ upsets < MaxUpsets /\ Present(t)
  /\ \E remote \in {FALSE, row[t].branch # 0 /\ <<t, row[t].branch>> \in origin
                           /\ v \in {"approved", "rejected"}} :
       review' = [task |-> t, verdict |-> v, branch |-> row[t].branch, remote |-> remote]
  /\ upsets' = upsets + 1
  /\ UNCHANGED <<row, origin, decided, early, meddled>>

\* An approved branch is harvested by a pull request: a branch on origin is answered by 409,
\* one that is nowhere by 404, and the row stays.
Refused == review.verdict = "approved" /\ review.branch # 0

Decision(r) ==
  CASE review.verdict = "approved" -> [r EXCEPT !.status = "completed", !.branch = 0]
    [] review.verdict = "rejected" -> [r EXCEPT !.status = "abandoned",
                                                !.branch = IF review.remote THEN @ ELSE 0]
    [] review.verdict = "pending" -> [r EXCEPT !.status = "pending", !.retries = 0, !.keep = FALSE]
    [] review.verdict = "paused" -> [r EXCEPT !.status = "paused"]

FinalStatus(v) ==
  CASE v = "approved" -> "completed" [] v = "rejected" -> "abandoned" [] OTHER -> "none"

\* The user touches a task a worker has.  busy: the tasks workers have; unstarted: those of
\* workers that have yet to write that they start.
Meddle(t, busy) == meddled' = IF t \in busy THEN meddled \union {t} ELSE meddled

Decide(busy, unstarted) ==
  /\ review # NoReview
  /\ IF Refused \/ ~Present(review.task)
       THEN UNCHANGED <<row, decided, early, meddled>>
       ELSE /\ row' = [row EXCEPT ![review.task] = Decision(@)]
            /\ decided' = [decided EXCEPT ![review.task] = FinalStatus(review.verdict)]
            /\ early' = IF review.task \in unstarted THEN early \union {review.task}
                                                      ELSE early \ {review.task}
            /\ Meddle(review.task, busy)
  /\ review' = NoReview
  /\ UNCHANGED <<origin, upsets>>

\* DELETE /tasks/{id}.
Delete(t, busy) ==
  /\ Present(t) /\ upsets < MaxUpsets
  /\ row' = [row EXCEPT ![t] = [NewRow EXCEPT !.status = "deleted"]]
  /\ decided' = [decided EXCEPT ![t] = "none"]
  /\ upsets' = upsets + 1
  /\ Meddle(t, busy)
  /\ UNCHANGED <<origin, review, early>>
=============================================================================
