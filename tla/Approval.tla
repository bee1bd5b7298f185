------------------------------ MODULE Approval ------------------------------
(***************************************************************************)
(* The non-blocking human-in-the-loop cycle of the engine.                 *)
(*                                                                         *)
(* A run of the engine whose plan is risky stores the plan in the table    *)
(* hitl_pending_approvals (core/hitl_store.py) and leaves, its ephemeral   *)
(* Git branch still in place.  A click on "approve" or "reject"            *)
(* (api/routes/approval.py) decides the stored request and spawns a        *)
(* background job (services/approval_resume_service.py), which replays the *)
(* stored plan or abandons it, closes the session and finalises the        *)
(* branch.                                                                 *)
(*                                                                         *)
(* A plan is identified with the run that proposed it, and so is a branch  *)
(* with the run that created it.  The job spawned by the decision taken on *)
(* a row is identified with the plan that row held at that moment.         *)
(***************************************************************************)
EXTENDS Naturals

CONSTANTS
  Runs,         \* calls of Engine.run
  Sessions,     \* session identifiers
  Engines,      \* Engine instances: the intents of one request share one
  SessionOf,    \* the session of a run
  SizeOf,       \* the number of tasks of the plan of a run
  EngineOf,     \* the engine of a run
  Unreadable,   \* plans whose stored JSON cannot be read back
  None,         \* no run, no branch, no request
  Faults,       \* what the environment may do, a subset of FaultKinds
  MaxCrashes    \* bound on the restarts of the server

FaultKinds == {"abort", "crash", "early", "unmounted"}

ASSUME ApprovalConstants ==
  /\ SessionOf \in [Runs -> Sessions]
  /\ EngineOf \in [Runs -> Engines]
  /\ SizeOf \in [Runs -> Nat \ {0}]
  /\ \A r, q \in Runs : EngineOf[r] = EngineOf[q] => SessionOf[r] = SessionOf[q]
  /\ Unreadable \subseteq Runs
  /\ Faults \subseteq FaultKinds
  /\ MaxCrashes \in Nat
  /\ None \notin Runs

\* The identifier the engine builds: "dag_<session>_<number of tasks>".
RequestId(r) == <<SessionOf[r], SizeOf[r]>>
Requests == {RequestId(r) : r \in Runs}

ASSUME NoneIsNoRequest == None \notin Requests

RunsOf(e) == {r \in Runs : EngineOf[r] = e}
MultiIntent(r) == RunsOf(EngineOf[r]) # {r}

VARIABLES
  (* durable: SQLite and the Git repository *)
  store,        \* row of each request
  session,      \* status of each session
  branch,       \* fate of the ephemeral branch of each run
  (* lost in a crash *)
  run,          \* where each run is
  suspension,   \* Engine._suspension_request_id
  courante,     \* Engine._git_branch_courante
  job,          \* where the job of each decided plan is
  loaded,       \* the row a job read
  outcome,      \* how a replay ended
  loop,         \* the job that holds the event loop between two awaits
  crashes,
  (* the user and what an observer remembers *)
  view,         \* the plan the interface shows for each request
  clicked,      \* the decision the user took while looking at each plan
  replays       \* how many times each plan was replayed

durable == <<store, session, branch>>
observed == <<view, clicked, replays>>
vars == <<store, session, branch, run, suspension, courante, job, loaded,
          outcome, loop, crashes, view, clicked, replays>>

NoRow == [plan |-> None, branch |-> None, status |-> "absent"]
Statuses == {"pending", "approved", "rejected", "resumed", "failed"}
Outcomes == {"none", "ok", "absolved", "ko", "unmounted"}
LiveRuns == {"planning", "asking", "leaving"}
LiveJobs == {"resume", "refusing", "replaying", "closing", "marking", "cancel", "cancelling"}
Terminal == {"success", "error"}

Rows == [plan : Runs \cup {None}, branch : Runs \cup {None}, status : Statuses \cup {"absent"}]
SessionStatuses == {"absent", "running", "waiting_approval"} \cup Terminal
BranchFates == {"none", "held", "merged", "rolled_back"}
RunPhases == LiveRuns \cup {"idle", "ended", "lost"}
JobPhases == LiveJobs \cup {"none", "done", "lost"}

TypeOK ==
  /\ store \in [Requests -> Rows]
  /\ session \in [Sessions -> SessionStatuses]
  /\ branch \in [Runs -> BranchFates]
  /\ run \in [Runs -> RunPhases]
  /\ suspension \in [Engines -> Requests \cup {None}]
  /\ courante \in [Engines -> Runs \cup {None}]
  /\ job \in [Runs -> JobPhases]
  /\ loaded \in [Runs -> Rows]
  /\ outcome \in [Runs -> Outcomes]
  /\ loop \in Runs \cup {None}
  /\ crashes \in 0 .. MaxCrashes
  /\ view \in [Requests -> Runs \cup {None}]
  /\ clicked \in [Runs -> {"none", "approved", "rejected"}]
  /\ replays \in [Runs -> Nat]

Init ==
  /\ store = [id \in Requests |-> NoRow]
  /\ session = [s \in Sessions |-> "absent"]
  /\ branch = [r \in Runs |-> "none"]
  /\ run = [r \in Runs |-> "idle"]
  /\ suspension = [e \in Engines |-> None]
  /\ courante = [e \in Engines |-> None]
  /\ job = [r \in Runs |-> "none"]
  /\ loaded = [r \in Runs |-> NoRow]
  /\ outcome = [r \in Runs |-> "none"]
  /\ loop = None
  /\ crashes = 0
  /\ view = [id \in Requests |-> None]
  /\ clicked = [r \in Runs |-> "none"]
  /\ replays = [r \in Runs |-> 0]

-----------------------------------------------------------------------------
(* The engine and the pipeline around it.                                  *)

\* Mutants of Finalised: the verdict is ignored; a failure forgets the branch.
FinalisedAsMerge(b, merge) == [branch EXCEPT ![b] = IF @ # "held" THEN @ ELSE "merged"]
FinalisedOnSuccess(b, merge) ==
  [branch EXCEPT ![b] = IF @ # "held" THEN @ ELSE IF merge THEN "merged" ELSE "held"]

\* A branch that was finalised is gone: finalising it again changes nothing.
Finalised(b, merge) ==
  [branch EXCEPT ![b] = IF @ # "held" THEN @ ELSE IF merge THEN "merged" ELSE "rolled_back"]

\* Mutant of LeaveBranch: the suspension is not looked at.
LeaveNoBranch(r, request, merge) == branch' = Finalised(r, merge)

\* The `finally` of Engine._run_corps: an engine suspended by a request leaves
\* the branch in place, any other finalises it.
LeaveBranch(r, request, merge) ==
  IF request = None THEN branch' = Finalised(r, merge) ELSE UNCHANGED branch

\* run_full_pipeline up to the first await of Engine.run: the session row is
\* (re)created, each run prepares its branch and overwrites the two attributes
\* of the engine.  The intents of one request all start before one of them can
\* go further.  Preparing a branch may fail (same session in the same second).
StartRuns(e) ==
  /\ loop = None
  /\ RunsOf(e) # {} /\ \A r \in RunsOf(e) : run[r] = "idle"
  /\ \E prepared \in SUBSET RunsOf(e), last \in RunsOf(e) :
       /\ branch' = [r \in Runs |-> IF r \in prepared THEN "held" ELSE branch[r]]
       /\ courante' = [courante EXCEPT ![e] = IF last \in prepared THEN last ELSE None]
  /\ run' = [r \in Runs |-> IF r \in RunsOf(e) THEN "planning" ELSE run[r]]
  /\ session' = [s \in Sessions |->
                   IF \E r \in RunsOf(e) : SessionOf[r] = s THEN "running" ELSE session[s]]
  /\ suspension' = [suspension EXCEPT ![e] = None]
  /\ UNCHANGED <<store, job, loaded, outcome, loop, crashes, observed>>

\* A plan that needs no approval is executed inside the run.
FinishDirect(r) ==
  /\ loop = None
  /\ run[r] = "planning"
  /\ \E ok \in BOOLEAN : LeaveBranch(r, suspension[EngineOf[r]], ok)
  /\ run' = [run EXCEPT ![r] = "leaving"]
  /\ UNCHANGED <<store, session, suspension, courante, job, loaded, outcome, loop,
                 crashes, observed>>

\* demander_sans_bloquer up to its notification: INSERT OR REPLACE of the row,
\* whatever it held, then the event that shows the request in the interface.
AskApproval(r) ==
  /\ loop = None
  /\ run[r] = "planning"
  /\ run' = [run EXCEPT ![r] = "asking"]
  /\ store' = [store EXCEPT ![RequestId(r)] =
                 [plan |-> r, branch |-> courante[EngineOf[r]], status |-> "pending"]]
  /\ UNCHANGED <<session, branch, suspension, courante, job, loaded, outcome, loop,
                 crashes, observed>>

\* Back from the notification: the engine is suspended and leaves its branch.
Suspend(r) ==
  /\ loop = None
  /\ run[r] = "asking"
  /\ run' = [run EXCEPT ![r] = "leaving"]
  /\ suspension' = [suspension EXCEPT ![EngineOf[r]] = RequestId(r)]
  /\ LeaveBranch(r, RequestId(r), TRUE)
  /\ UNCHANGED <<store, session, courante, job, loaded, outcome, loop,
                 crashes, observed>>

\* run_full_pipeline after Engine.run: waiting_approval when suspended, else the
\* verdict drawn from the history.  run_multi_intent_pipeline records nothing.
RecordEnd(r) ==
  /\ loop = None
  /\ run[r] = "leaving"
  /\ run' = [run EXCEPT ![r] = "ended"]
  /\ IF MultiIntent(r) THEN UNCHANGED session
     ELSE \E status \in IF suspension[EngineOf[r]] # None THEN {"waiting_approval"} ELSE Terminal :
            session' = [session EXCEPT ![SessionOf[r]] = status]
  /\ UNCHANGED <<store, branch, suspension, courante, job, loaded, outcome, loop,
                 crashes, observed>>

\* The timeout of the pipeline, or an exception of an agent, ends Engine.run at
\* an await.  has_error is still False in the `finally`: an unsuspended run has
\* its branch finalised as a success.
Abort(r) ==
  /\ "abort" \in Faults
  /\ loop = None
  /\ run[r] \in LiveRuns
  /\ run' = [run EXCEPT ![r] = "ended"]
  /\ IF run[r] = "leaving" THEN UNCHANGED branch ELSE LeaveBranch(r, suspension[EngineOf[r]], TRUE)
  /\ IF MultiIntent(r) THEN UNCHANGED session
     ELSE session' = [session EXCEPT ![SessionOf[r]] = "error"]
  /\ UNCHANGED <<store, suspension, courante, job, loaded, outcome, loop, crashes, observed>>

\* cleanup_zombie_sessions: a session `running` without a sign of life for an
\* hour, which no live run and no live replay can be.
ZombieSweep(s) ==
  /\ loop = None
  /\ session[s] = "running"
  /\ \A r \in Runs : SessionOf[r] = s => run[r] \notin LiveRuns /\ job[r] # "replaying"
  /\ session' = [session EXCEPT ![s] = "error"]
  /\ UNCHANGED <<store, branch, run, suspension, courante, job, loaded, outcome, loop,
                 crashes, observed>>

-----------------------------------------------------------------------------
(* The user and the routes.                                                *)

\* GET /api/approval/pending, or the event "approval_required".
Refresh(id) ==
  /\ store[id].status = "pending"
  /\ view[id] # store[id].plan
  /\ view' = [view EXCEPT ![id] = store[id].plan]
  /\ UNCHANGED <<durable, run, suspension, courante, job, loaded, outcome, loop, crashes,
                 clicked, replays>>

\* Mutant of Decidable: any stored request can be decided.
DecidableTwice(id) == store[id].status # "absent"

\* The WHERE clause of marquer_decision.
Decidable(id) == store[id].status = "pending"

\* marquer_decision (UPDATE ... WHERE status = 'pending') and the creation of
\* the background job; a request that is not pending answers 404.
Decide(id, status, task) ==
  /\ loop = None
  /\ view[id] # None
  /\ Decidable(id)
  /\ "early" \in Faults \/ run[store[id].plan] \notin LiveRuns
  /\ store' = [store EXCEPT ![id].status = status]
  /\ clicked' = [clicked EXCEPT ![view[id]] = status]
  /\ job' = [job EXCEPT ![store[id].plan] = task]
  /\ UNCHANGED <<session, branch, run, suspension, courante, loaded, outcome, loop, crashes,
                 view, replays>>

Approve(id) == Decide(id, "approved", "resume")
Reject(id) == Decide(id, "rejected", "cancel")

-----------------------------------------------------------------------------
(* The background jobs.                                                    *)

\* Mutant of Close: only the success path closes the session.
CloseSuccesses(p, status) ==
  IF status = "success" THEN session' = [session EXCEPT ![SessionOf[p]] = status]
  ELSE UNCHANGED session

\* record_session_end.
Close(p, status) == session' = [session EXCEPT ![SessionOf[p]] = status]

\* Mutant of ResumeRefused: only a request that is gone is refused.
ResumeRefusedAbsent(p) ==
  /\ loop = None
  /\ job[p] = "resume"
  /\ store[RequestId(p)].status = "absent"
  /\ job' = [job EXCEPT ![p] = "done"]
  /\ UNCHANGED <<durable, run, suspension, courante, loaded, outcome, loop, crashes, observed>>

\* reprendre_apres_approbation reads the row again and gives up unless approved.
ResumeRefused(p) ==
  /\ loop = None
  /\ job[p] = "resume"
  /\ store[RequestId(p)].status # "approved"
  /\ job' = [job EXCEPT ![p] = "done"]
  /\ UNCHANGED <<durable, run, suspension, courante, loaded, outcome, loop, crashes, observed>>

\* A plan that cannot be read back: the row is marked failed, then the session
\* closed; the branch stays.
ResumeUnreadable(p) ==
  LET row == store[RequestId(p)] IN
  /\ loop = None
  /\ job[p] = "resume"
  /\ row.status = "approved" /\ row.plan \in Unreadable
  /\ loaded' = [loaded EXCEPT ![p] = row]
  /\ store' = [store EXCEPT ![RequestId(p)].status = "failed"]
  /\ job' = [job EXCEPT ![p] = "refusing"]
  /\ loop' = p
  /\ UNCHANGED <<session, branch, run, suspension, courante, outcome, crashes, observed>>

ResumeAbandon(p) ==
  /\ job[p] = "refusing"
  /\ Close(loaded[p].plan, "error")
  /\ job' = [job EXCEPT ![p] = "done"]
  /\ loop' = None
  /\ UNCHANGED <<store, branch, run, suspension, courante, loaded, outcome, crashes, observed>>

\* A new engine starts to replay the plan of the row.
ResumeStart(p) ==
  LET row == store[RequestId(p)] IN
  /\ loop = None
  /\ job[p] = "resume"
  /\ row.status = "approved" /\ row.plan \notin Unreadable
  /\ loaded' = [loaded EXCEPT ![p] = row]
  /\ replays' = [replays EXCEPT ![row.plan] = @ + 1]
  /\ job' = [job EXCEPT ![p] = "replaying"]
  /\ UNCHANGED <<durable, run, suspension, courante, outcome, loop, crashes, view, clicked>>

\* The DAG and its controls end: success; success by the acceptance contract
\* although tasks are left pending ("absolved"); failure; or the engine could
\* not be mounted.  From here to ResumeMark nothing is awaited: the session is
\* closed, the branch finalised and the row marked in one go of the event loop,
\* that only the thread of a cancellation or a crash interleaves.
ResumeClose(p) ==
  /\ loop = None
  /\ job[p] = "replaying"
  /\ \E o \in {"ok", "absolved", "ko"} \cup ({"unmounted"} \cap Faults) :
       /\ outcome' = [outcome EXCEPT ![p] = o]
       /\ Close(loaded[p].plan, IF o \in {"ok", "absolved"} THEN "success" ELSE "error")
  /\ job' = [job EXCEPT ![p] = "closing"]
  /\ loop' = p
  /\ UNCHANGED <<store, branch, run, suspension, courante, loaded, crashes, observed>>

\* _finaliser_git: merged only when every task status is `success`.
ResumeGit(p) ==
  /\ job[p] = "closing"
  /\ IF outcome[p] = "unmounted" \/ loaded[p].branch = None THEN UNCHANGED branch
     ELSE branch' = Finalised(loaded[p].branch, outcome[p] = "ok")
  /\ job' = [job EXCEPT ![p] = "marking"]
  /\ UNCHANGED <<store, session, run, suspension, courante, loaded, outcome, loop, crashes,
                 observed>>

\* Mutant of Verdict: a failure leaves the row as it was.
VerdictOnSuccess(o) == IF o \in {"ok", "absolved"} THEN "resumed" ELSE "approved"

Verdict(o) == IF o \in {"ok", "absolved"} THEN "resumed" ELSE "failed"

\* marquer_reprise writes the status of the row, whatever the row is by then.
ResumeMark(p) ==
  /\ job[p] = "marking"
  /\ store' = [store EXCEPT ![RequestId(p)].status = Verdict(outcome[p])]
  /\ job' = [job EXCEPT ![p] = "done"]
  /\ loop' = None
  /\ UNCHANGED <<session, branch, run, suspension, courante, loaded, outcome, crashes, observed>>

\* annuler_apres_rejet, in a thread of its own: the session, then the branch.
CancelClose(p) ==
  LET row == store[RequestId(p)] IN
  /\ job[p] = "cancel"
  /\ loaded' = [loaded EXCEPT ![p] = row]
  /\ Close(row.plan, "error")
  /\ job' = [job EXCEPT ![p] = "cancelling"]
  /\ UNCHANGED <<store, branch, run, suspension, courante, outcome, loop, crashes, observed>>

CancelGit(p) ==
  /\ job[p] = "cancelling"
  /\ IF loaded[p].branch = None THEN UNCHANGED branch
     ELSE branch' = Finalised(loaded[p].branch, FALSE)
  /\ job' = [job EXCEPT ![p] = "done"]
  /\ UNCHANGED <<store, session, run, suspension, courante, loaded, outcome, loop, crashes,
                 observed>>

-----------------------------------------------------------------------------
\* The server is killed and starts again: runs, jobs and engines are gone, no
\* code reads the approved requests again.
Crash ==
  /\ "crash" \in Faults /\ crashes < MaxCrashes
  /\ crashes' = crashes + 1
  /\ run' = [r \in Runs |-> IF run[r] \in LiveRuns THEN "lost" ELSE run[r]]
  /\ job' = [r \in Runs |-> IF job[r] \in LiveJobs THEN "lost" ELSE job[r]]
  /\ suspension' = [e \in Engines |-> None]
  /\ courante' = [e \in Engines |-> None]
  /\ loop' = None
  /\ UNCHANGED <<durable, loaded, outcome, observed>>

JobStep(p) ==
  \/ ResumeRefused(p) \/ ResumeUnreadable(p) \/ ResumeAbandon(p)
  \/ ResumeStart(p) \/ ResumeClose(p) \/ ResumeGit(p) \/ ResumeMark(p)
  \/ CancelClose(p) \/ CancelGit(p)

RunStep(r) == FinishDirect(r) \/ AskApproval(r) \/ Suspend(r) \/ RecordEnd(r)

Next ==
  \/ \E e \in Engines : StartRuns(e)
  \/ \E r \in Runs : RunStep(r) \/ Abort(r) \/ JobStep(r)
  \/ \E s \in Sessions : ZombieSweep(s)
  \/ \E id \in Requests : Refresh(id) \/ Approve(id) \/ Reject(id)
  \/ Crash

Spec == Init /\ [][Next]_vars

\* asyncio runs every ready task and the thread pool every submitted call; the
\* time limits of the pipeline and of the DAG end every run and every replay.
Fairness == \A r \in Runs : WF_vars(RunStep(r)) /\ WF_vars(JobStep(r))
FairSpec == Spec /\ Fairness

-----------------------------------------------------------------------------
(* Properties.                                                             *)

\* No two plans share an identifier: what the parameter `request_id` of
\* HITLManager.request_approval is documented to be, and what
\* "dag_<session>_<number of tasks>" gives only to plans of distinct sessions
\* or of distinct sizes.
UniqueRequests == \A r, q \in Runs : RequestId(r) = RequestId(q) => r = q

\* The plan of r shares its identifier with no other plan.
OwnsRequest(r) == \A q \in Runs : RequestId(q) = RequestId(r) => q = r

\* A plan is replayed only if the user approved it while looking at it: the
\* rule "never approve plan A and execute plan B" of core/hitl_store.py.
ReplayedAsApproved == \A r \in Runs : replays[r] > 0 => clicked[r] = "approved"

\* The same rule for the plans whose identifier is their own, whatever other
\* plans share theirs.
OwnPlanAsApproved ==
  \A r \in Runs : OwnsRequest(r) /\ replays[r] > 0 => clicked[r] = "approved"

\* A double click never replays a plan of its own request twice
\* (hitl_store.marquer_decision), nor does a restart.
NoDoubleReplay == \A r \in Runs : OwnsRequest(r) => replays[r] <= 1

\* Where a plan of its own request stands, read in every variable at once; the
\* inductive invariant behind the two properties above and the refinement.
PlanConsistent(r) ==
  LET row == store[RequestId(r)] IN
  /\ row.plan \in {None, r} /\ view[RequestId(r)] \in {None, r}
  /\ row.plan = None <=> row.status = "absent"
  /\ run[r] \in {"idle", "planning"} => row.status = "absent"
  /\ row.status \in {"absent", "pending"} =>
       job[r] = "none" /\ clicked[r] = "none" /\ replays[r] = 0
  /\ row.status = "approved" =>
       clicked[r] = "approved" /\ job[r] \in {"resume", "replaying", "closing", "marking", "lost"}
  /\ row.status = "rejected" =>
       clicked[r] = "rejected" /\ replays[r] = 0 /\ job[r] \in {"cancel", "cancelling", "done", "lost"}
  /\ row.status \in {"resumed", "failed"} =>
       clicked[r] = "approved" /\ job[r] \in {"refusing", "done", "lost"}
  /\ job[r] = "resume" => replays[r] = 0
  /\ job[r] \in {"replaying", "closing", "marking"} => replays[r] = 1
  /\ job[r] \in {"refusing", "replaying", "closing", "marking", "cancelling"} => loaded[r].plan = r
  /\ replays[r] <= 1

\* What a row holds, and what the interface shows of it, is a plan of that request.
RowsOwn ==
  \A id \in Requests :
    /\ store[id].plan # None => RequestId(store[id].plan) = id
    /\ view[id] # None => RequestId(view[id]) = id

AllConsistent == RowsOwn /\ \A r \in Runs : OwnsRequest(r) => PlanConsistent(r)

\* The store is well formed and every plan stands where its row, its job and its click
\* say: decided once, loaded as it was shown, replayed at most once.
PlansSound == TypeOK /\ AllConsistent

\* What the user rejected is neither replayed nor merged.
RejectedStaysOut ==
  \A r \in Runs :
    OwnsRequest(r) /\ clicked[r] = "rejected" => replays[r] = 0 /\ branch[r] # "merged"

\* As long as nothing is decided on a plan of its own request, the branch stored
\* with it stays in place (approval_resume_service, rule 2).
BranchHeldWhilePending ==
  \A r \in Runs :
    LET row == store[RequestId(r)] IN
    OwnsRequest(r) /\ row.status = "pending" /\ row.branch # None
      => branch[row.branch] = "held"

\* Once a decision was taken on a plan of a session, whose plans share no
\* identifier, and neither a run, a job nor a request of that session is left,
\* the session has a terminal status: an execution that ends says so, in every
\* case (approval_resume_service, rule 3).
SessionSettled ==
  \A s \in Sessions :
    LET own == {r \in Runs : SessionOf[r] = s} IN
    /\ \E r \in own : job[r] # "none"
    /\ \A r \in own : OwnsRequest(r) /\ run[r] \notin LiveRuns /\ job[r] \notin LiveJobs
                         /\ store[RequestId(r)].status # "pending"
    => session[s] \in Terminal

\* Every decision on a plan of its own request takes effect: the request reaches a
\* final status, the session a terminal one, and the branch is merged or rolled
\* back.
DecisionTakesEffect ==
  \A r \in Runs :
    OwnsRequest(r) /\ clicked[r] # "none" ~>
      /\ store[RequestId(r)].status \in {"rejected", "resumed", "failed"}
      /\ session[SessionOf[r]] \in Terminal
      /\ branch[r] # "held"

\* Whatever the row of its request became in the meantime, a job ends: it
\* replays, abandons, cancels or refuses (reprendre_apres_approbation).
JobsEnd == \A r \in Runs : job[r] \in LiveJobs ~> job[r] \notin LiveJobs

\* The life of a plan as the user sees it, for the refinement of ApprovalLedger.
Fate(r) ==
  LET row == store[RequestId(r)] IN
  IF row.plan # r THEN "unseen"
  ELSE IF row.status = "pending" THEN "waiting"
  ELSE IF row.status = "approved" THEN (IF replays[r] = 0 THEN "approved" ELSE "running")
  ELSE IF row.status = "rejected" THEN "rejected" ELSE "settled"

Ledger == INSTANCE ApprovalLedger WITH Plans <- Runs, fate <- [r \in Runs |-> Fate(r)]

\* The store and its jobs implement the ledger of the decisions.
LedgerSpec == Ledger!Spec
=============================================================================
